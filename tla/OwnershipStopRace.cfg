SPECIFICATION Spec
CONSTANTS
    None = None
    TwoFlows = FALSE
    StopsDuringStart = TRUE
INVARIANTS
    SessionIsOwned
