SPECIFICATION FairSpec
CONSTANTS
    None = None
    TwoFlows = FALSE
    StopsDuringStart = FALSE
INVARIANTS
    TypeOK
    NeverStranded
    RedirectIsRecorded
    SessionIsOwned
PROPERTIES
    ImplementsJournal
    OperationEnds
