SPECIFICATION Spec
CONSTANTS
    PN = {"T", "S", "A", "B"}
    FullPN = {"A", "B"}
    StartsWith <- MCStartsWith
    PnLen <- MCPnLen
    MinPrefixLen = 10
    Entry = {e1, e2}
    Verification = {v1}
    Recovery = {r1}
    Removal = {x1}
    MaxSession = 1
    Settled = {"parked", "waiting", "mismatch"}
SYMMETRY Symmetry
INVARIANTS
    IdentityExclusive
    LoadedOwns
