SPECIFICATION Spec
CONSTANTS
    PN = {"S", "A", "B"}
    FullPN = {"A", "B"}
    StartsWith <- MCStartsWith
    PnLen <- MCPnLen
    MinPrefixLen = 10
    Entry = {e1}
    Verification = {v1}
    Recovery = {r1}
    Removal = {}
    MaxSession = 2
    Settled = {"parked"}
INVARIANTS
    TypeOK
    CertifiedIsTrue
    PreparedIsProven
PROPERTY
    ClaimOnlyEnriches
