CHECK_DEADLOCK FALSE
SPECIFICATION Spec
CONSTANTS
    Socket = {s1, s2}
    Request = {r1, r2}
    Nobody = Nobody
    Kinds = {"framed", "at", "raw", "aux"}
    Replacing = "settled"
    TidModulus = 3
    MaxHeartbeats = 0
    MaxReleases = 0
SYMMETRY Symmetry
INVARIANTS
    ReplyIsOwn
    ReplyOnOwnSocket
    NamesOwnSession
    BootstrapIsFresh
PROPERTY OnlyOwnTeardown
