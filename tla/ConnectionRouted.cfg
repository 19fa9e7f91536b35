CHECK_DEADLOCK FALSE
SPECIFICATION FairSpec
CONSTANTS
    Socket = {s1, s2}
    Request = {r1, r2}
    Nobody = Nobody
    Kinds = {"at"}
    Replacing = "never"
    TidModulus = 4
    MaxHeartbeats = 1
    MaxReleases = 1
INVARIANTS
    TypeOK
    NoOrphanedWait
PROPERTIES
    RequestEnds
    SessionRetires
