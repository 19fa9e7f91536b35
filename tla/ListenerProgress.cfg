CHECK_DEADLOCK FALSE
SPECIFICATION FairSpec
CONSTANTS
    User = {u1}
    Socket = {s1, s2}
    NoSocket = NoSocket
    MaxAdmissions = 1
    MaxParked = 1
    MaxWaiting = 0
PROPERTIES
    PeerCloseNoticed
    LeaveEnds
