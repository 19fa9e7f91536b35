CHECK_DEADLOCK FALSE
SPECIFICATION Spec
CONSTANTS
    User = {u1}
    Socket = {s1}
    NoSocket = NoSocket
    MaxAdmissions = 1
    MaxParked = 1
    MaxWaiting = 1
INVARIANTS
    AlwaysWatched
