CHECK_DEADLOCK FALSE
SPECIFICATION Spec
CONSTANTS
    User = {u1, u2}
    Socket = {s1, s2}
    NoSocket = NoSocket
    MaxAdmissions = 1
    MaxParked = 1
    MaxWaiting = 2
SYMMETRY Symmetry
INVARIANTS
    TypeOK
    Custody
    ReleasedIsEmpty
PROPERTIES
    TerminalStays
    ParkMakesRoom
    RoutedIsOpen
