SPECIFICATION FairSpec
CONSTANTS
    Catalogue <- Mixed
    MaxPieces = 4
    ResyncLimit = 2
CHECK_DEADLOCK FALSE
INVARIANTS
    TypeOK
    RecordsTrue
    NoFalseClose
PROPERTIES
    KeepsGluedFrame
    Settles
