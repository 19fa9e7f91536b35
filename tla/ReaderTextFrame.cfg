SPECIFICATION Spec
CONSTANTS
    Catalogue <- TextThenTiny
    MaxPieces = 2
    ResyncLimit = 2
CHECK_DEADLOCK FALSE
INVARIANT RecordsTrue
