SPECIFICATION SearchFairSpec
CONSTANTS
    Top = 5
    Layouts <- MCLayouts
    Limit = 2
    ScanLimit = 3
    MaxEdits = 1
    NoCursor = NoCursor
CHECK_DEADLOCK FALSE
INVARIANTS
    NoHitTwice
    NothingMissed
    FoundSoFar
PROPERTY SearchEnds
