SPECIFICATION Spec
CONSTANTS
    Pages <- AllPages
    MaxPresses = 2
CHECK_DEADLOCK FALSE
INVARIANTS
    TypeOK
    UpToDate
PROPERTIES
    WritesAreShown
