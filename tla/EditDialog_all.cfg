SPECIFICATION Spec
CONSTANTS
    Dialogs <- AllDialogs
    MaxSaves = 3
CHECK_DEADLOCK FALSE
INVARIANTS
    TypeOK
    NoRepeatedRow
    ResultMeansStored
    NothingMeansUnchanged
    BlankOnlyUnloaded
PROPERTIES
    NothingStoredAfterTold
    SaveSettles
