SPECIFICATION Spec
CONSTANTS
    Cells = {amount, note}
    MaxEdits = 2
    MaxSaves = 2
    MaxRefreshes = 1
CHECK_DEADLOCK FALSE
INVARIANTS
    TypeOK
    SavedMeansStored
    NoEditLost
    TableIsStored
PROPERTIES
    EditSettles
