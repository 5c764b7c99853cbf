CONSTANTS
    Steps <- AllSteps
    Starts <- OneOfEachKind
    Sidebar <- EverySidebar
    MaxEdits = 2
    MaxRequests = 2
    MaxActions = 3
    MaxVisits = 2

SPECIFICATION Spec
CHECK_DEADLOCK FALSE

INVARIANT TracksUnsaved
