SPECIFICATION Spec
CONSTANTS
    Handlers = {h1, h2}
    Items = {i1}
    MaxBatch = 2
    MaxTransitions = 3
SYMMETRY Symmetry
INVARIANTS TypeOK HistoryMatchesState ApprovedWasReviewed
