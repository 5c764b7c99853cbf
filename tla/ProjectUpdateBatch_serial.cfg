SPECIFICATION Spec
CONSTANTS
    Handlers = {h1}
    Items = {i1, i2}
    MaxBatch = 2
    MaxTransitions = 4
INVARIANTS OneActiveBatch HistoryAlternates
PROPERTIES ImplementsUpdateWorkflow
