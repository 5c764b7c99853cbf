SPECIFICATION Spec
CONSTANTS
    Modified = {m1, m2}
    Added = {a1, a2}
    CallerLogs = {c1}
    MaxRetryCount = 3
INVARIANTS TypeOK StoredUnlessRetried
PROPERTIES ImplementsAtomicSave SaveEnds
CHECK_DEADLOCK FALSE
