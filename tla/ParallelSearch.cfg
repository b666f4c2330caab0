SPECIFICATION Spec
CONSTANTS
    MaxArgs = 5
    MaxThreads = 4
    MaxErrors = 1
CHECK_DEADLOCK FALSE
INVARIANTS
    InPlace
    PoolsClosed
PROPERTIES
    Returns
