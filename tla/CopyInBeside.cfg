SPECIFICATION FairSpec
CONSTANTS
    MaxRows = 2
    MaxCopies = 2
    MaxAsync = 1
    BufferRows = 1
    FlushRows = 0
    Columns = {0, 1, 2}
INVARIANTS
    SoleReader
CHECK_DEADLOCK FALSE
