SPECIFICATION FairSpec
CONSTANTS
    Calls = {k1, k2}
    None = None
    TLSModes = {TRUE, FALSE}
INVARIANTS
    FinishSettles
    CancelHitsOwn
PROPERTIES
    FinishReturns
    WatchersEnd
CHECK_DEADLOCK FALSE
