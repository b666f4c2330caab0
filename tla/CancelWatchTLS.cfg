SPECIFICATION Spec
CONSTANTS
    Calls = {k1}
    None = None
    TLSModes = {TRUE}
INVARIANT StmtKeepsConn
CHECK_DEADLOCK FALSE
