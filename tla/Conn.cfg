SPECIFICATION FairSpec
CONSTANTS
    Scripts <- MCScripts
    Statements <- MCStatements
    MaxRows = 2
INVARIANTS
    TypeOK
    InStep
    RetryIsSafe
PROPERTIES
    CommitIsTrue
    TxnIsOwn
    NoRowLost
    CallReturns
CHECK_DEADLOCK FALSE
