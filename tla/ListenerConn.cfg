SPECIFICATION FairSpec
CONSTANTS
    Senders = {s1, s2}
    NoSender = NoSender
    ExecReplies <- MCExecReplies
    PingReplies <- MCPingReplies
    NotifyCap = 1
    MaxCalls = 1
    MaxAsync = 1
INVARIANTS
    AnswerInv
    ReplyIsOwn
    PingNeverPanics
PROPERTIES
    ImplementsAPI
    CallsReturn
    AbandonedIsCleanedUp
CHECK_DEADLOCK FALSE
