SPECIFICATION FairSpec
CONSTANTS
    Clients = {c1, c2}
    Channels = {a}
    Methods = {"Listen", "Close"}
    Main = Main
    NoOne = NoOne
    NotifyCap = 1
    ConnChanCap = 1
PROPERTIES
    CallsReturnOnceClosed
    LossIsHandled
