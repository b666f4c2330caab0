SPECIFICATION FairSpec
CONSTANTS
    Clients = {c1}
    Channels = {a}
    Methods = {"Close"}
    Main = Main
    NoOne = NoOne
    NotifyCap = 1
    ConnChanCap = 1
PROPERTY CloseShutsDown
