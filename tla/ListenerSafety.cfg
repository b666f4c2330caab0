SPECIFICATION Spec
CONSTANTS
    Clients = {c1, c2}
    Channels = {a, b}
    Methods = {"Listen", "Unlisten", "UnlistenAll", "Ping", "Close"}
    Main = Main
    NoOne = NoOne
    NotifyCap = 1
    ConnChanCap = 1
SYMMETRY MCSymmetry
INVARIANTS
    IInv
    SessionInSync
PROPERTY GapMarked
