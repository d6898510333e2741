CONSTANTS
    c1 = c1
    c2 = c2
    v1 = v1
    v2 = v2
    NoState = NoState
    Clients = {c1, c2}
    States = {v1, v2}
    PeerMessages = {"bad"}
    SendQueueLen = 2
    CmdQueueLen = 1
SPECIFICATION Spec
SYMMETRY Symmetry
INVARIANTS
    UpToDate
    RegisteredIsServed
PROPERTIES
    ImplementsFeed
