CONSTANTS
    c1 = c1
    v1 = v1
    NoState = NoState
    Clients = {c1}
    States = {v1}
    PeerMessages = {"bad", "command", "subscribe"}
    SendQueueLen = 2
    CmdQueueLen = 1
SPECIFICATION Spec
INVARIANT StateImmediatelyFollows
