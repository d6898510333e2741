CONSTANTS
    Switches = {"lock"}
    MaxGain = 1
    Step = 1
    Serials = {s1, s2}
    None = None
    Invalid = Invalid
    MaxCmds = 1
    MaxNews = 1
    Sockets = {k1, k2}
SPECIFICATION FairSpec
INVARIANTS
    Lifeline
    Truthful
PROPERTIES
    KeepsWishes
    Settles
