CONSTANTS
    Switches = {"lock", "muted"}
    Controls = {"gain", "lock"}
    MaxGain = 1
    Step = 1
    Serials = {s1}
    None = None
    MaxCmds = 1
    MaxNews = 1
SPECIFICATION FairSpec
INVARIANTS
    FillIsTrue
PROPERTIES
    KeepsWishes
    Settles
