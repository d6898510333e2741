CONSTANTS
    Switches = {"lock"}
    MaxGain = 2
    Step = 2
    Serials = {s1, s2}
    None = None
    MaxCmds = 1
    MaxNews = 1
SPECIFICATION FairSpec
INVARIANTS
    OnlySettingsAreSent
PROPERTIES
    KeepsWishes
    Settles
