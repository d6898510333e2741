CONSTANTS
    a = a
    b = b
    Values = {a, b}
    DefaultValue = a
    Punctual = TRUE
    MaxAttachments = 2
    MaxReopens = 1
    MaxBacklog = 1
    BufferSize = 2
SPECIFICATION Spec
INVARIANTS
    RefreshShowsHardware
    SetTakesEffect
