CONSTANTS
    a = a
    b = b
    Values = {a, b}
    DefaultValue = a
    Punctual = FALSE
    MaxAttachments = 1
    MaxReopens = 0
    MaxBacklog = 2
    BufferSize = 2
SPECIFICATION Spec
INVARIANTS
    RefreshShowsHardware
