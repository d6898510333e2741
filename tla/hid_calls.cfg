CONSTANTS
    a = a
    Values = {a}
    DefaultValue = a
    Punctual = FALSE
    MaxAttachments = 2
    MaxReopens = 1
    MaxBacklog = 1
    BufferSize = 2
SPECIFICATION FairSpec
PROPERTIES
    CallsReturn
