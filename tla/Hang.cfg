SPECIFICATION AnchorSpec
CONSTANTS
    Attributes <- MCAttributes
    MaxAttrs = 3
    HrefCap = 5
PROPERTY AnchorEnds
CHECK_DEADLOCK FALSE
