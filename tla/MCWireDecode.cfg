SPECIFICATION Spec
CONSTANTS
    Dico <- AllMessages
    Tokens <- AllTokens
    IdMax = 13
    TagItem <- ItemOfTag
    TagWire <- WireOfTag
    Wide <- MinusOne
    DoubleSize = 2
    HeaderSize = 1
    MaxLimit = 9
    MaxDepth = 10
    Sent <- SentMessages
    AnyBuffer = AnyBuffer
    None = None
INVARIANTS TypeOK Laminar Stable CutOff
PROPERTY Returns
CHECK_DEADLOCK FALSE
