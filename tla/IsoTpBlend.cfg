\* Two messages from the tester, the first abandoned, one frame lost.
CONSTANTS
    Lengths <- FramesPerMessage
    MaxPayload <- Payloads
    Bs <- Blocks
    StMin <- Separations
    NBs = 2
    NCr = 2
    WftMax = 1
    SnMod = 16
    Plans <- OneWay
    MaxLost = 1
    MaxAborts = 1
    WireSize = 2
SPECIFICATION IsoSpec
INVARIANTS AlwaysIntact
CHECK_DEADLOCK FALSE
