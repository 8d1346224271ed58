\* Bulk: which message is in a buffer does not matter to the service loops.
\* ISO-TP: two messages from the tester, two frames lost or refused and one
\* exchange abandoned, at any point.  Can: thrown off the bus twice.
CONSTANTS
    NBuf = 2
    CursorMod = 4
    NMessage = 1
    MaxOverflows = 1
    MaxRestarts = 0
    Lengths <- FramesPerMessage
    MaxPayload <- Payloads
    Bs <- Blocks
    StMin <- Separations
    NBs = 2
    NCr = 2
    WftMax = 1
    SnMod = 3
    Plans <- OneWay
    MaxLost = 2
    MaxAborts = 1
    WireSize = 2
    FifoDepth = 1
    TxDepth = 1
    MaxFrames = 1
    MaxOffs = 2
    MaxOpens = 1
SPECIFICATION RestSpec
PROPERTIES PoolRecovers OldestTaken ExchangeRests BackOnBus
CHECK_DEADLOCK FALSE
