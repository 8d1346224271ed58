\* Ioc: two bytes, four publishes.  ISO-TP: three messages from the tester, or
\* one each way; two frames lost or refused and one exchange abandoned, at any
\* point; the numbers wrap at 3 for 16.  XCore: two slots of two words, lapped,
\* two boots of the writer and two of the reader.  Can: a FIFO of two overrun by five
\* frames, one bus-off, in each of two sessions.  CanIf: a ring of two whose indices
\* wrap at 4 for 2^32, two sessions.  XTrace: the clocks wrap, two requests, one reset.
\* Recorder: a ring of two, one id for two threads, two interrupts, two switches.
\* Osal: five messages of one and two bytes.
CONSTANTS
    ClockMod = 20
    Plausible = 6
    MaxTime = 3
    MaxPosts = 2
    MaxResets = 1
    Cap = 2
    MaxThreads = 1
    Window = 1
    RecEvents = 3
    RecIsrs = 2
    RecSwitches = 2
    Size = 2
    MaxWrites = 4
    Lengths <- FramesPerMessage
    MaxPayload <- Payloads
    Bs <- Blocks
    StMin <- Separations
    NBs = 2
    NCr = 2
    WftMax = 1
    SnMod = 3
    Plans <- EitherWay
    MaxLost = 2
    MaxAborts = 1
    WireSize = 2
    XSlots = 2
    XWords = 2
    XSeqMod = 16
    SeedK = 5
    MaxPubs = 3
    WBoots = 2
    RBoots = 1
    FifoDepth = 2
    TxDepth = 1
    MaxFrames = 5
    MaxOffs = 1
    MaxOpens = 2
    RingCap = 2
    RingMod = 4
    MaxIndications = 5
    MaxSends = 2
    MaxRuns = 2
    MaxPoints = 3
    MaxStarts = 2
    MaxIoWrites = 1
    OMaxWrites = 5
SPECIFICATION NodeSpec
INVARIANTS ReadsLatest EverHonest ExchangedIntact GrantsKept HeldHonest BusHonest TraceHonest RecorderHonest IoHonest OsalHonest
PROPERTIES NeverBack
CHECK_DEADLOCK FALSE
