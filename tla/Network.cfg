\* Two connections; requests sent ahead by one; a routine of two steps.
\* Rings of two and three descriptors, three frames in and four out, a link disabled once.
\* NetUp: a pool of two packets, one request a pass, two renegotiations, or one and a close.
\* Diag: one level, two wrong keys to a lockout of two ticks, one reset that is not its own.
CONSTANTS
    MaxConns = 2
    MaxPosts = 2
    MaxLoose = 2
    MaxPipe = 2
    Steps = 2
    RouteConns = 2
    RouteCalls = 2
    RouteLoose = 1
    Initial = 2
    General = 4
    PollTicks = 3
    ServeTicks = 3
    TickMod = 8
    RxCnt = 2
    TxCnt = 3
    PoolCount = 2
    MaxRx = 3
    MaxTx = 4
    MaxDisables = 1
    NetPoolCount = 2
    IdentPerPass = 1
    MaxEvents = 2
    MaxIdents = 1
    SaLevels = 1
    SaAttempts = 2
    SaDelay = 2
    SessionS3 = 1
    MaxTrouble = 1
SPECIFICATION NetSpec
INVARIANTS TypeOK ResetAnswered OwnAnswers FailedNotActed NothingInherited NothingStuck DeadlinesKept NetworkUsable DiagHonest
PROPERTIES StepAfterAck AnswersOwn
CHECK_DEADLOCK FALSE
