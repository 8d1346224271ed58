\* Journal: a plain value and a chain of two records, one flash failure, one power cut.  Boot:
\* sessions and stays of one and two ticks, a response sent again once, one power cut or one
\* flash operation that fails.
SPECIFICATION CutSpec
CONSTANTS
    Slots = 5
    Ids = {a}
    Values = {p, c}
    LongValues = {c}
    Parts <- MCParts
    NoValue = NoValue
    NoId = NoId
    MaxBlocks = 1
    SeqCeiling = 3
    Schemas <- MCNoSchemas
    MaxFaults = 1
    MaxCuts = 1
    Explored = {"journal", "boot"}
    S3 = 1
    IdleReturn = 2
    NetWait = 2
    Resends = 1
    MaxMishaps = 1
SYMMETRY BlockSymmetry
INVARIANTS
    NextWordBlank
    SeqNamesOneWrite
    LoopFits
    NoFalseClean
    RefsValid
    JournalInv
    BootHonest
PROPERTIES
    ImplementsStore
CHECK_DEADLOCK FALSE
