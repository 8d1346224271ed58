\* Three blocks over two rows, two power cuts, a schema of one block at each boot.
SPECIFICATION CutSpec
CONSTANTS
    Slots = 4
    Ids = {a, b, c}
    Values = {x}
    LongValues = {}
    Parts <- MCParts
    NoValue = NoValue
    NoId = NoId
    MaxBlocks = 2
    SeqCeiling = 3
    Schemas <- MCSchemas
    MaxFaults = 0
    MaxCuts = 2
    Explored = {"journal"}
    S3 = 1
    IdleReturn = 2
    NetWait = 2
    Resends = 1
    MaxMishaps = 1
SYMMETRY Symmetry
INVARIANTS
    TypeOK
    PartnerAccounted
PROPERTIES
    ImplementsStore
    CleanPreserved
CHECK_DEADLOCK FALSE
