SPECIFICATION Spec
CONSTANTS
    Slots = 4
    Ids = {a}
    Values = {x, y}
    LongValues = {}
    Parts <- MCParts
    NoValue = NoValue
    NoId = NoId
    MaxBlocks = 2
    SeqCeiling = 7
    Schemas <- MCNoSchemas
    MaxFaults = 1
    MaxCuts = 1
SYMMETRY Symmetry
INVARIANTS
    CleanIsHonest
CHECK_DEADLOCK FALSE
