SPECIFICATION Spec
CONSTANTS
    Slots = 4
    Ids = {a, b}
    Values = {x, y}
    LongValues = {}
    Parts <- MCParts
    NoValue = NoValue
    NoId = NoId
    MaxBlocks = 2
    SeqCeiling = 9
    Schemas <- MCNoSchemas
    MaxFaults = 0
    MaxCuts = 0
SYMMETRY Symmetry
INVARIANTS
    NeverWedged
CHECK_DEADLOCK FALSE
