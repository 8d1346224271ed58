SPECIFICATION IoSpec
CONSTANTS
    MaxPoints = 3
    MaxStarts = 1
    MaxIoWrites = 1
INVARIANTS DutiesKept
CHECK_DEADLOCK FALSE
