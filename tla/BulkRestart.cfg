\* The producer's core restarts once beside a live consumer.
CONSTANTS
    NBuf = 2
    CursorMod = 4
    NMessage = 1
    MaxOverflows = 0
    MaxRestarts = 1
SPECIFICATION RestartSpec
INVARIANTS HeldNotLent
