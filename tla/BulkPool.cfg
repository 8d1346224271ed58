\* Two buffers; cursors wrap at a multiple of the pool's size.
CONSTANTS
    NBuf = 2
    CursorMod = 4
    NMessage = 4
    MaxOverflows = 0
    MaxRestarts = 0
SPECIFICATION Spec
INVARIANTS PoolSound
PROPERTIES ImplementsQueue
