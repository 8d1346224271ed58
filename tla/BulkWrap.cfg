\* A pool of three: 3 does not divide the cursors' modulus, as it does not
\* divide 2^32.
CONSTANTS
    NBuf = 3
    CursorMod = 4
    NMessage = 1
    MaxOverflows = 0
    MaxRestarts = 0
SPECIFICATION Spec
INVARIANTS SlotsDistinct
