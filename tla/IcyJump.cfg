SPECIFICATION PlayerSpec
CONSTANTS
    METAINT = 3
    UNIT = 2
    MaxLen = 3
    MaxChunk = 5
    INTW = 32
    SIZEW = 64
    CHARW = 4
INVARIANTS
    InSync
    ReadsTheLength
    PlayerInSync
