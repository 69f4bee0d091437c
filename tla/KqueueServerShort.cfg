SPECIFICATION Spec
CONSTANTS
    c1 = c1
    c2 = c2
    c3 = c3
    Clients = {c1, c2}
    LINES = 2
    PIECE = 2
    SOCKBUF = 3
INVARIANT
    ContentSent
CHECK_DEADLOCK FALSE
