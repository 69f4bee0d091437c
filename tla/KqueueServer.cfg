SPECIFICATION FairSpec
CONSTANTS
    c1 = c1
    c2 = c2
    c3 = c3
    Clients = {c1, c2, c3}
    LINES = 2
    PIECE = 2
    SOCKBUF = 6
INVARIANTS
    SmallPageSent
    WaitsForNobody
PROPERTIES
    EventuallyClosed
    ServesOneAtATime
CHECK_DEADLOCK FALSE
