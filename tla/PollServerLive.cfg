SPECIFICATION FairSpec
CONSTANTS
    Clients = {c1, c2}
    NoClient = NoClient
    MAX_CLIENTS = 2
    Backlog = 1
    SOCKBUF = 1
PROPERTY
    EventuallyClosed
CHECK_DEADLOCK FALSE
