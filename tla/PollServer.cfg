SPECIFICATION LoopSpec
CONSTANTS
    c1 = c1
    c2 = c2
    c3 = c3
    NoClient = NoClient
    Clients = {c1, c2, c3}
    MAX_CLIENTS = 2
    Backlog = 2
    SOCKBUF = 1
    SEC = 3
    INITIAL_POLL_INTERVAL = 3
    SLIDING_WINDOW = 3
    MaxWork = 1
    MaxLate = 1
    MaxCount = 12
    MaxTimeout = 4
SYMMETRY Symmetry
INVARIANTS
    TypesOK
    SlotsAreOpen
    AnswerComplete
    WindowGrowsByLongPassesOnly
    FreedOnce
    FreedAtExit
CHECK_DEADLOCK FALSE
