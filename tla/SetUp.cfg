SPECIFICATION SetUpSpec
CONSTANTS
    MaxAddresses = 3
    c1 = c1
    c2 = c2
    Clients = {c1, c2}
    LINES = 1
    SOCKBUF = 1
INVARIANTS
    TypesOK
    UsesWhatItHolds
    UndoIsComplete
    PrintsItsOwn
    NoFormLost
PROPERTIES
    OneClientAtATime
    EventuallyAnswered
CHECK_DEADLOCK FALSE
