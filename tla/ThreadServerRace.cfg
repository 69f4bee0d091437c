SPECIFICATION Spec
CONSTANTS
    c1 = c1
    c2 = c2
    c3 = c3
    Clients = {c1, c2}
    MaxFd = 3
    Free = Free
    File = File
INVARIANT
    HandlesTheClient
CHECK_DEADLOCK FALSE
