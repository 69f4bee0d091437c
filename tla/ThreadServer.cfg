SPECIFICATION MCSpec
CONSTANTS
    c1 = c1
    c2 = c2
    c3 = c3
    Clients = {c1, c2, c3}
    MaxFd = 4
    Free = Free
    File = File
INVARIANTS
    OwnsClient
    AnsweredOnce
    DescriptorsLeak
PROPERTY
    EventuallyAnswered
CHECK_DEADLOCK FALSE
