SPECIFICATION ClientsSpec
CONSTANTS
    Letters = {"a", "b", "t", "u"}
    Songs <- TheSongs
    MaxPieces = 2
    REQCAP = 2
    ANSCAP = 2
    Kinds = {"http", "sse", "sse3", "sse3_ok"}
    BUF = 2
    MaxRecord = 3
    MaxSent = 5
    MaxStream = 7
    MaxChunk = 4
    Flags = {"-n", "-l", "-j", "--nossl", "--long-poll", "--cos"}
    Statuses = {200, 404}
    Enough = 3
    Burst = 2
    MaxSeen = 6
INVARIANTS
    TypesOK
    OneBehind
    ArtistRight
    NeverStuck
    EndsBehindTheLast
    OneMessageForEachLine
    ExitTellsStatus
PROPERTIES
    MetaEventuallyShown
    NothingLeftBehind
    EndsWhenAsked
    EndsInTheEnd
CHECK_DEADLOCK FALSE
