SPECIFICATION FairSpec
CONSTANTS
    MaxPacketID = 2
    Trials = 2
    Period = 3
    Draw <- MCDraw
    NoWill = NoWill
    SomeWill = SomeWill
    a = a
    b = b
    Callers = {a}
    Reader = Reader
    KeepAlives = {0}
    HasID = TRUE
    CleanFlags = {FALSE}
    QoSs = {0, 1, 2}
    TopicLists <- MCFilters
    MaxConns = 2
    MaxCalls = 1
    MaxPubs = 1
CHECK_DEADLOCK FALSE
INVARIANTS TypeOK RequestsAreKept
PROPERTY LeavingEndsConnect
