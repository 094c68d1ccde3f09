SPECIFICATION Spec
CONSTANTS
    MaxPacketID = 2
    Trials = 2
    Period = 3
    Draw <- MCDraw
    NoWill = NoWill
    SomeWill = SomeWill
    a = a
    b = b
    Callers = {a}
    Reader = Reader
    KeepAlives = {0}
    HasID = TRUE
    CleanFlags = {TRUE}
    QoSs = {1}
    TopicLists <- MCInnerHash
    MaxConns = 1
    MaxCalls = 1
    MaxPubs = 0
CHECK_DEADLOCK FALSE
INVARIANT SubscribesToTails
