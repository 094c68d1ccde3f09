SPECIFICATION Spec
CONSTANTS
    MaxPacketID = 1
    Trials = 2
    Period = 2
    Draw <- MCDraw
    NoWill = NoWill
    SomeWill = SomeWill
    a = a
    b = b
    Callers = {a, b}
    Reader = Reader
    KeepAlives = {0, 1}
    HasID = TRUE
    CleanFlags = {TRUE}
    QoSs = {1}
    TopicLists = {}
    MaxConns = 2
    MaxCalls = 2
    MaxPubs = 0
CHECK_DEADLOCK FALSE
INVARIANTS RequestsAreKept WillOutlivesDisconnect
PROPERTIES SilentAfterDisconnect DeafWithKeepAlive
VIEW View
