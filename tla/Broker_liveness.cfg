SPECIFICATION FairSpec
CONSTANTS
    MaxPacketID = 1
    Trials = 1
    Period = 2
    Draw <- MCDraw
    NoWill = NoWill
    s1 = s1
    s2 = s2
    s3 = s3
    c1 = c1
    c2 = c2
    c3 = c3
    a = a
    t1 = t1
    bad = bad
    Slots = {s1, s2}
    Conns = {c1, c2}
    MaxFd = 2
    Names = {a}
    MaxDummy = 0
    Anon = Anon
    Topics = {t1}
    BadTopics = {}
    Wills <- MCWills
    KeepAlives = {TRUE}
    MaxQoS = 1
    MaxPings = 0
    Nil = Nil
    Null = Null
CHECK_DEADLOCK FALSE
PROPERTIES HandlersReturn
