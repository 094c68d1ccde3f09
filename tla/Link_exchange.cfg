SPECIFICATION FairSpec
CONSTANTS
    MaxPacketID = 2
    Trials = 2
    Period = 3
    Draw <- MCDraw
    NoWill = NoWill
    NoUser = NoUser
    Unset = Unset
    ClientID <- MCClientID
    Will <- MCWill
    Connects <- MCConnects
    SubscribeLists <- MCSubscribeLists
    UnsubscribeLists <- MCUnsubscribeLists
    Publishes <- MCPublishes
    Retained <- MCRetained
    MaxMerged = 2
    MaxCalls = 3
CHECK_DEADLOCK FALSE
INVARIANTS TypeOK ReadAsSent
PROPERTIES AnswersMeetRequests RequestsAnswered
