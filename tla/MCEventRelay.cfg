SPECIFICATION FairSpec
CONSTANTS
    s1 = s1
    s2 = s2
    Sessions <- MCSessions
    NoSession = NoSession
    c1 = c1
    c2 = c2
    t1 = t1
    t2 = t2
    Conns <- MCConns
    NoConn = NoConn
    Threads <- MCThreads
    MaxEvents <- MCMaxEvents
INVARIANT FollowedOnce
PROPERTY FeedSpec EndIsLearned
CHECK_DEADLOCK FALSE
