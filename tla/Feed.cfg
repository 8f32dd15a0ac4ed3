\* two subscriptions share a channel, a third has a channel of its own
SPECIFICATION FairSpec
CONSTANTS
    Subs = {s1, s2, s3}
    Chans = {c1, c2}
    ChanOf <- SharedChans
    ChanCap = 1
    MaxSends = 3
INVARIANTS
    TypeOK
    CasesAccounted
    InOrderOnce
PROPERTIES
    SendReachesSubscribers
    UnsubscribeReturns
CHECK_DEADLOCK FALSE
