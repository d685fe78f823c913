SPECIFICATION FairSpec
CONSTANTS
    NoUser = NoUser
    NoEntry = NoEntry
    Users = {u1}
    MaxSub = 1
    Targets = {t1, t2}
    Served = {t1}
    Versions = {v0, v1, v2}
    Queuers = {q1}
    MaxRetries = 1
    MaxFaults = 2
CONSTRAINT Bound
INVARIANT AttemptsBounded
INVARIANT TakenOnce
INVARIANT DeletedIsQuiet
INVARIANT PendingIsLive
INVARIANT NewsReachesSubscribers
PROPERTY QueuedIsSettled
