SPECIFICATION Spec
CONSTANTS
    NoUser = NoUser
    NoEntry = NoEntry
    Users = {u1}
    MaxSub = 1
    Targets = {t1, t2}
    Served = {t1, t2}
    Versions = {v0, v1}
    Queuers = {q1}
    MaxRetries = 1
    MaxFaults = 0
INVARIANT QueueFollowsChannel
