SPECIFICATION ServicesSpec
CONSTANTS
    PairingCodes = {pc1, pc2}
    Tokens = {t1}
    Batches = {b1, b2}
    SyncSites = {s1}
    PairingTTL = 1
    SyncTTL = 2
    AttemptWindow = 1
    MaxPairingAttempts = 1
    SyncEnd = 4
    Addresses = {a1, a2}
    AdminTokens = {k1, k2}
    MaxFailures = 2
    LockTime = 2
    FailureWindow = 2
    AdminTTL = 3
    AdminEnd = 5
    Browsers = {w1, w2}
    Logins = {x1, x2}
    NoLogin = NoLogin
    StateTTL = 1
    UserTTL = 2
    OAuthEnd = 4
    Requests = {r1, r2}
    Limit = 2
    Window = 3
    Lag = 1
    LimiterEnd = 8
    Part = 2
    Rate = 1
    Burst = 2
    Polls = {p1, p2}
    BucketEnd = 8
    Members = {m1}
    Channels = {ch1, ch2}
    Expiries = {7, 8}
    DayLength = 2
    RenewalWindow = 6
    ExpiryDayGrace = 4
    MaxReminderFaults = 2
    MaxMoves = 2
    ReminderEnd = 12
    FreeSites = {f1, f2, f3}
    FreeChannels = {fc1, fc2}
    FreeLimit = 1
    MaxSubs = 4
    Subscribers = {h1, h2}
    Orders = {o1, o2, old}
    LegacyOrders = {old}
    Codes = {c1}
    Days = {1, 2}
    MaxLag = 1
    MaxTime = 5
SYMMETRY Symmetry
INVARIANT ServicesTypeOK
INVARIANT ClaimIsHeld
PROPERTY SyncTicketsOnce
INVARIANT AdminIsGuarded
PROPERTY LoginsHold
INVARIANT LimitsHold
INVARIANT RemindersKeepPromises
INVARIANT SoldOnce
PROPERTY RefundTakesOwnShare
PROPERTY LostTimeStaysLost
CHECK_DEADLOCK FALSE
