SPECIFICATION FairSpec
CONSTANTS
    NoSite = NoSite
    NoRun = NoRun
    Sites = {s1}
    Goroutines = {g1}
    Requests = {q1}
    RunIds = {r1, r2}
    HttpSlots = 1
    FailureStates = {"collection_failed"}
    MaxFaults = 1
INVARIANT NoOverlappingRuns
INVARIANT CollectingIsLive
INVARIANT RunningRowsOwned
PROPERTY CollectionsAreFlights
PROPERTY EnabledSiteKeepsCollecting
PROPERTY CollectingEnds
