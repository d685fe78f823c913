SPECIFICATION Spec
CONSTANTS
    NoSite = NoSite
    NoRun = NoRun
    Sites = {s1}
    Goroutines = {g1}
    Requests = {}
    RunIds = {r1, r2}
    HttpSlots = 1
    FailureStates = {"collection_failed"}
    MaxFaults = 0
PROPERTY FailureKeepsSnapshot
