SPECIFICATION Spec
CONSTANTS
    NoSite = NoSite
    NoRun = NoRun
    Sites = {s1, s2}
    Goroutines = {g1, g2}
    Requests = {}
    RunIds = {r1, r2}
    HttpSlots = 1
    FailureStates = {"collection_failed"}
    MaxFaults = 0
SYMMETRY Symmetry
INVARIANT OneGoroutinePerSite
INVARIANT SlotsAccounted
INVARIANT CleanStop
