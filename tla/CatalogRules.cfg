SPECIFICATION Spec
CONSTANTS
    NoEngine = NoEngine
    Models = {m1, m2}
    Rules = {r1, r2}
    Admins = {a1, a2}
    MaxEdits = 2
SYMMETRY Symmetry
CONSTRAINT Bound
INVARIANT RemovedOnlyAfterThree
INVARIANT MatchesFollowRules
INVARIANT BlockedStaysHidden
