SPECIFICATION Spec
CONSTANTS
    NoEngine = NoEngine
    Models = {m1, m2}
    Rules = {r1}
    Admins = {a1}
    MaxEdits = 1
SYMMETRY Symmetry
INVARIANT BlockedNeverPublic
