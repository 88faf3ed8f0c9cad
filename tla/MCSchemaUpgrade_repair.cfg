CONSTANTS
    Openers = {o1, o2}
    Jobs = {j1, j2}
    Views = {v1}
    Scopes = {s1, s2}
    Newest = 4
    None = None
    MaxOpenings = 3
    MaxCrashes = 1
SPECIFICATION Spec
SYMMETRY Symmetric
INVARIANT OpenIsComplete
CHECK_DEADLOCK FALSE
