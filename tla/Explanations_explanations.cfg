SPECIFICATION Spec
CONSTANTS
 k1 = k1
 k2 = k2
 Keys = {k1,k2}
 Snapshots = {s1}
 Prompts = {p1}
 Requests = {r1,r2}
 Named = {TRUE,FALSE}
 MaxBatches = 2
 MaxCandidates = 2
 MaxTries = 2
 Concurrency = 2
 Budgets <- MCBudgets
 None = None
INVARIANTS
    EndedIsAtRest
    ExplanationsAreKept
PROPERTIES
    EndedStays
    BatchesEnd
CHECK_DEADLOCK FALSE
