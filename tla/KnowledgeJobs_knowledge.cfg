SPECIFICATION Spec
CONSTANTS
    Requests = {c1, c2}
    Hints = {h1, h2}
    Stages = 1
    Caches = {TRUE, FALSE}
    MaxJobs = 2
    MaxRules = 1
    MaxCrashes = 1
    MaxDrops = 1
    None = None
INVARIANTS
    KnowledgeIsKept
PROPERTIES
    AnswersStay
    JobsEnd
CHECK_DEADLOCK FALSE
