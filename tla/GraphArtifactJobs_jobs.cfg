\* A server and a shell that work on one key, with two attempts.
CONSTANTS
    Keys = {k1}
    Servers = {s1}
    Shells = {c1}
    Readers = {r1}
    MaxJobs = 2
    None = None
SPECIFICATION FairSpec
INVARIANTS
    JobsInOrder
    ReferencesFollowJobs
PROPERTIES
    NothingIsTakenBack
    SubmittedJobsEnd
