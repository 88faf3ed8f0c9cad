\* Two members and two runs: the second run is a retry, or meets attempts of
\* the first that are still active, or both.  One thread, and one key, which the
\* first request carries.
CONSTANTS
    Runs = {1, 2}
    Members = {m1, m2}
    Workers = {w1}
    Keys = {k1}
    StagesAfter <- ShortPipeline
    NoKey = NoKey
    NoAttempt = NoAttempt
SPECIFICATION Spec
CONSTRAINT Bounds
SYMMETRY Symmetry
INVARIANTS
    TypeOK
    AttemptsInOrder
    CancelIsDecided
    RunsAgree
PROPERTIES
    ImplementsLifecycle
