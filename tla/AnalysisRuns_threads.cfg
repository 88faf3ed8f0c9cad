\* Two threads that work on the two attempts of one run, through every stage.
CONSTANTS
    Runs = {1}
    Members = {m1, m2}
    Workers = {w1, w2}
    Keys = {}
    StagesAfter <- FullPipeline
    NoKey = NoKey
    NoAttempt = NoAttempt
SPECIFICATION FairSpec
INVARIANTS
    RunningIsOwned
PROPERTIES
    ReservationsAreReleased
    WorkEnds
