SPECIFICATION Spec
CONSTANTS
    Commits <- MCCommits
    Graphs <- MCGraphs
    Sources <- MCSources
    Ratio <- MCRatio
    RatioCallees <- MCRatioCallees
    MaxFailures = 1
    None = None
INVARIANTS
    MemoryAgrees
    HistoryIsWhole
PROPERTIES
    NeverBehind
    CatchesUp
