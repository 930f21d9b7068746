CONSTANTS
    Events = {e1, e2}
    Workers = {w1, w2}
    Sweepers = {s1}
    Incremental = TRUE
    MaxClock = 1
    MaxTotal = 4
    Null = Null
    StartMarks <- MCStartMarks
SPECIFICATION FairSpec
INVARIANTS
    NeverInflated
PROPERTIES
    Freshness
    FullOnlyConverges
