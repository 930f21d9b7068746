CONSTANTS
    Runs = {r1, r2}
    Recipients = {v1, v2}
    Cap = 1
    MaxLost = 1
    CandidateOutreach = FALSE
    NoRun = NoRun
    Nobody = Nobody
SPECIFICATION RaceSpec
INVARIANTS
    OneMailPerOutcome
    SentMeansMailed
PROPERTIES
    RequestReturns
CHECK_DEADLOCK FALSE
