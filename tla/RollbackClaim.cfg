CONSTANTS
    Runs = {r1, r2}
    Recipients = {v1}
    Cap = 1
    MaxLost = 1
    CandidateOutreach = FALSE
    NoRun = NoRun
    Nobody = Nobody
SPECIFICATION NoCrashSpec
PROPERTY RollbackDiscardsClaim
CHECK_DEADLOCK FALSE
