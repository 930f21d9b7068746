CONSTANTS
    Runs = {r1, r2}
    Recipients = {v1}
    Cap = 1
    MaxLost = 1
    CandidateOutreach = FALSE
    NoRun = NoRun
    Nobody = Nobody
SPECIFICATION Spec
SYMMETRY MCSymmetry
INVARIANTS
    OptOutHonoured
    ConfirmedOnly
PROPERTY LedgerKept
CHECK_DEADLOCK FALSE
