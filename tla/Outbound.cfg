CONSTANTS
    Drafts = {d1, d2}
    Linked = {d1}
    Reviews = {b1, b2}
    Syncs = {s1}
    MaxRenewals = 1
    MaxComments = 2
    MaxMishaps = 1
    Sites = {s1}
    Sweeps = {p1, p2}
    Requests = {r1}
    TouchAfter = 1
    RemindAfter = 0
    PauseAfter = 1
    WarnGap = 1
    NudgeAfter = 0
    Span = 1
    MaxAge = 3
    MaxFaults = 1
    MaxExpiries = 1
    MaxConnects = 1
    Pushes = {u1, u2}
    Attempts = 3
    Members = {m1, m2, m3}
    Pages = {g1, g2}
    Claims = {l1, l2}
    Activators = {k1, k2}
    Bonus = 2
    BonusCap = 3
    FirstPage = g1
    FirstClaim = l1
    FirstMember = m1
SPECIFICATION Spec
CONSTRAINT NamedInOrder
INVARIANTS
    TypeOK
    PostingSound
    MailedOnce
    PausedByHandKept
    PushesSound
    ReferralsSound
PROPERTIES
    PauseWarned
CHECK_DEADLOCK FALSE
