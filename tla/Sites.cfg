CONSTANTS
    Sites = {s1}
    Sweeps = {p1}
    Requests = {r1}
    TouchAfter = 1
    RemindAfter = 0
    PauseAfter = 1
    WarnGap = 1
    NudgeAfter = 0
    Span = 1
    MaxAge = 3
    MaxFaults = 1
    Owners = {o1, o2}
    Urls = {u1}
    Ids = {i1, i2}
    Creates = {c1, c2}
    Deletes = {d1, d2}
    Writers = {w1, w2, w3}
    FirstId = i1
    FirstOwner = o1
    FirstCreate = c1
    FirstWriter = w1
    LastWriter = w3
    SiteLimit = 1
    MaxDeletes = 1
    Replicas = {h1, h2}
    Posts = {q1}
    Puts = {v1}
    Runs = {t1, t2}
    Stale = 0
    Budget = 1
    MaxLapses = 1
    Erasures = {1}
    Purgers = {z1, z2}
    Resolvers = {g1}
    MaxAttempts = 2
    StaleAfter = 0
    MaxErrors = 1
SPECIFICATION FairSpec
INVARIANTS
    TypeOK
    CleanReuse
    IdKeepsOwner
    RunsBudgeted
    GraphStaysErased
PROPERTIES
    SitesResumed
    ErasureSettles
CHECK_DEADLOCK FALSE
