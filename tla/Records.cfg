CONSTANTS
    Accounts = {a1, a2, a3}
    Hooks = {h1, h2}
    FirstHook = h1
    SignIns = {i1}
    Period = 1
    Grace = 1
    LastDay = 3
    Sweepers = {p1}
    Clicks = {c1}
    Visitors = {1, 2, 3}
    SiteOf <- MCSiteOf
    Limit = 1
    Batch = 2
    LastMonth = 1
    MaxLapses = 1
    Persons = {n1}
    Resolves = {v1, v2}
    Expirers = {x1, x2}
    LastDate = 1
    MaxDeaths = 1
    Containers = {k1, k2}
    TTL = 2
    Interval = 8
    MaxRest = 4
    MaxFaults = 1
    Incremental = TRUE
    Calls = {q1, q2, q3}
    MaxLosses = 1
    Sources = {"caida", "rir"}
    Refreshes = {"caida1", "caida2", "rir1"}
    SourceOf <- MCSourceOf
    MaxVersion = 2
    MaxHitches = 1
SPECIFICATION MCSpec
INVARIANTS
    MCTypeOK
    PaidForOnly
    MonthAccounted
    LedgerSound
    ChargedForContent
PROPERTIES
    SwapKeepsOthers
    PlanIsReached
    SweepNotStarved
CHECK_DEADLOCK FALSE
