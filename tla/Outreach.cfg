CONSTANTS
    Clients = {c1, c2}
    Cap = 1
    LastHour = 1
    RedisOutages = TRUE
    MaxSent = 3
    Browsers = {b1, b2}
    Recipient = b1
    Orders = {o1}
    Reports = {w1, w2}
    Landings = {l1}
    MaxEdits = 1
    MaxCaptures = 1
    SaleDays = {1, 2}
    root = root
    returning = returning
    Visitors = {root, returning}
    Addresses = {a1, a2}
    Resolvers = {r1, r2}
    Owners = {o1}
    MaxJobs = 2
    MaxRequests = 1
    MaxCaptured = 1
    Svid <- MCSvid
    SameDevice <- MCSameDevice
    None = None
    Scopes = {"all", "do_not_email"}
    Tracked = {v1}
    Contacts = {k1, k2}
    Jobs = {j1, j2}
    Uploads = {u1, u2}
    MaxImported = 1
    MaxEvents = 4
SPECIFICATION OutreachSpec
SYMMETRY OutreachSymmetry
CONSTRAINT Bounded
INVARIANTS
    GuessNeedsRace
    OptOutSound
    CapAccounted
    CountedOnceAndCredited
CHECK_DEADLOCK FALSE
