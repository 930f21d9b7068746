CONSTANTS
    root = root
    returning = returning
    Visitors = {root, returning}
    Addresses = {a1, a2}
    Resolvers = {r1, r2}
    Owners = {o1}
    MaxJobs = 2
    MaxRequests = 1
    MaxCaptured = 1
    Svid <- MCSvid
    SameDevice <- MCSameDevice
    None = None
SPECIFICATION MCSpec
INVARIANTS
    VerifiedMeansVouched
SYMMETRY MCSymmetry
CHECK_DEADLOCK FALSE
