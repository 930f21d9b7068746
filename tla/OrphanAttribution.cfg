CONSTANTS
    Drafts = {d1, d2}
    Linked = {d1}
    Reviews = {b1, b2}
    Syncs = {s1}
    MaxRenewals = 1
    MaxComments = 2
    MaxMishaps = 1
SPECIFICATION PostingSpec
INVARIANT NoOrphanAttribution
CHECK_DEADLOCK FALSE
