CONSTANTS
    Erasures = {1}
    Purgers = {w1}
    Resolvers = {g1}
    MaxAttempts = 2
    StaleAfter = 0
    MaxErrors = 1
SPECIFICATION ErasureSpec
INVARIANT SignalsStayErased
CHECK_DEADLOCK FALSE
