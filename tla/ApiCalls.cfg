SPECIFICATION FairSpec
CONSTANTS
    c1 = c1
    c2 = c2
    k1 = k1
    Call = {c1, c2}
    Key = {k1}
    KeyOf <- OneKey
    Tries = 2
    Limit = 1
    MaxWindows = 2
    MaxFaults = 1
INVARIANT KeptWithinLimit
INVARIANT AnswersAreTrue
PROPERTY RevocationTakesEffect
\* Every call may be over and every key revoked.
CHECK_DEADLOCK FALSE
