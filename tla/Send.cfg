SPECIFICATION FairSpec
CONSTANTS
    r1 = r1
    r2 = r2
    k1 = k1
    a1 = a1
    a2 = a2
    Req = {r1, r2}
    Key = {k1}
    NoKey = NoKey
    NoId = NoId
    Addr = {a1, a2}
    KeyOf <- RepeatKey
    Visible <- RepeatVisible
    Blind <- RepeatBlind
    MaxAttempts = 3
    SmtpConfigured = TRUE
    MaxDeaths = 1
    MaxTurns = 2
INVARIANT CopiesAccountedFor
PROPERTY KeepsPromise
PROPERTY SuppressedBeforeNeverSent
PROPERTY JobsSettle
\* Requests may all be answered and every job over: the system stops.
CHECK_DEADLOCK FALSE
