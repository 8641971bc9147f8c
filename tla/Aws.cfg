SPECIFICATION NoticesSpec
CONSTANTS
    p1 = p1
    p2 = p2
    k1 = k1
    k2 = k2
    a1 = a1
    a2 = a2
    m = m
    mine = mine
    theirs = theirs
    unsigned = unsigned
    hello = hello
    u1 = u1
    u2 = u2
    x = x
    y = y
    Projects = {p1, p2}
    Keys = {k1, k2}
    Accounts = {a1, a2}
    AccountOf <- AccountOfValue
    Domains = {p1}
    Delivered = {p1}
    NoRow = none
    NoQueue = noqueue
    Requests = {r1, r2}
    Throttled = TRUE
    MaxRows = 1
    MaxTurns = 3
    Notices = {mine, theirs, unsigned, hello}
    Content <- ContentValue
    Mails = {m}
    SenderOf <- SenderOfValue
    SentTo <- SentToValue
    Strangers = {}
    Addresses = {x, y}
    Urls = {u1, u2}
    BadUrl = elsewhere
    NoAccount = noaccount
    CacheLimit = 1
    Handlers = {h1}
    MaxDeliveries = 2
INVARIANT OneKeyPerRow
INVARIANT PendingMeansAsked
INVARIANT NoticesAreOurs
CHECK_DEADLOCK FALSE
SYMMETRY Symmetric
