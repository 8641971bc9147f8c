SPECIFICATION FairSpec
CONSTANTS
    p1 = p1
    p2 = p2
    top = top
    sub = sub
    n1 = n1
    n2 = n2
    o1 = o1
    s1 = s1
    s2 = s2
    h1 = h1
    h2 = h2
    none = none
    Project = {p1, p2}
    Domain = {top, sub}
    Owns <- OwnsValue
    Unreadable = {p2}
    Note = {n1, n2}
    Object = {o1}
    Stored <- StoredValue
    Sns <- SnsValue
    Rule <- RuleValue
    Address = {"top", "sub"}
    Parents <- ParentsValue
    Recipients <- RecipientsValue
    NoOne = none
    Handler = {h1, h2}
    MaxChanges = 3
    MaxFailures = 1
INVARIANT ToldOnce
INVARIANT OnlyReceiversGetMail
PROPERTY KeepsPromise
PROPERTY EventuallySettled
\* Nothing need arrive, and no project need receive.
CHECK_DEADLOCK FALSE
