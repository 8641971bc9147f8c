SPECIFICATION Spec
CONSTANTS
    p1 = p1
    p2 = p2
    d1 = d1
    d2 = d2
    r1 = r1
    r2 = r2
    none = none
    Project = {p1, p2}
    Domain = {d1, d2}
    Owns <- OwnsValue
    Request = {r1, r2}
    NoOp = none
    MaxStarts = 4
    MaxFailures = 1
INVARIANT OneReceiver
INVARIANT MailFlows
INVARIANT NothingStranded
\* Every request may have ended and no more be made.
CHECK_DEADLOCK FALSE
SYMMETRY Symmetric
