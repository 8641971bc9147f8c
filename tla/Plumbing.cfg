SPECIFICATION PlumbingSpec
CONSTANTS
    Project = {p1, p2}
    Zone = {z1, z2}
    Nowhere = nowhere
    Request = {r1, r2}
    NoOp = none
    MaxStarts = 6
    MaxFailures = 1
INVARIANT EventsFlow
INVARIANT NothingLeftBehind
INVARIANT TrackingToldTruly
\* Every request may have ended and no more be made.
CHECK_DEADLOCK FALSE
SYMMETRY Symmetric
