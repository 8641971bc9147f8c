SPECIFICATION Spec
CONSTANTS
    u1 = u1
    u2 = u2
    r1 = r1
    r2 = r2
    nobody = nobody
    User = {u1, u2}
    Request = {r1, r2}
    Nobody = nobody
    AllowSignup = FALSE
    TTL = 1
    MaxMade = 3
    MaxFailures = 1
SYMMETRY Symmetry
INVARIANT WayBack
INVARIANT OwnedOnceClaimed
PROPERTY EndedStaysEnded
\* Nobody need sign in.
CHECK_DEADLOCK FALSE
