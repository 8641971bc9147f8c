SPECIFICATION Spec
CONSTANTS
    e1 = e1
    e2 = e2
    d1 = d1
    d2 = d2
    Endpoint = {e1}
    Delivery = {d1, d2}
    EndpointOf <- SharedEndpoint
    Dripping = {e1}
    Raising = {e1}
    Request = {u1}
    Pass = {w1, w2}
    MaxAttempts = 2
    FailureLimit = 2
    Limit = 2
    MaxCuts = 1
    MaxTurns = 1
INVARIANT PendingIsScheduled
INVARIANT SettledOnEvidence
INVARIANT CountsConsecutive
\* Every delivery may be settled and nothing left to do.
CHECK_DEADLOCK FALSE
SYMMETRY Symmetric
