SPECIFICATION FairSpec
CONSTANTS
    e1 = e1
    e2 = e2
    d1 = d1
    d2 = d2
    Endpoint = {e1, e2}
    Delivery = {d1, d2}
    EndpointOf <- TwoEndpoints
    Dripping = {e1}
    Raising = {e2}
    Request = {u1}
    Pass = {w1, w2}
    MaxAttempts = 2
    FailureLimit = 2
    Limit = 2
    MaxCuts = 1
    MaxTurns = 0
PROPERTY NoWebhookLost
\* Every delivery may be settled and nothing left to do.
CHECK_DEADLOCK FALSE
