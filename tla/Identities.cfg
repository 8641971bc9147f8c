SPECIFICATION FairSpec
CONSTANTS
    p1 = p1
    p2 = p2
    a1 = a1
    v1 = v1
    r1 = r1
    none = none
    Project = {p1, p2}
    Value = {v1}
    Account = {a1}
    AccountOf <- OneAccount
    Request = {r1}
    Nothing = none
    MaxStarts = 3
    MaxFailures = 1
INVARIANT SesAgreesWithRows
PROPERTY EventuallyChecked
\* No request need be made, and nothing need come due.
CHECK_DEADLOCK FALSE
