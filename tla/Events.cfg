SPECIFICATION FairSpec
CONSTANTS
    bounce = bounce
    complaint = complaint
    receipt = receipt
    m = m
    other = other
    a1 = a1
    a2 = a2
    h1 = h1
    h2 = h2
    none = none
    Note = {bounce, complaint, receipt}
    Mail = {m}
    Foreign = other
    About <- AboutValue
    Names <- NamesValue
    Receipts = {receipt}
    Public = {bounce, complaint, receipt}
    Addr = {a1, a2}
    Visible <- VisibleValue
    Blind <- BlindValue
    Nothing = none
    Handler = {h1, h2}
    MaxCrashes = 1
    MaxTurns = 1
INVARIANT EventsComeWhole
PROPERTY KeepsPromise
PROPERTY ListedForCause
PROPERTY EventuallySettled
\* Every notification may be gone and nothing left to do.
CHECK_DEADLOCK FALSE
