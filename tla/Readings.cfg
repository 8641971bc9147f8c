SPECIFICATION Spec
CONSTANTS
    MaxParts = 3
    MaxDepth = 2
    MaxLength = 5
    MaxAttachments = 3
    Domains <- DomainsValue
    Senders <- SendersValue
    Ranges = {"day", "week"}
    Duration <- DurationValue
    Bucket <- BucketValue
    Offset = 2
    MaxTime = 3
    MaxMails = 2
    MaxEvents = 2
    MaxId = 6
    MaxLimit = 2
    Hosts = {"receiver"}
    MaxAnswers = 2
    Projects = {"p", "q"}
    Revisions = {"r1", "r2", "r3"}
    NoRevision = "r0"
    Down = Down
    MaxChanges = 3
INVARIANT NothingDropped
INVARIANT ReadingIsFaithful
INVARIANT NumbersAgree
INVARIANT EachOnce
INVARIANT PostsWhereAllowed
INVARIANT DoctorIsRight
CHECK_DEADLOCK FALSE
