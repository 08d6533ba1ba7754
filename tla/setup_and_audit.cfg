\* Two requests of one worker, two attempts, errors and crashes at every step; and
\* an audit whose clock and log are bounded, so that it stops at their ends.
SPECIFICATION MCSpec
CONSTANTS
    r1 = r1
    r2 = r2
    a1 = a1
    a2 = a2
    Requests = {r1, r2}
    Attempts = {a1, a2}
    N = 2
    Validated = {2}
    OneWorker = TRUE
    Nobody = Nobody
    Outsider = Outsider
    Members = {1, 2}
    Protected = {}
    Inactive = 1
    ReturnCap = 1
    PruneCap = 1
    MaxTime = 2
    MaxLines = 3
    MaxPrunes = 2
    MaxSyncs = 1
    MaxCommands = 3
CHECK_DEADLOCK FALSE
INVARIANTS
    TypeOK
    ProfileHasItsFiles
    OneAttemptOnDisk
    PublishedIsRecorded
    AuditTypeOK
    ReturnsAreListed
PROPERTIES
    ForeignFilesKept
    NoFreshPlayerPlanned
