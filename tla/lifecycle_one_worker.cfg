\* Two coroutines of one worker, every call, state saves that may fail.
SPECIFICATION Spec
CONSTANTS
    w1 = w1  w2 = w2  j1 = j1  j2 = j2  p1 = p1  p2 = p2
    NoJob = NoJob  NoPid = NoPid
    Workers <- OneWorker
    Jobs <- TwoJobs
    WorkerOf <- SameWorker
    Procs <- TwoProcs
    Ops <- AllOps
    MaxAttempts = 2
    Cooldown = 1
    SaveOutcomes <- MayFail
    Crashable <- NoCrash
SYMMETRY ProcSymmetry
INVARIANTS TypeOK RestartGuardExact ProcessLockExact TwoServersNeedUnwaitedStart
PROPERTY RestartGateHolds
