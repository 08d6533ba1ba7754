\* Every call of two coroutines of one worker returns, under the event loop's fairness.
SPECIFICATION FairSpec
CONSTANTS
    w1 = w1  w2 = w2  j1 = j1  j2 = j2  p1 = p1  p2 = p2
    NoJob = NoJob  NoPid = NoPid
    Workers <- OneWorker
    Jobs <- TwoJobs
    WorkerOf <- SameWorker
    Procs <- OneProc
    Ops <- AllOps
    MaxAttempts = 2
    Cooldown = 1
    SaveOutcomes <- Reliable
    Crashable <- NoCrash
PROPERTY CallsReturn
