\* A coroutine in each of two workers that share the lock and state files; one worker may be killed.
SPECIFICATION Spec
CONSTANTS
    w1 = w1  w2 = w2  j1 = j1  j2 = j2  p1 = p1  p2 = p2
    NoJob = NoJob  NoPid = NoPid
    Workers <- TwoWorkers
    Jobs <- TwoJobs
    WorkerOf <- OnePerWorker
    Procs <- TwoProcs
    Ops <- RestartOps
    MaxAttempts = 1
    Cooldown = 1
    SaveOutcomes <- Reliable
    Crashable <- OneWorker
SYMMETRY ProcSymmetry
INVARIANT RestartGuardExact
PROPERTY RestartGateHolds
