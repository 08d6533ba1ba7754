\* recover_server within the cooldown stops the server and then refuses to start it.
SPECIFICATION Spec
CONSTANTS
    w1 = w1  w2 = w2  j1 = j1  j2 = j2  p1 = p1  p2 = p2
    NoJob = NoJob  NoPid = NoPid
    Workers <- OneWorker
    Jobs <- OneJob
    WorkerOf <- OneJobWorker
    Procs <- OneProc
    Ops <- AllOps
    MaxAttempts = 1
    Cooldown = 1
    SaveOutcomes <- Reliable
    Crashable <- NoCrash
PROPERTY RecoverGoesOnToStart
