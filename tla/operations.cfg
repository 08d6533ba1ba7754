\* Two calls in one worker and one in another that may be killed, two keys.
SPECIFICATION Spec
CONSTANTS
    w1 = w1  w2 = w2  c1 = c1  c2 = c2  c3 = c3  k1 = k1  k2 = k2
    NoKey = NoKey  NoCall = NoCall
    Workers <- TwoWorkers
    Calls <- ThreeCalls
    WorkerOf <- Placement
    Keys <- TwoKeys
    TTL = 2
    Crashable <- MayDie
    Home <- w1
INVARIANTS TypeOK FlockExact InProgressIsTrue JournalTruthful WindowCovered
PROPERTY OncePerKeyHolds
