--------------------------- MODULE MCServerLifecycle ---------------------------
(***************************************************************************)
(* Instances of ServerLifecycle for TLC: which worker each job runs in,    *)
(* and symmetric process slots.                                            *)
(***************************************************************************)
EXTENDS ServerLifecycle, TLC

CONSTANTS w1, w2, j1, j2, p1, p2

OneWorker  == {w1}
TwoWorkers == {w1, w2}
OneJob     == {j1}
TwoJobs    == {j1, j2}
OneProc    == {p1}
TwoProcs   == {p1, p2}

OneJobWorker == [j \in OneJob |-> w1]
SameWorker   == [j \in TwoJobs |-> w1]
OnePerWorker == j1 :> w1 @@ j2 :> w2

AllOps      == OpNames \ {"none"}
RestartOps  == {"restart", "recover", "stop"}
Reliable    == {TRUE}
MayFail     == BOOLEAN
NoCrash     == {}

ProcSymmetry == Permutations(Procs)
================================================================================
