----------------------------- MODULE MCOperations -----------------------------
(***************************************************************************)
(* Instances of Operations for TLC: two workers, one of them with two      *)
(* calls and one that may be killed.                                       *)
(***************************************************************************)
EXTENDS Operations, TLC

CONSTANTS w1, w2, c1, c2, c3, k1, k2

TwoWorkers == {w1, w2}
ThreeCalls == {c1, c2, c3}
Placement  == c1 :> w1 @@ c2 :> w1 @@ c3 :> w2
TwoKeys    == {k1, k2}
MayDie     == {w2}
================================================================================
