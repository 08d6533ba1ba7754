---------------------------- MODULE MCSetupExecutor ----------------------------
(***************************************************************************)
(* SetupExecutor on small instances: requests and attempts are model       *)
(* values and interchangeable.                                             *)
(***************************************************************************)
EXTENDS SetupExecutor, TLC

Symmetry == Permutations(Requests) \cup Permutations(Attempts)
================================================================================
