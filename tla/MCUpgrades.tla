------------------------------ MODULE MCUpgrades ------------------------------
(***************************************************************************)
(* Upgrades and the updater's other requests on small instances.           *)
(***************************************************************************)
EXTENDS Upgrades

JobSymmetry == Permutations(Jobs)
================================================================================
