------------------------------ MODULE MCDashboard ------------------------------
(***************************************************************************)
(* The dashboard's parts on small instances.                               *)
(***************************************************************************)
EXTENDS Dashboard

MCPresets == [moderator |-> {"remove"}]

================================================================================
