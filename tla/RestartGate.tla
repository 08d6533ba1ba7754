------------------------------ MODULE RestartGate ------------------------------
(***************************************************************************)
(* What the restart deduplication of services/minecraft_server.py promises *)
(* to every caller, whatever worker process it runs in: restarts happen    *)
(* one at a time, and after one that succeeded no other begins until the   *)
(* cooldown has run out.                                                   *)
(***************************************************************************)
EXTENDS Naturals

CONSTANT
    Cooldown    \* length of the cooldown, in ticks of the clock

VARIABLES
    busy,       \* a restart is between its guard and its `finally`
    cooling     \* ticks left of the cooldown of the last successful restart

gateVars == <<busy, cooling>>

Init ==
    /\ busy = FALSE
    /\ cooling = 0

\* A restart passes the guard.
Begin ==
    /\ ~busy
    /\ cooling = 0
    /\ busy' = TRUE
    /\ UNCHANGED cooling

\* The running restart ends; only a success starts the cooldown.
End ==
    /\ busy
    /\ busy' = FALSE
    /\ cooling' \in {cooling, Cooldown}

Tick ==
    /\ cooling > 0
    /\ cooling' = cooling - 1
    /\ UNCHANGED busy

Next == Begin \/ End \/ Tick

Spec == Init /\ [][Next]_gateVars
================================================================================
