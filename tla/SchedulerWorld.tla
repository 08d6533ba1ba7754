---------------------------- MODULE SchedulerWorld ----------------------------
(***************************************************************************)
(* What the reboot scheduler and the backup scheduler of one dashboard     *)
(* process share: the server they stop and start, the restart gate of      *)
(* ServerManager, and each other's published state.                        *)
(*                                                                         *)
(* stop_server and start_server serialise on process_lock (ServerLifecycle)*)
(* and are single steps here, each with every outcome it has there.  How   *)
(* many players are online is a choice wherever the code asks.             *)
(***************************************************************************)
EXTENDS Naturals

CONSTANT Worlds  \* the surroundings the schedulers may be placed in

ASSUME WorldAssumption ==
    Worlds \subseteq [manual : BOOLEAN,    \* do administrators trigger restarts and backups?
                      admin : BOOLEAN,     \* does anyone else start, stop or restart the server?
                      hangs : BOOLEAN,     \* may the server stop listening on its game port?
                      failures : BOOLEAN,  \* may a stop, a start, a compression or an upload fail?
                      toggles : BOOLEAN,   \* are backups switched on and off meanwhile?
                      tokens : Nat]        \* bounds the restart tokens handed out

VARIABLES
    world,      \* the surroundings, chosen once
    server,     \* "down", "degraded" (a process without its game port) or "up"
    gate,       \* who is inside restart_server: "open" when nobody is
    cooldown,   \* is the cooldown of the last restart running?
    rstate,     \* RebootScheduler.status.state
    bstate      \* BackupScheduler.status.state

worldVars == <<server, gate, cooldown>>

Manual   == world.manual
Admin    == world.admin
Hangs    == world.hangs
Failures == world.failures
Toggles  == world.toggles
MaxToken == world.tokens

RebootStates == {"disabled", "monitoring", "countdown_empty", "countdown_uptime",
                 "restarting", "error"}
BackupStates == {"disabled", "monitoring", "countdown", "stopping_server", "compressing",
                 "uploading", "restarting", "error"}

WorldTypeOK ==
    /\ world \in Worlds
    /\ server \in {"down", "degraded", "up"}
    /\ gate \in {"open", "mon", "man", "other"}
    /\ cooldown \in BOOLEAN
    /\ rstate \in RebootStates
    /\ bstate \in BackupStates

WorldInit ==
    /\ world \in Worlds
    /\ server \in {"down", "up"}
    /\ gate = "open"
    /\ cooldown = FALSE
    /\ rstate \in {"disabled", "monitoring"}
    /\ bstate = "disabled"

Running == server # "down"

\* A status read shows the server as it is, unless somebody's call fell into
\* the five seconds the status cache lives.
Seen == IF Manual \/ Admin THEN BOOLEAN ELSE {Running}

\* get_restart_gate_status()["can_restart"], and the guard of restart_server.
CanRestart == gate = "open" /\ ~cooldown

\* Mutant: a restart under way is not seen.
RebootBusyCountdown == rstate \in {"countdown_empty", "countdown_uptime"}

RebootBusy == rstate \notin {"disabled", "monitoring"}
BackupBusy == bstate \notin {"disabled", "monitoring"}

--------------------------------------------------------------------------------
\* The server hangs, recovers or crashes, and others handle it.
ServerChanges ==
    /\ \/ Hangs /\ server = "up" /\ server' = "degraded"
       \/ server = "degraded" /\ server' = "up"
       \/ Running /\ server' = "down"
       \/ Admin /\ server = "down" /\ server' = "up"
    /\ UNCHANGED <<gate, cooldown>>

OthersRestart ==
    /\ Admin
    /\ \/ CanRestart /\ gate' = "other" /\ UNCHANGED cooldown
       \/ gate = "other" /\ gate' = "open" /\ cooldown' \in BOOLEAN
    /\ UNCHANGED server

CooldownEnds == /\ cooldown
                /\ cooldown' = FALSE
                /\ UNCHANGED <<server, gate>>

WorldStep == ServerChanges \/ OthersRestart \/ CooldownEnds
================================================================================
