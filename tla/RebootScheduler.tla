---------------------------- MODULE RebootScheduler ----------------------------
(***************************************************************************)
(* RebootScheduler (services/reboot_scheduler.py) in the process that owns *)
(* its instance lock: the monitor's ticks, the administrators' triggers,   *)
(* the restart tokens and the one-time maintenance stop.                   *)
(*                                                                         *)
(* Two coroutines run _execute_restart: the monitor ("mon") and a manual   *)
(* or labelled trigger ("man").  A step is the code between two awaits.    *)
(* Thresholds, warnings and clocks are choices: a countdown or a schedule  *)
(* is pending until time makes it due.                                     *)
(***************************************************************************)
EXTENDS SchedulerWorld

Runners == {"mon", "man"}

VARIABLES
    renabled,       \* config.enabled
    token,          \* _active_restart_token, 0 for None
    tokenSeq,       \* _restart_token_seq
    target,         \* _countdown_target: "none", "pending" or "due"
    grace,          \* is the grace period after a restart running?
    schedule,       \* config.maintenance_stop_scheduled_at, as target
    rpc,            \* where each coroutine is
    held,           \* the token each restarting coroutine was given
    seenUp,         \* status.server_running
    cancelled       \* history: tokens of countdowns that were cancelled

rebootVars == <<renabled, token, tokenSeq, target, grace, schedule, rpc, held,
                seenUp, cancelled>>

RebootPCs == {"idle", "decide", "recover", "recover_gap", "recover_start", "maintain",
              "say", "stop", "start"}

RebootTypeOK ==
    /\ renabled \in BOOLEAN
    /\ token \in 0..MaxToken
    /\ tokenSeq \in 0..MaxToken
    /\ target \in {"none", "pending", "due"}
    /\ grace \in BOOLEAN
    /\ schedule \in {"none", "pending", "due"}
    /\ rpc \in [Runners -> RebootPCs]
    /\ held \in [Runners -> 0..MaxToken]
    /\ seenUp \in BOOLEAN
    /\ cancelled \subseteq 1..MaxToken

RebootInit ==
    /\ renabled \in BOOLEAN
    /\ token = 0
    /\ tokenSeq = 0
    /\ target = "none"
    /\ grace = FALSE
    /\ schedule \in {"none", "pending"}
    /\ rpc = [r \in Runners |-> "idle"]
    /\ held = [r \in Runners |-> 0]
    /\ seenUp = FALSE
    /\ cancelled = {}

--------------------------------------------------------------------------------
RGoto(r, label) == rpc' = [rpc EXCEPT ![r] = label]
RState(s) == rstate' = s

ResetTracking == token' = 0 /\ target' = "none"

\* The restart of coroutine r is over.
Done(r) == /\ RGoto(r, "idle")
           /\ held' = [held EXCEPT ![r] = 0]

\* The restart goes ahead: the farewell is awaited when anyone is online,
\* otherwise restart_server is entered at once.
Launch(r, t, farewell) ==
    /\ RState("restarting")
    /\ held' = [held EXCEPT ![r] = t]
    /\ IF farewell THEN RGoto(r, "say") /\ UNCHANGED gate
       ELSE RGoto(r, "stop") /\ gate' = r

\* _execute_restart up to its first await, with token t.
BeginRestart(r, t) ==
    \/ /\ t # token                           \* stale: skipped
       /\ Done(r)
       /\ UNCHANGED <<rstate, token, target, gate>>
    \/ /\ t = token /\ ~CanRestart
       /\ ResetTracking
       /\ RState("monitoring")
       /\ Done(r)
       /\ UNCHANGED gate
    \/ /\ t = token /\ CanRestart
       /\ \E farewell \in BOOLEAN : Launch(r, t, farewell)
       /\ UNCHANGED <<token, target>>

\* _start_countdown; an empty server is restarted at once.
StartCountdown(r, reason) ==
    /\ tokenSeq < MaxToken
    /\ tokenSeq' = tokenSeq + 1
    /\ \/ /\ ~CanRestart
          /\ ResetTracking
          /\ RState("monitoring")
          /\ Done(r)
          /\ UNCHANGED gate
       \/ /\ CanRestart
          /\ token' = tokenSeq'
          /\ IF reason = "empty"
             THEN target' = "due" /\ Launch(r, tokenSeq', FALSE)
             ELSE /\ target' = "pending"
                  /\ RState("countdown_uptime")
                  /\ Done(r)
                  /\ UNCHANGED gate

\* _handle_countdown.
HandleCountdown ==
    \/ /\ token = 0
       /\ ResetTracking
       /\ RState("monitoring")
       /\ Done("mon")
       /\ UNCHANGED gate
    \/ /\ token # 0 /\ target = "none"
       /\ RState("monitoring")
       /\ Done("mon")
       /\ UNCHANGED <<token, target, gate>>
    \/ /\ token # 0 /\ target = "due"
       /\ BeginRestart("mon", token)
    \/ /\ token # 0 /\ target = "pending"     \* warnings only
       /\ Done("mon")
       /\ UNCHANGED <<rstate, token, target, gate>>

\* Mutant: a schedule that finds no server is kept.
MaintainKept(busy, up) ==
    /\ schedule # "none"
    /\ IF schedule = "due" /\ ~busy /\ up
       THEN RGoto("mon", "maintain") /\ UNCHANGED held
       ELSE Done("mon")
    /\ UNCHANGED schedule

\* _handle_scheduled_maintenance_stop with a schedule: it ends the tick, at
\* once or with a stop to execute.
Maintain(busy, up) ==
    /\ schedule # "none"
    /\ IF schedule = "due" /\ ~busy /\ up
       THEN RGoto("mon", "maintain") /\ UNCHANGED held
       ELSE Done("mon")
    /\ schedule' = IF schedule = "due" /\ ~up THEN "none" ELSE schedule

--------------------------------------------------------------------------------
(* The monitor's tick, _check_and_act.                                     *)

\* The configuration and the server's status are read; a purge of CoreProtect's
\* logs may suspend the tick before it goes on with what it read.
TickRead ==
    /\ rpc["mon"] = "idle"
    /\ seenUp' \in Seen
    /\ IF ~renabled
       THEN /\ ResetTracking
            /\ RState("disabled")
            /\ IF schedule = "none" THEN Done("mon") /\ UNCHANGED schedule
               ELSE Maintain(FALSE, seenUp')
       ELSE IF seenUp' /\ server = "degraded"
       THEN /\ \/ RState("monitoring") /\ Done("mon")
               \/ RGoto("mon", "recover") /\ UNCHANGED <<rstate, held>>
            /\ UNCHANGED <<token, target, schedule>>
       ELSE /\ RGoto("mon", "decide")
            /\ UNCHANGED <<rstate, token, target, schedule, held>>
    /\ grace' \in {grace, grace \/ (renabled /\ cooldown)}
    /\ UNCHANGED <<worldVars, bstate, renabled, tokenSeq, cancelled>>

TickDown ==
    /\ ~seenUp
    /\ RState("monitoring")
    /\ ResetTracking
    /\ IF schedule = "none" THEN Done("mon") /\ UNCHANGED schedule ELSE Maintain(BackupBusy, seenUp)
    /\ UNCHANGED <<tokenSeq, gate>>

TickGrace ==
    /\ seenUp /\ grace
    /\ IF schedule = "none"
       THEN RState("monitoring") /\ Done("mon") /\ UNCHANGED schedule
       ELSE Maintain(BackupBusy, seenUp) /\ UNCHANGED rstate
    /\ UNCHANGED <<token, target, tokenSeq, gate>>

TickCountdown ==
    /\ seenUp /\ ~grace /\ rstate \in {"countdown_empty", "countdown_uptime"}
    /\ HandleCountdown
    /\ UNCHANGED <<schedule, tokenSeq>>

TickMonitor ==
    /\ seenUp /\ ~grace /\ rstate \notin {"countdown_empty", "countdown_uptime"}
    /\ \/ Maintain(BackupBusy, seenUp) /\ UNCHANGED <<rstate, token, target, tokenSeq, gate>>
       \/ /\ schedule = "none"
          /\ \/ RState("monitoring") /\ Done("mon") /\ UNCHANGED <<token, target, tokenSeq, gate>>
             \/ ~BackupBusy /\ \E reason \in {"empty", "uptime"} : StartCountdown("mon", reason)
          /\ UNCHANGED schedule

TickDecide ==
    /\ rpc["mon"] = "decide"
    /\ TickDown \/ TickGrace \/ TickCountdown \/ TickMonitor
    /\ UNCHANGED <<server, cooldown, bstate, renabled, grace, seenUp, cancelled>>

\* recover_server of a server that kept its port closed too long: a forced
\* stop, then restart_server, all without a state of the scheduler's own.
TickRecover ==
    /\ \/ /\ rpc["mon"] = "recover"
          /\ server' = "down"
          /\ RGoto("mon", "recover_gap")
          /\ UNCHANGED <<gate, cooldown, grace, held>>
       \/ /\ rpc["mon"] = "recover_gap"
          /\ IF CanRestart THEN gate' = "mon" /\ RGoto("mon", "recover_start") /\ UNCHANGED held
             ELSE Done("mon") /\ UNCHANGED gate
          /\ UNCHANGED <<server, cooldown, grace>>
       \/ /\ rpc["mon"] = "recover_start"
          /\ \/ ~Running /\ server' = "up" /\ cooldown' = TRUE /\ grace' = TRUE
             \/ Failures /\ ~Running /\ server' \in {"down", "degraded"} /\ UNCHANGED <<cooldown, grace>>
             \/ Running /\ UNCHANGED <<server, cooldown, grace>>
          /\ gate' = "open"
          /\ Done("mon")
    /\ UNCHANGED <<rstate, bstate, renabled, token, tokenSeq, target, schedule, seenUp, cancelled>>

\* _execute_maintenance_stop: a stop that succeeds, or finds no server, is
\* final; any other is retried at the next tick.
MaintenanceStop ==
    /\ rpc["mon"] = "maintain"
    /\ \/ /\ server' = "down"
          /\ schedule' = "none"
          /\ ResetTracking
          /\ RState("monitoring")
       \/ /\ Failures /\ Running
          /\ UNCHANGED <<server, schedule, token, target, rstate>>
    /\ Done("mon")
    /\ UNCHANGED <<gate, cooldown, bstate, renabled, tokenSeq, grace, seenUp, cancelled>>

--------------------------------------------------------------------------------
(* _execute_restart after the farewell, in either coroutine.               *)

EnterRestart(r) ==
    /\ rpc[r] = "say"
    /\ \/ /\ held[r] # token                  \* aborted by a newer request
          /\ RState("monitoring")
          /\ Done(r)
          /\ UNCHANGED <<gate, token, target>>
       \/ /\ held[r] = token /\ ~CanRestart
          /\ ResetTracking
          /\ RState("monitoring")
          /\ Done(r)
          /\ UNCHANGED gate
       \/ /\ held[r] = token /\ CanRestart
          /\ gate' = r
          /\ RGoto(r, "stop")
          /\ UNCHANGED <<rstate, token, target, held>>
    /\ UNCHANGED <<server, cooldown, bstate, renabled, tokenSeq, grace, schedule, seenUp, cancelled>>

RestartFails(r) ==
    /\ gate' = "open"
    /\ ResetTracking
    /\ RState("error")
    /\ Done(r)
    /\ UNCHANGED <<cooldown, grace>>

RestartStop(r) ==
    /\ rpc[r] = "stop"
    /\ \/ /\ server' = "down"
          /\ RGoto(r, "start")
          /\ UNCHANGED <<gate, cooldown, rstate, token, target, grace, held>>
       \/ Failures /\ Running /\ RestartFails(r) /\ UNCHANGED server
    /\ UNCHANGED <<bstate, renabled, tokenSeq, schedule, seenUp, cancelled>>

RestartStart(r) ==
    /\ rpc[r] = "start"
    /\ \/ /\ ~Running
          /\ server' = "up"
          /\ gate' = "open"
          /\ cooldown' = TRUE
          /\ grace' = TRUE
          /\ ResetTracking
          /\ Done(r)
          /\ UNCHANGED rstate
       \/ Running /\ RestartFails(r) /\ UNCHANGED server
       \/ Failures /\ ~Running /\ RestartFails(r) /\ server' \in {"down", "degraded"}
    /\ UNCHANGED <<bstate, renabled, tokenSeq, schedule, seenUp, cancelled>>

--------------------------------------------------------------------------------
(* Administrators.                                                         *)

\* trigger_manual_restart and trigger_labeled_restart; nobody online means a
\* restart at once.
TriggerRestart ==
    /\ Manual
    /\ rpc["man"] = "idle"
    /\ seenUp' \in {seenUp} \cup Seen
    /\ seenUp'
    /\ rstate \notin {"countdown_empty", "countdown_uptime", "restarting"}
    /\ \/ StartCountdown("man", "uptime")
       \/ /\ tokenSeq < MaxToken
          /\ tokenSeq' = tokenSeq + 1
          /\ IF CanRestart
             THEN token' = tokenSeq' /\ Launch("man", tokenSeq', FALSE) /\ UNCHANGED target
             ELSE ResetTracking /\ RState("monitoring") /\ Done("man") /\ UNCHANGED gate
    /\ UNCHANGED <<server, cooldown, bstate, renabled, grace, schedule, cancelled>>

\* Mutant: only the players are told.
CancelCountdownUntaken ==
    /\ rstate \in {"countdown_empty", "countdown_uptime"}
    /\ cancelled' = cancelled \cup ({token} \ {0})
    /\ UNCHANGED <<worldVars, rstate, bstate, renabled, token, tokenSeq, target, grace, schedule,
                   rpc, held, seenUp>>

CancelCountdown ==
    /\ rstate \in {"countdown_empty", "countdown_uptime"}
    /\ cancelled' = cancelled \cup ({token} \ {0})
    /\ ResetTracking
    /\ RState("monitoring")
    /\ UNCHANGED <<worldVars, bstate, renabled, tokenSeq, grace, schedule, rpc, held, seenUp>>

\* schedule_maintenance_stop, cancel_maintenance_stop and update_config.
Configure ==
    /\ \/ /\ rstate \notin {"countdown_empty", "countdown_uptime", "restarting"}
          /\ schedule' = "pending"
          /\ UNCHANGED renabled
       \/ schedule # "none" /\ schedule' = "none" /\ UNCHANGED renabled
       \/ renabled' = ~renabled /\ UNCHANGED schedule
    /\ UNCHANGED <<worldVars, rstate, bstate, token, tokenSeq, target, grace, rpc, held,
                   seenUp, cancelled>>

\* Time makes a countdown or a schedule due and ends the grace period.
CountdownDue == target = "pending" /\ target' = "due" /\ UNCHANGED <<schedule, grace>>
StopDue      == schedule = "pending" /\ schedule' = "due" /\ UNCHANGED <<target, grace>>
GraceEnds    == grace /\ grace' = FALSE /\ UNCHANGED <<target, schedule>>

RebootTime ==
    /\ CountdownDue \/ StopDue \/ GraceEnds
    /\ UNCHANGED <<worldVars, rstate, bstate, renabled, token, tokenSeq, rpc, held,
                   seenUp, cancelled>>

--------------------------------------------------------------------------------
MonitorStep ==
    \/ TickRead \/ TickDecide \/ TickRecover \/ MaintenanceStop
    \/ EnterRestart("mon") \/ RestartStop("mon") \/ RestartStart("mon")

RequestStep == EnterRestart("man") \/ RestartStop("man") \/ RestartStart("man")

RebootStep ==
    \/ MonitorStep \/ RequestStep
    \/ TriggerRestart \/ CancelCountdown \/ Configure \/ RebootTime
================================================================================
