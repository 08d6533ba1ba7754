---------------------------- MODULE BackupScheduler ----------------------------
(***************************************************************************)
(* BackupScheduler (services/backup_scheduler.py): the monitor's ticks,    *)
(* the administrators' triggers and the pipeline stop, compress, upload,   *)
(* restart, which either of two coroutines runs: the monitor ("bmon") and  *)
(* the task of a manual trigger ("bman"; one at a time here).  A step is   *)
(* the code between two awaits.                                            *)
(***************************************************************************)
EXTENDS SchedulerWorld

Backers == {"bmon", "bman"}

VARIABLES
    benabled,       \* config.enabled
    btarget,        \* _countdown_target: "none", "pending" or "due"
    bdue,           \* would _is_backup_due hold? FALSE after a backup
    bpc,            \* where each coroutine is
    wasRunning,     \* server_was_running of each coroutine's pipeline
    berr            \* status.error_message # None

backupVars == <<benabled, btarget, bdue, bpc, wasRunning, berr>>

BackupPCs == {"idle", "spawned", "stop", "compress", "upload", "finish_ok", "finish_failed"}

BackupTypeOK ==
    /\ benabled \in BOOLEAN
    /\ btarget \in {"none", "pending", "due"}
    /\ bdue \in BOOLEAN
    /\ bpc \in [Backers -> BackupPCs]
    /\ wasRunning \in [Backers -> BOOLEAN]
    /\ berr \in BOOLEAN

BackupInit ==
    /\ benabled \in BOOLEAN
    /\ btarget = "none"
    /\ bdue = TRUE
    /\ bpc = [a \in Backers |-> "idle"]
    /\ wasRunning = [a \in Backers |-> FALSE]
    /\ berr = FALSE

Archiving == \E a \in Backers : bpc[a] = "compress"
BackingUp == \E a \in Backers : bpc[a] \notin {"idle", "spawned"}

--------------------------------------------------------------------------------
BGoto(a, label) == bpc' = [bpc EXCEPT ![a] = label]
BState(s) == bstate' = s

\* _execute_backup up to its first await.
BeginBackup(a, running) ==
    /\ btarget' = "none"
    /\ wasRunning' = [wasRunning EXCEPT ![a] = running]
    /\ IF running THEN BState("stopping_server") /\ BGoto(a, "stop")
                  ELSE BState("compressing") /\ BGoto(a, "compress")

\* The end of the `finally`: an error message, once set, is never removed.
Finalize(a, failed) ==
    /\ berr' = (berr \/ failed)
    /\ BState(IF berr' THEN "error" ELSE "monitoring")
    /\ BGoto(a, "idle")

\* The pipeline is over; a server that ran is started again.
EndPipeline(a, failed) ==
    IF wasRunning[a]
    THEN /\ BState("restarting")
         /\ BGoto(a, IF failed THEN "finish_failed" ELSE "finish_ok")
         /\ berr' = (berr \/ failed)
    ELSE Finalize(a, failed)

--------------------------------------------------------------------------------
(* The monitor's tick, _check_and_act.                                     *)

\* _start_countdown: without players the pipeline starts at once.
BackupStarts ==
    \E running \in Seen :
       \/ BeginBackup("bmon", running)
       \/ /\ running
          /\ BState("countdown")
          /\ btarget' = "pending"
          /\ UNCHANGED <<bpc, wasRunning>>

\* _handle_countdown: it looks at nothing but the time.
BackupCountdown ==
    \/ btarget = "due" /\ BeginBackup("bmon", TRUE)
    \/ btarget = "pending" /\ UNCHANGED <<bstate, btarget, bpc, wasRunning>>
    \/ btarget = "none" /\ BState("monitoring") /\ UNCHANGED <<btarget, bpc, wasRunning>>

BackupTick ==
    /\ bpc["bmon"] = "idle"
    /\ \/ ~benabled /\ BState("disabled") /\ UNCHANGED <<btarget, bpc, wasRunning>>
       \/ benabled /\ bstate = "countdown" /\ BackupCountdown
       \/ /\ benabled /\ ~BackupBusy
          /\ \/ BState("monitoring") /\ UNCHANGED <<btarget, bpc, wasRunning>>
             \/ ~RebootBusy /\ bdue /\ BackupStarts
    /\ UNCHANGED <<worldVars, rstate, benabled, bdue, berr>>

--------------------------------------------------------------------------------
(* _execute_backup after its first await.                                  *)

\* Mutant: a stop that failed is no reason to give up.
BackupStopUnchecked(a) ==
    /\ bpc[a] = "stop"
    /\ server' \in {"down"} \cup (IF Failures THEN {server} ELSE {})
    /\ BState("compressing")
    /\ BGoto(a, "compress")
    /\ UNCHANGED <<gate, cooldown, rstate, benabled, btarget, bdue, wasRunning, berr>>

\* stop_server refuses a server that no longer runs, and the backup with it.
BackupStop(a) ==
    /\ bpc[a] = "stop"
    /\ \/ Running /\ server' = "down" /\ BState("compressing") /\ BGoto(a, "compress") /\ UNCHANGED berr
       \/ (Failures \/ ~Running) /\ EndPipeline(a, TRUE) /\ UNCHANGED server
    /\ UNCHANGED <<gate, cooldown, rstate, benabled, btarget, bdue, wasRunning>>

BackupCompress(a) ==
    /\ bpc[a] = "compress"
    /\ \/ BState("uploading") /\ BGoto(a, "upload") /\ UNCHANGED berr
       \/ Failures /\ EndPipeline(a, TRUE)
    /\ UNCHANGED <<worldVars, rstate, benabled, btarget, bdue, wasRunning>>

BackupUpload(a) ==
    /\ bpc[a] = "upload"
    /\ \/ EndPipeline(a, FALSE) /\ bdue' = FALSE
       \/ Failures /\ EndPipeline(a, TRUE) /\ UNCHANGED bdue
    /\ UNCHANGED <<worldVars, rstate, benabled, btarget, wasRunning>>

\* start_server, which a running server refuses; a failure is only logged.
BackupFinish(a) ==
    /\ bpc[a] \in {"finish_ok", "finish_failed"}
    /\ IF Running THEN UNCHANGED server
       ELSE server' \in {"up"} \cup (IF Failures THEN {"down", "degraded"} ELSE {})
    /\ Finalize(a, FALSE)
    /\ UNCHANGED <<gate, cooldown, rstate, benabled, btarget, bdue, wasRunning>>

--------------------------------------------------------------------------------
(* Administrators and time.                                                *)

\* trigger_manual_backup: a countdown, or a task that runs after this handler.
TriggerBackup ==
    /\ Manual
    /\ bpc["bman"] = "idle"
    /\ bstate \in {"disabled", "monitoring", "error"}
    /\ \E running \in Seen :
          \/ /\ running
             /\ BState("countdown")
             /\ btarget' = "pending"
             /\ UNCHANGED <<bpc, wasRunning>>
          \/ /\ BGoto("bman", "spawned")
             /\ wasRunning' = [wasRunning EXCEPT !["bman"] = running]
             /\ UNCHANGED <<bstate, btarget>>
    /\ UNCHANGED <<worldVars, rstate, benabled, bdue, berr>>

SpawnedBackup ==
    /\ bpc["bman"] = "spawned"
    /\ BeginBackup("bman", wasRunning["bman"])
    /\ UNCHANGED <<worldVars, rstate, benabled, bdue, berr>>

\* Mutant: a state the enumeration does not have.
CancelBackupOdd ==
    /\ bstate = "countdown"
    /\ btarget' = "none"
    /\ BState("cancelled")
    /\ UNCHANGED <<worldVars, rstate, benabled, bdue, bpc, wasRunning, berr>>

CancelBackup ==
    /\ bstate = "countdown"
    /\ btarget' = "none"
    /\ BState("monitoring")
    /\ UNCHANGED <<worldVars, rstate, benabled, bdue, bpc, wasRunning, berr>>

BackupConfig ==
    /\ Toggles
    /\ benabled' = ~benabled
    /\ UNCHANGED <<worldVars, rstate, bstate, btarget, bdue, bpc, wasRunning, berr>>

BackupTime ==
    /\ btarget = "pending"
    /\ btarget' = "due"
    /\ UNCHANGED <<worldVars, rstate, bstate, benabled, bdue, bpc, wasRunning, berr>>

--------------------------------------------------------------------------------
Pipeline(a) == BackupStop(a) \/ BackupCompress(a) \/ BackupUpload(a) \/ BackupFinish(a)

BackupStep ==
    \/ BackupTick \/ Pipeline("bmon")
    \/ TriggerBackup \/ SpawnedBackup \/ Pipeline("bman")
    \/ CancelBackup \/ BackupConfig \/ BackupTime
================================================================================
