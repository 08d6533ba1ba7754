------------------------------ MODULE Schedulers ------------------------------
(***************************************************************************)
(* The two schedulers of one dashboard process, on one event loop, with    *)
(* the server between them: RebootScheduler and BackupScheduler interleave *)
(* at their awaits and see of each other only the published state.         *)
(***************************************************************************)
EXTENDS RebootScheduler, BackupScheduler

vars == <<world, worldVars, rstate, bstate, rebootVars, backupVars>>

TypeOK == WorldTypeOK /\ RebootTypeOK /\ BackupTypeOK

Init == WorldInit /\ RebootInit /\ BackupInit

Next ==
    /\ UNCHANGED world
    /\ \/ RebootStep /\ UNCHANGED backupVars
       \/ BackupStep /\ UNCHANGED rebootVars
       \/ WorldStep /\ UNCHANGED <<rstate, bstate, rebootVars, backupVars>>

Spec == Init /\ [][Next]_vars

\* Both monitor loops tick for ever, the calls they await return, time makes
\* countdowns due, and administrators do not cancel and reconfigure for ever.
Fairness ==
    /\ WF_vars(MonitorStep /\ UNCHANGED <<world, backupVars>>)
    /\ WF_vars(RequestStep /\ UNCHANGED <<world, backupVars>>)
    /\ WF_vars(RebootTime /\ CountdownDue /\ UNCHANGED <<world, backupVars>>)
    /\ WF_vars((BackupTick \/ Pipeline("bmon")) /\ UNCHANGED <<world, rebootVars>>)
    /\ WF_vars((SpawnedBackup \/ Pipeline("bman")) /\ UNCHANGED <<world, rebootVars>>)
    /\ WF_vars(BackupTime /\ UNCHANGED <<world, rebootVars>>)
    /\ <>[][~CancelBackup /\ ~BackupConfig]_vars

FairSpec == Spec /\ Fairness

--------------------------------------------------------------------------------
(* Properties.                                                             *)

Restarting == \E r \in Runners : rpc[r] \in {"say", "stop", "start"}

\* Left to themselves, the schedulers never restart the server for its uptime
\* while a backup of it runs, nor begin a backup during such a restart: the
\* states they publish are enough, whatever their ticks overwrite.
AutomaticExclusion == ~Manual => ~(Restarting /\ BackingUp)

\* While the archive is taken no server process runs that one of the
\* schedulers started, a recovery apart (it may be under way when the due check
\* finds the reboot scheduler monitoring).
ArchiveOfStoppedServer ==
    [][~Manual /\ ~Admin /\ Archiving' /\ server' # "down"
         => Archiving /\ (server # "down" \/ rpc["mon"] = "recover_start")]_vars

\* A countdown that an administrator cancelled never ends in a restart, however
\* the cancellation falls between the ticks and the other triggers.
CancelledCountdownNeverRestarts ==
    [][\A r \in Runners :
          rpc[r] # "stop" /\ rpc'[r] = "stop" => held'[r] \notin cancelled']_vars

\* A maintenance stop whose time has come is executed, called off or set anew,
\* unless a backup failed: a countdown, a restart, its grace period and a
\* running backup only delay it.
MaintenanceStopHappens ==
    schedule = "due" ~> schedule # "due" \/ bstate = "error"

\* backup_scheduler.py's state machine: "UPLOADING -> RESTARTING ->
\* MONITORING" is how a backup that was uploaded ends.
UploadedBackupEndsMonitoring ==
    [][\A a \in Backers :
          bpc[a] = "finish_ok" /\ bpc'[a] = "idle" => bstate' = "monitoring"]_vars
================================================================================
