---------------------------- MODULE SchedulersProofs ----------------------------
(***************************************************************************)
(* Theorems about the two schedulers in every surroundings and for every   *)
(* number of restart tokens: types, that restarts for the uptime and       *)
(* backups exclude each other, that an archive is taken of a stopped       *)
(* server, and that a cancelled countdown never ends in a restart.         *)
(***************************************************************************)
EXTENDS Schedulers, TLAPS

--------------------------------------------------------------------------------
(* Types.                                                                  *)

LEMMA Tokens == world \in Worlds => MaxToken \in Nat
BY WorldAssumption DEF MaxToken

\* Whatever a status read shows, it is an answer.
LEMMA SeenType == Seen \subseteq BOOLEAN
BY Zenon DEF Seen, Running

\* What a step of the reboot scheduler may change.
RebootTypes == RebootTypeOK /\ gate \in {"open", "mon", "man", "other"} /\ rstate \in RebootStates

LEMMA DoneTypes ==
    ASSUME world \in Worlds, RebootTypeOK, NEW r \in Runners, Done(r)
    PROVE  rpc' \in [Runners -> RebootPCs] /\ held' \in [Runners -> 0..MaxToken]
BY Tokens DEF Done, RGoto, RebootTypeOK, RebootPCs

LEMMA LaunchTypes ==
    ASSUME RebootTypeOK, NEW r \in Runners, NEW t \in 0..MaxToken, NEW farewell \in BOOLEAN,
           gate \in {"open", "mon", "man", "other"}, Launch(r, t, farewell)
    PROVE  /\ rpc' \in [Runners -> RebootPCs] /\ held' \in [Runners -> 0..MaxToken]
           /\ gate' \in {"open", "mon", "man", "other"}
           /\ rstate' \in RebootStates
BY DEF Launch, RGoto, RState, RebootTypeOK, RebootPCs, RebootStates, Runners

LEMMA CountdownTypes ==
    ASSUME world \in Worlds, RebootTypes, NEW r \in Runners, NEW reason \in {"empty", "uptime"},
           StartCountdown(r, reason)
    PROVE  /\ rpc' \in [Runners -> RebootPCs] /\ held' \in [Runners -> 0..MaxToken]
           /\ gate' \in {"open", "mon", "man", "other"}
           /\ rstate' \in RebootStates
           /\ token' \in 0..MaxToken /\ tokenSeq' \in 0..MaxToken
           /\ target' \in {"none", "pending", "due"}
<1>1. tokenSeq' \in 0..MaxToken
      BY Tokens DEF StartCountdown, RebootTypes, RebootTypeOK
<1>2. CASE ~CanRestart
  <2>1. ResetTracking /\ RState("monitoring") /\ Done(r) /\ UNCHANGED gate
        BY <1>2, Zenon DEF StartCountdown
  <2> QED BY <1>1, <2>1, DoneTypes, Tokens DEF ResetTracking, RState, RebootTypes, RebootStates
<1>3. CASE CanRestart /\ reason = "empty"
      BY <1>1, <1>3, LaunchTypes DEF StartCountdown, RebootTypes
<1>4. CASE CanRestart /\ reason # "empty"
      BY <1>1, <1>4, DoneTypes DEF StartCountdown, RState, RebootTypes, RebootStates
<1> QED BY <1>2, <1>3, <1>4

LEMMA BeginTypes ==
    ASSUME world \in Worlds, RebootTypes, NEW r \in Runners, NEW t \in 0..MaxToken, BeginRestart(r, t)
    PROVE  /\ rpc' \in [Runners -> RebootPCs] /\ held' \in [Runners -> 0..MaxToken]
           /\ gate' \in {"open", "mon", "man", "other"}
           /\ rstate' \in RebootStates
           /\ token' \in 0..MaxToken
           /\ target' \in {"none", "pending", "due"}
<1>1. CASE t # token
      BY <1>1, DoneTypes DEF BeginRestart, RebootTypes, RebootTypeOK
<1>2. CASE t = token /\ ~CanRestart
      BY <1>2, DoneTypes, Tokens
         DEF BeginRestart, ResetTracking, RState, RebootTypes, RebootTypeOK, RebootStates
<1>3. CASE t = token /\ CanRestart
      BY <1>3, LaunchTypes DEF BeginRestart, RebootTypes, RebootTypeOK
<1> QED BY <1>1, <1>2, <1>3

LEMMA MaintainTypes ==
    ASSUME world \in Worlds, RebootTypeOK, NEW busy, NEW up, Maintain(busy, up)
    PROVE  /\ rpc' \in [Runners -> RebootPCs] /\ held' \in [Runners -> 0..MaxToken]
           /\ schedule' \in {"none", "pending", "due"}
<1>1. "mon" \in Runners
      BY DEF Runners
<1> QED BY <1>1, DoneTypes DEF Maintain, RGoto, RebootTypeOK, RebootPCs

\* A step of the reboot scheduler keeps the types.
LEMMA RebootStepTypes ==
    ASSUME TypeOK, RebootStep, UNCHANGED <<world, backupVars>>
    PROVE  TypeOK'
<1> USE DEF TypeOK, WorldTypeOK
<1>0. "mon" \in Runners /\ "man" \in Runners /\ RebootTypes /\ 0 \in 0..MaxToken
      BY Tokens DEF Runners, RebootTypes
<1>b. BackupTypeOK'
      BY DEF BackupTypeOK, backupVars
<1>w. MaxToken' = MaxToken
      BY DEF MaxToken
<1> DEFINE Rest == WorldTypeOK' /\ RebootTypeOK'
<1>1. CASE TickRead
  <2>1. seenUp' \in BOOLEAN /\ grace' \in BOOLEAN
        BY <1>1, SeenType DEF TickRead, RebootTypeOK
  <2>2. /\ rpc' \in [Runners -> RebootPCs] /\ held' \in [Runners -> 0..MaxToken]
        /\ schedule' \in {"none", "pending", "due"}
        /\ rstate' \in RebootStates /\ token' \in 0..MaxToken /\ target' \in {"none", "pending", "due"}
    <3>1. CASE ~renabled
          BY <1>0, <1>1, <3>1, DoneTypes, MaintainTypes
             DEF TickRead, ResetTracking, RState, RebootStates, RebootTypeOK
    <3>2. CASE renabled
          BY <1>0, <1>1, <3>2, DoneTypes
             DEF TickRead, RState, RGoto, RebootStates, RebootPCs, RebootTypeOK
    <3> QED BY <3>1, <3>2
  <2> QED BY <1>b, <1>w, <1>1, <2>1, <2>2 DEF TickRead, RebootTypeOK, worldVars
<1>2. CASE TickDecide
  <2>1. /\ rpc' \in [Runners -> RebootPCs] /\ held' \in [Runners -> 0..MaxToken]
        /\ schedule' \in {"none", "pending", "due"}
        /\ gate' \in {"open", "mon", "man", "other"}
        /\ rstate' \in RebootStates /\ token' \in 0..MaxToken /\ target' \in {"none", "pending", "due"}
        /\ tokenSeq' \in 0..MaxToken
    <3>1. CASE TickDown
          BY <1>0, <3>1, DoneTypes, MaintainTypes
             DEF TickDown, ResetTracking, RState, RebootStates, RebootTypeOK
    <3>2. CASE TickGrace
          BY <1>0, <3>2, DoneTypes, MaintainTypes
             DEF TickGrace, RState, RebootStates, RebootTypeOK
    <3>3. CASE TickCountdown
          BY <1>0, <3>3, DoneTypes, BeginTypes
             DEF TickCountdown, HandleCountdown, ResetTracking, RState, RebootStates, RebootTypeOK
    <3>4. CASE TickMonitor
          BY <1>0, <3>4, DoneTypes, MaintainTypes, CountdownTypes
             DEF TickMonitor, RState, RebootStates, RebootTypeOK
    <3> QED BY <1>2, <3>1, <3>2, <3>3, <3>4 DEF TickDecide
  <2> QED BY <1>b, <1>w, <1>2, <2>1 DEF TickDecide, RebootTypeOK
<1>3. CASE TickRecover
  <2>1. rpc' \in [Runners -> RebootPCs] /\ held' \in [Runners -> 0..MaxToken]
        BY <1>0, <1>3, DoneTypes DEF TickRecover, RGoto, RebootPCs, RebootTypeOK
  <2>2. /\ server' \in {"down", "degraded", "up"} /\ gate' \in {"open", "mon", "man", "other"}
        /\ cooldown' \in BOOLEAN /\ grace' \in BOOLEAN
        BY <1>0, <1>3 DEF TickRecover, RebootTypeOK
  <2> QED BY <1>b, <1>w, <1>3, <2>1, <2>2 DEF TickRecover, RebootTypeOK
<1>4. CASE MaintenanceStop
      BY <1>0, <1>b, <1>w, <1>4, DoneTypes DEF MaintenanceStop, ResetTracking, RState, RebootStates, RebootTypeOK
<1>5. ASSUME NEW r \in Runners, EnterRestart(r) PROVE TypeOK'
      BY <1>0, <1>b, <1>w, <1>5, DoneTypes
         DEF EnterRestart, ResetTracking, RState, RGoto, RebootStates, RebootPCs, RebootTypeOK, Runners
<1>6. ASSUME NEW r \in Runners, RestartStop(r) PROVE TypeOK'
      BY <1>0, <1>b, <1>w, <1>6, DoneTypes
         DEF RestartStop, RestartFails, ResetTracking, RState, RGoto, RebootStates, RebootPCs, RebootTypeOK
<1>7. ASSUME NEW r \in Runners, RestartStart(r) PROVE TypeOK'
      BY <1>0, <1>b, <1>w, <1>7, DoneTypes
         DEF RestartStart, RestartFails, ResetTracking, RState, RebootStates, RebootTypeOK
<1>8. CASE TriggerRestart
  <2>1. /\ rpc' \in [Runners -> RebootPCs] /\ held' \in [Runners -> 0..MaxToken]
        /\ gate' \in {"open", "mon", "man", "other"}
        /\ rstate' \in RebootStates /\ token' \in 0..MaxToken /\ target' \in {"none", "pending", "due"}
        /\ tokenSeq' \in 0..MaxToken
    <3>1. CASE StartCountdown("man", "uptime")
          BY <1>0, <3>1, CountdownTypes
    <3>2. CASE /\ tokenSeq < MaxToken
               /\ tokenSeq' = tokenSeq + 1
               /\ IF CanRestart
                  THEN token' = tokenSeq' /\ Launch("man", tokenSeq', FALSE) /\ UNCHANGED target
                  ELSE ResetTracking /\ RState("monitoring") /\ Done("man") /\ UNCHANGED gate
      <4>1. tokenSeq' \in 0..MaxToken
            BY <3>2, Tokens DEF RebootTypeOK
      <4> QED BY <1>0, <3>2, <4>1, DoneTypes, LaunchTypes
                 DEF ResetTracking, RState, RebootStates, RebootTypeOK
    <3> QED BY <1>8, <3>1, <3>2 DEF TriggerRestart
  <2>2. seenUp' \in BOOLEAN
        BY <1>8, SeenType DEF TriggerRestart, RebootTypeOK
  <2> QED BY <1>b, <1>w, <1>8, <2>1, <2>2 DEF TriggerRestart, RebootTypeOK
<1>9. CASE CancelCountdown
      BY <1>0, <1>b, <1>w, <1>9 DEF CancelCountdown, ResetTracking, RState, RebootStates, RebootTypeOK, worldVars
<1>10. CASE Configure
  <2>1. renabled' \in BOOLEAN
        BY <1>10, Zenon DEF Configure, RebootTypeOK
  <2> QED BY <1>b, <1>w, <1>10, <2>1 DEF Configure, RebootTypeOK, worldVars
<1>11. CASE RebootTime
      BY <1>0, <1>b, <1>w, <1>11
         DEF RebootTime, CountdownDue, StopDue, GraceEnds, RebootTypeOK, worldVars
<1> QED BY <1>0, <1>1, <1>2, <1>3, <1>4, <1>5, <1>6, <1>7, <1>8, <1>9, <1>10, <1>11
           DEF RebootStep, MonitorStep, RequestStep

\* A step of the backup scheduler keeps the types.
LEMMA BackupStepTypes ==
    ASSUME TypeOK, BackupStep, UNCHANGED <<world, rebootVars>>
    PROVE  TypeOK'
<1> USE DEF TypeOK, WorldTypeOK
<1>0. "bmon" \in Backers /\ "bman" \in Backers /\ Seen \subseteq BOOLEAN
      BY SeenType DEF Backers
<1>r. RebootTypeOK'
      BY DEF RebootTypeOK, rebootVars, MaxToken
<1>b. ASSUME NEW a \in Backers, NEW running \in BOOLEAN, BeginBackup(a, running)
      PROVE  /\ btarget' \in {"none", "pending", "due"} /\ bstate' \in BackupStates
             /\ bpc' \in [Backers -> BackupPCs] /\ wasRunning' \in [Backers -> BOOLEAN]
      BY <1>b DEF BeginBackup, BState, BGoto, BackupStates, BackupPCs, BackupTypeOK
<1>e. ASSUME NEW a \in Backers, NEW failed \in BOOLEAN, EndPipeline(a, failed) \/ Finalize(a, failed)
      PROVE  berr' \in BOOLEAN /\ bstate' \in BackupStates /\ bpc' \in [Backers -> BackupPCs]
      BY <1>e DEF EndPipeline, Finalize, BState, BGoto, BackupStates, BackupPCs, BackupTypeOK
<1>1. CASE BackupTick
      BY <1>0, <1>r, <1>b, <1>1
         DEF BackupTick, BackupStarts, BackupCountdown, BState, BackupStates, BackupTypeOK, worldVars
<1>2. ASSUME NEW a \in Backers, BackupStop(a) PROVE TypeOK'
      BY <1>r, <1>e, <1>2 DEF BackupStop, BState, BGoto, BackupStates, BackupPCs, BackupTypeOK
<1>3. ASSUME NEW a \in Backers, BackupCompress(a) PROVE TypeOK'
      BY <1>r, <1>e, <1>3 DEF BackupCompress, BState, BGoto, BackupStates, BackupPCs, BackupTypeOK, worldVars
<1>4. ASSUME NEW a \in Backers, BackupUpload(a) PROVE TypeOK'
      BY <1>r, <1>e, <1>4 DEF BackupUpload, BackupTypeOK, worldVars
<1>5. ASSUME NEW a \in Backers, BackupFinish(a) PROVE TypeOK'
      BY <1>r, <1>e, <1>5 DEF BackupFinish, BackupTypeOK
<1>6. CASE TriggerBackup
      BY <1>0, <1>r, <1>6
         DEF TriggerBackup, BState, BGoto, BackupStates, BackupPCs, BackupTypeOK, worldVars
<1>7. CASE SpawnedBackup
      BY <1>0, <1>r, <1>b, <1>7 DEF SpawnedBackup, BackupTypeOK, worldVars
<1>8. CASE CancelBackup \/ BackupConfig \/ BackupTime
  <2>1. benabled' \in BOOLEAN
        BY <1>8, Zenon DEF CancelBackup, BackupConfig, BackupTime, BackupTypeOK
  <2> QED BY <1>r, <1>8, <2>1
         DEF CancelBackup, BackupConfig, BackupTime, BState, BackupStates, BackupTypeOK, worldVars
<1> QED BY <1>0, <1>1, <1>2, <1>3, <1>4, <1>5, <1>6, <1>7, <1>8 DEF BackupStep, Pipeline

LEMMA NextTypes == TypeOK /\ [Next]_vars => TypeOK'
<1> SUFFICES ASSUME TypeOK, [Next]_vars PROVE TypeOK'
    OBVIOUS
<1>1. CASE UNCHANGED world /\ RebootStep /\ UNCHANGED backupVars
      BY <1>1, RebootStepTypes
<1>2. CASE UNCHANGED world /\ BackupStep /\ UNCHANGED rebootVars
      BY <1>2, BackupStepTypes
<1>3. CASE UNCHANGED world /\ WorldStep /\ UNCHANGED <<rstate, bstate, rebootVars, backupVars>>
  <2>1. RebootTypeOK' /\ BackupTypeOK'
        BY <1>3 DEF TypeOK, RebootTypeOK, BackupTypeOK, rebootVars, backupVars, MaxToken
  <2>2. /\ server' \in {"down", "degraded", "up"} /\ gate' \in {"open", "mon", "man", "other"}
        /\ cooldown' \in BOOLEAN
        BY <1>3 DEF WorldStep, ServerChanges, OthersRestart, CooldownEnds, TypeOK, WorldTypeOK
  <2> QED BY <1>3, <2>1, <2>2 DEF TypeOK, WorldTypeOK
<1>4. CASE UNCHANGED vars
      BY <1>4 DEF vars, worldVars, rebootVars, backupVars, TypeOK, WorldTypeOK, RebootTypeOK,
                  BackupTypeOK, MaxToken
<1> QED BY <1>1, <1>2, <1>3, <1>4 DEF Next

\* Every variable of the schedulers keeps its type (TypeOK).
THEOREM TypeCorrect == Spec => []TypeOK
<1>1. Init => TypeOK
  <2>1. Init => WorldTypeOK
        BY DEF Init, WorldInit, WorldTypeOK, RebootStates, BackupStates
  <2>2. Init => RebootTypeOK
    <3>1. Init => 0 \in 0..MaxToken
          BY Tokens DEF Init, WorldInit
    <3> QED BY <3>1 DEF Init, RebootInit, RebootTypeOK, RebootPCs
  <2>3. Init => BackupTypeOK
        BY DEF Init, BackupInit, BackupTypeOK, BackupPCs
  <2> QED BY <2>1, <2>2, <2>3 DEF TypeOK
<1> QED BY <1>1, NextTypes, PTL DEF Spec

--------------------------------------------------------------------------------
(* Restarts and backups.                                                   *)

\* The reboot scheduler is bound for a restart, or at one.
RebootActive == rstate \in {"countdown_empty", "countdown_uptime"} \/ rpc["mon"] \in {"say", "stop", "start"}

\* The backup scheduler is bound for a backup, or at one.
BackupActive == bstate = "countdown" \/ bpc["bmon"] # "idle"

\* Without administrators only the monitors act, each publishes a busy state as
\* long as it does, and since each looks at the other's before it sets out,
\* never both do.
AutomaticInv ==
    ~Manual =>
        /\ rpc["man"] = "idle" /\ bpc["bman"] = "idle"
        /\ rpc["mon"] \in {"say", "stop", "start"} => rstate = "restarting"
        /\ bpc["bmon"] # "idle" =>
              bstate \in {"stopping_server", "compressing", "uploading", "restarting"}
        /\ ~(RebootActive /\ BackupActive)

LEMMA RebootKeepsAutomatic ==
    ASSUME TypeOK, AutomaticInv, ~Manual, RebootStep, UNCHANGED <<world, backupVars>>
    PROVE  AutomaticInv'
<1> USE DEF AutomaticInv, RebootActive, BackupActive
<1>0. /\ UNCHANGED <<Manual, bpc>>
      /\ rpc \in [Runners -> RebootPCs] /\ "mon" \in Runners /\ "man" \in Runners /\ "mon" # "man"
      BY DEF Manual, backupVars, TypeOK, RebootTypeOK, Runners
<1>d. Done("mon") => rpc' = [rpc EXCEPT !["mon"] = "idle"]
      BY DEF Done, RGoto
<1>1. CASE TickRead
      BY <1>0, <1>d, <1>1 DEF TickRead, RState, RGoto, Maintain
<1>2. CASE TickDecide
  <2>0. bstate' = bstate /\ rpc["mon"] = "decide"
        BY <1>2 DEF TickDecide
  <2>1. CASE TickDown
        BY <1>0, <1>d, <2>0, <2>1 DEF TickDown, RState, RGoto, Maintain
  <2>2. CASE TickGrace
        BY <1>0, <1>d, <2>0, <2>2 DEF TickGrace, RState, RGoto, Maintain
  <2>3. CASE TickCountdown
        BY <1>0, <1>d, <2>0, <2>3
           DEF TickCountdown, HandleCountdown, BeginRestart, Launch, RState, RGoto
  <2>4. CASE TickMonitor
    <3>1. CASE ~BackupBusy /\ \E reason \in {"empty", "uptime"} : StartCountdown("mon", reason)
          BY <1>0, <1>d, <2>0, <3>1 DEF BackupBusy, StartCountdown, Launch, RState, RGoto
    <3>2. CASE Maintain(BackupBusy, seenUp) /\ UNCHANGED rstate
          BY <1>0, <1>d, <2>0, <2>4, <3>2 DEF TickMonitor, RGoto, Maintain
    <3>3. CASE RState("monitoring") /\ Done("mon")
          BY <1>0, <1>d, <2>0, <3>3 DEF RState
    <3> QED BY <2>4, <3>1, <3>2, <3>3 DEF TickMonitor
  <2> QED BY <1>2, <2>1, <2>2, <2>3, <2>4 DEF TickDecide
<1>3. CASE TickRecover
      BY <1>0, <1>d, <1>3 DEF TickRecover, RGoto
<1>4. CASE MaintenanceStop
      BY <1>0, <1>d, <1>4 DEF MaintenanceStop, RState
<1>5. ASSUME NEW r \in Runners, EnterRestart(r) \/ RestartStop(r) \/ RestartStart(r)
      PROVE  AutomaticInv'
  <2>1. r = "mon"
        BY <1>0, <1>5 DEF EnterRestart, RestartStop, RestartStart, Runners
  <2> QED BY <1>0, <1>d, <1>5, <2>1
             DEF EnterRestart, RestartStop, RestartStart, RestartFails, RState, RGoto
<1>6. CASE CancelCountdown \/ Configure \/ RebootTime
      BY <1>0, <1>6 DEF CancelCountdown, Configure, RebootTime, RState
<1> QED BY <1>0, <1>1, <1>2, <1>3, <1>4, <1>5, <1>6
           DEF RebootStep, MonitorStep, RequestStep, TriggerRestart

LEMMA BackupKeepsAutomatic ==
    ASSUME TypeOK, AutomaticInv, ~Manual, BackupStep, UNCHANGED <<world, rebootVars>>
    PROVE  AutomaticInv'
<1> USE DEF AutomaticInv, RebootActive, BackupActive
<1>0. /\ UNCHANGED <<Manual, rpc>>
      /\ bpc \in [Backers -> BackupPCs] /\ "bmon" \in Backers /\ "bman" \in Backers /\ "bmon" # "bman"
      BY DEF Manual, rebootVars, TypeOK, BackupTypeOK, Backers
<1>1. CASE BackupTick
  <2>1. CASE bstate = "countdown" /\ BackupCountdown
        BY <1>0, <1>1, <2>1 DEF BackupTick, BackupCountdown, BeginBackup, BState, BGoto
  <2>2. CASE ~RebootBusy /\ BackupStarts
        BY <1>0, <1>1, <2>2 DEF BackupTick, BackupStarts, BeginBackup, BState, BGoto, RebootBusy
  <2>3. CASE UNCHANGED bpc /\ \E s \in {"disabled", "monitoring"} : BState(s)
        BY <1>0, <1>1, <2>3 DEF BackupTick, BState
  <2> QED BY <1>1, <2>1, <2>2, <2>3 DEF BackupTick
<1>2. ASSUME NEW a \in Backers, BackupStop(a) \/ BackupCompress(a) \/ BackupUpload(a) \/ BackupFinish(a)
      PROVE  AutomaticInv'
  <2>1. a = "bmon"
        BY <1>0, <1>2 DEF BackupStop, BackupCompress, BackupUpload, BackupFinish, Backers
  <2> QED BY <1>0, <1>2, <2>1
             DEF BackupStop, BackupCompress, BackupUpload, BackupFinish, EndPipeline, Finalize, BState, BGoto
<1>3. CASE CancelBackup \/ BackupConfig \/ BackupTime
      BY <1>0, <1>3 DEF CancelBackup, BackupConfig, BackupTime, BState
<1> QED BY <1>0, <1>1, <1>2, <1>3 DEF BackupStep, Pipeline, TriggerBackup, SpawnedBackup

\* What the monitors publish excludes one another, over all steps.
LEMMA AutomaticInvariant == Spec => []AutomaticInv
<1>1. Init => AutomaticInv
      BY DEF Init, RebootInit, BackupInit, WorldInit, AutomaticInv, RebootActive, BackupActive, Runners, Backers
<1>2. TypeOK /\ AutomaticInv /\ [Next]_vars => AutomaticInv'
  <2> SUFFICES ASSUME TypeOK, AutomaticInv, [Next]_vars PROVE AutomaticInv'
      OBVIOUS
  <2>1. CASE Manual
        BY <2>1 DEF AutomaticInv, Manual, Next, vars
  <2>2. CASE ~Manual /\ UNCHANGED world /\ RebootStep /\ UNCHANGED backupVars
        BY <2>2, RebootKeepsAutomatic
  <2>3. CASE ~Manual /\ UNCHANGED world /\ BackupStep /\ UNCHANGED rebootVars
        BY <2>3, BackupKeepsAutomatic
  <2>4. CASE UNCHANGED <<world, rstate, bstate, rebootVars, backupVars>>
        BY <2>4 DEF AutomaticInv, RebootActive, BackupActive, Manual, rebootVars, backupVars
  <2> QED BY <2>1, <2>2, <2>3, <2>4 DEF Next, vars
<1> QED BY <1>1, <1>2, TypeCorrect, PTL DEF Spec

\* Without administrators no backup runs while the server is restarted for its
\* uptime, nor the other way round.
THEOREM ExclusionCorrect == Spec => []AutomaticExclusion
<1>1. AutomaticInv => AutomaticExclusion
      BY DEF AutomaticInv, AutomaticExclusion, Restarting, BackingUp, RebootActive, BackupActive,
             Runners, Backers
<1> QED BY <1>1, AutomaticInvariant, PTL

\* While the archive is taken no server process runs that a scheduler started, a
\* recovery apart.
THEOREM ArchiveCorrect == Spec => ArchiveOfStoppedServer
<1>1. ASSUME TypeOK, AutomaticInv, Next, ~Manual, ~Admin, Archiving', server' # "down"
      PROVE  Archiving /\ (server # "down" \/ rpc["mon"] = "recover_start")
  <2>0. /\ bpc \in [Backers -> BackupPCs] /\ rpc["man"] = "idle" /\ bpc["bman"] = "idle"
        /\ ~(RebootActive /\ BackupActive)
        BY <1>1 DEF TypeOK, BackupTypeOK, AutomaticInv
  <2>1. CASE RebootStep /\ UNCHANGED backupVars
    <3>1. Archiving /\ bpc["bmon"] = "compress"
          BY <1>1, <2>0, <2>1 DEF Archiving, backupVars, Backers
    <3>2. ~RebootActive
          BY <2>0, <3>1 DEF BackupActive
    <3>3. rpc["mon"] # "start" /\ rpc["man"] # "start"
          BY <2>0, <3>2 DEF RebootActive
    <3> QED BY <1>1, <2>1, <3>1, <3>3
               DEF RebootStep, MonitorStep, RequestStep, TickRead, TickDecide, TickRecover, MaintenanceStop,
                   EnterRestart, RestartStop, RestartStart, TriggerRestart, CancelCountdown, Configure,
                   RebootTime, worldVars
  <2>2. CASE BackupStep /\ UNCHANGED rebootVars
    <3>1. ASSUME NEW a \in Backers, BackupStop(a) \/ BackupCompress(a) \/ BackupUpload(a) \/ BackupFinish(a)
          PROVE  FALSE
      <4>1. a = "bmon"
            BY <2>0, <3>1 DEF BackupStop, BackupCompress, BackupUpload, BackupFinish, Backers
      <4>2. \A l : BGoto("bmon", l) /\ l # "compress" => ~Archiving'
            BY <2>0 DEF BGoto, Archiving, Backers
      <4> QED BY <1>1, <3>1, <4>1, <4>2
                 DEF BackupStop, BackupCompress, BackupUpload, BackupFinish, EndPipeline, Finalize
    <3>2. CASE BackupTick
      <4>1. bpc["bmon"] = "idle" /\ server' = server
            BY <3>2 DEF BackupTick, worldVars
      <4>2. bpc' # bpc
            BY <1>1, <2>0, <4>1 DEF Archiving, Backers
      <4>3. PICK running \in BOOLEAN : BeginBackup("bmon", running) /\ (running = FALSE => server = "down")
            BY <1>1, <3>2, <4>2 DEF BackupTick, BackupCountdown, BackupStarts, Seen, Running
      <4>4. BGoto("bmon", "stop")
            BY <1>1, <4>1, <4>3 DEF BeginBackup
      <4> QED BY <1>1, <2>0, <4>4 DEF BGoto, Archiving, Backers
    <3>3. CASE CancelBackup \/ BackupConfig \/ BackupTime
          BY <1>1, <3>3 DEF CancelBackup, BackupConfig, BackupTime, Archiving, worldVars
    <3> QED BY <1>1, <2>0, <2>2, <3>1, <3>2, <3>3
               DEF BackupStep, Pipeline, TriggerBackup, SpawnedBackup, Backers
  <2>3. CASE WorldStep /\ UNCHANGED backupVars
        BY <1>1, <2>3
           DEF WorldStep, ServerChanges, OthersRestart, CooldownEnds, Running, Archiving, backupVars
  <2> QED BY <1>1, <2>1, <2>2, <2>3 DEF Next
<1> QED BY <1>1, TypeCorrect, AutomaticInvariant, PTL DEF Spec, ArchiveOfStoppedServer

--------------------------------------------------------------------------------
(* Cancelled countdowns.                                                   *)

\* The current restart token was handed out and its countdown not cancelled; only
\* tokens that were handed out can have been.
TokenInv == token <= tokenSeq /\ token \notin cancelled /\ cancelled \subseteq 1..tokenSeq

\* No coroutine enters restart_server in this step, or only with token t.
NoEntry == \A r \in Runners : rpc'[r] = "stop" => rpc[r] = "stop"
EntryWith(t) == \A r \in Runners : rpc[r] # "stop" /\ rpc'[r] = "stop" => held'[r] = t

LEMMA GotoEntry ==
    ASSUME TypeOK, NEW r \in Runners, NEW l, l # "stop", RGoto(r, l)
    PROVE  NoEntry
BY DEF TypeOK, RebootTypeOK, RGoto, NoEntry

LEMMA DoneEntry ==
    ASSUME TypeOK, NEW r \in Runners, Done(r)
    PROVE  NoEntry
BY GotoEntry DEF Done

LEMMA LaunchEntry ==
    ASSUME TypeOK, NEW r \in Runners, NEW t, NEW farewell, Launch(r, t, farewell)
    PROVE  EntryWith(t)
BY DEF TypeOK, RebootTypeOK, Launch, RGoto, EntryWith

\* A countdown begins with a token of its own, as does a restart without one.
LEMMA StartEntry ==
    ASSUME TypeOK, TokenInv, NEW r \in Runners, UNCHANGED cancelled,
           \/ \E reason \in {"empty", "uptime"} : StartCountdown(r, reason)
           \/ /\ tokenSeq' = tokenSeq + 1
              /\ IF CanRestart
                 THEN token' = tokenSeq' /\ Launch(r, tokenSeq', FALSE)
                 ELSE ResetTracking /\ Done(r)
    PROVE  TokenInv' /\ (NoEntry \/ EntryWith(token'))
<1>1. tokenSeq \in Nat /\ tokenSeq' = tokenSeq + 1 /\ token \in Nat
  <2>1. MaxToken \in Nat
        BY Tokens DEF TypeOK, WorldTypeOK
  <2>2. tokenSeq \in Nat /\ token \in Nat
        BY <2>1 DEF TypeOK, RebootTypeOK
  <2>3. tokenSeq' = tokenSeq + 1
        BY Zenon DEF StartCountdown
  <2> QED BY <2>2, <2>3
<1>2. token' = 0 \/ token' = tokenSeq'
      BY DEF StartCountdown, ResetTracking
<1>3. TokenInv'
      BY <1>1, <1>2 DEF TokenInv
<1>4. Done(r) \/ \E farewell \in BOOLEAN : token' = tokenSeq' /\ Launch(r, tokenSeq', farewell)
      BY DEF StartCountdown
<1> QED BY <1>3, <1>4, DoneEntry, LaunchEntry

\* A token that is used is the current one, and no step after its countdown was
\* cancelled makes it current again.
LEMMA StepTokens ==
    ASSUME TypeOK, TokenInv, Next
    PROVE  TokenInv' /\ (NoEntry \/ EntryWith(token'))
<1> DEFINE Goal == TokenInv' /\ (NoEntry \/ EntryWith(token'))
<1>0. tokenSeq \in Nat /\ token \in Nat /\ "mon" \in Runners /\ "man" \in Runners
      BY Tokens DEF TypeOK, WorldTypeOK, RebootTypeOK, Runners
<1>s. token' \in {0, token} /\ UNCHANGED <<tokenSeq, cancelled>> => TokenInv'
      BY <1>0 DEF TokenInv
<1>u. UNCHANGED rpc => NoEntry
      BY DEF NoEntry
<1>1. CASE TickRead
      BY <1>0, <1>1, <1>s, GotoEntry, DoneEntry DEF TickRead, ResetTracking, Maintain
<1>2. CASE TickDecide
  <2>0. cancelled' = cancelled
        BY <1>2 DEF TickDecide
  <2>1. CASE TickDown \/ TickGrace
        BY <1>0, <1>s, <2>0, <2>1, GotoEntry, DoneEntry DEF TickDown, TickGrace, ResetTracking, Maintain
  <2>2. CASE TickCountdown
    <3>1. tokenSeq' = tokenSeq /\ HandleCountdown
          BY <2>2 DEF TickCountdown
    <3>2. token' \in {0, token}
          BY <3>1 DEF HandleCountdown, BeginRestart, ResetTracking
    <3>3. Done("mon") \/ \E farewell \in BOOLEAN : token' = token /\ Launch("mon", token, farewell)
          BY <3>1 DEF HandleCountdown, BeginRestart
    <3> QED BY <1>0, <1>s, <2>0, <3>1, <3>2, <3>3, DoneEntry, LaunchEntry
  <2>3. CASE TickMonitor
        BY <1>0, <1>s, <2>0, <2>3, StartEntry, GotoEntry, DoneEntry DEF TickMonitor, Maintain
  <2> QED BY <1>2, <2>1, <2>2, <2>3 DEF TickDecide
<1>3. CASE TickRecover \/ MaintenanceStop
      BY <1>0, <1>3, <1>s, GotoEntry, DoneEntry DEF TickRecover, MaintenanceStop, ResetTracking
<1>4. ASSUME NEW r \in Runners, EnterRestart(r) PROVE Goal
  <2>1. token' \in {0, token} /\ UNCHANGED <<tokenSeq, cancelled>>
        BY <1>4 DEF EnterRestart, ResetTracking
  <2>2. Done(r) \/ (RGoto(r, "stop") /\ held' = held /\ held[r] = token /\ token' = token)
        BY <1>4 DEF EnterRestart
  <2>3. RGoto(r, "stop") /\ held' = held /\ held[r] = token => EntryWith(token)
        BY DEF RGoto, EntryWith, TypeOK, RebootTypeOK
  <2> QED BY <1>s, <2>1, <2>2, <2>3, DoneEntry
<1>5. ASSUME NEW r \in Runners, RestartStop(r) \/ RestartStart(r) PROVE Goal
      BY <1>s, <1>5, GotoEntry, DoneEntry DEF RestartStop, RestartStart, RestartFails, ResetTracking
<1>6. CASE TriggerRestart
      BY <1>0, <1>6, StartEntry DEF TriggerRestart
<1>7. CASE CancelCountdown
  <2>1. token' = 0 /\ tokenSeq' = tokenSeq /\ cancelled' = cancelled \cup ({token} \ {0}) /\ rpc' = rpc
        BY <1>7 DEF CancelCountdown, ResetTracking
  <2> QED BY <1>0, <1>u, <2>1 DEF TokenInv
<1>8. CASE Configure \/ RebootTime
      BY <1>8, <1>s, <1>u DEF Configure, RebootTime
<1>9. CASE UNCHANGED rebootVars
      BY <1>9, <1>s, <1>u DEF rebootVars
<1> QED BY <1>0, <1>1, <1>2, <1>3, <1>4, <1>5, <1>6, <1>7, <1>8, <1>9
           DEF Next, RebootStep, MonitorStep, RequestStep

\* The current token stays one whose countdown was not cancelled.
LEMMA TokenInvariant == Spec => []TokenInv
<1>1. Init => TokenInv
      BY DEF Init, RebootInit, TokenInv
<1>2. TypeOK /\ TokenInv /\ [Next]_vars => TokenInv'
      BY StepTokens DEF TokenInv, vars, rebootVars
<1> QED BY <1>1, <1>2, TypeCorrect, PTL DEF Spec

\* A countdown that an administrator cancelled never ends in a restart.
THEOREM CancelCorrect == Spec => CancelledCountdownNeverRestarts
<1>1. TypeOK /\ TokenInv /\ Next =>
         \A r \in Runners : rpc[r] # "stop" /\ rpc'[r] = "stop" => held'[r] \notin cancelled'
      BY <1>1, StepTokens DEF TokenInv, NoEntry, EntryWith
<1> QED BY <1>1, TypeCorrect, TokenInvariant, PTL DEF Spec, CancelledCountdownNeverRestarts
================================================================================
