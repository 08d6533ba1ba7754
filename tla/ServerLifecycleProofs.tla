------------------------- MODULE ServerLifecycleProofs -------------------------
(***************************************************************************)
(* Theorems about ServerLifecycle, for every number of workers, coroutines *)
(* and process slots, every retry bound and every cooldown: type           *)
(* correctness, that neither the restart guard nor process_lock ever       *)
(* leaks, and that restarts implement RestartGate when the state file can  *)
(* be written or one worker makes all the calls.                           *)
(***************************************************************************)
EXTENDS ServerLifecycle, TLAPS

USE ConstantsAssumption

\* The part of TypeOK about restart_server's guard.
RestartTypes ==
    /\ restartFlag \in [Workers -> BOOLEAN]
    /\ restartLock \in Jobs \cup {NoJob}
    /\ lastDone \in [Workers -> 0..Cooldown]
    /\ savedDone \in 0..Cooldown
    /\ cooling \in 0..Cooldown
    /\ inRestart \in [Jobs -> BOOLEAN]

\* The part about what a coroutine does.
CallTypes ==
    /\ pc \in [Jobs -> PCs]
    /\ op \in [Jobs -> OpNames]
    /\ attempt \in [Jobs -> 1..MaxAttempts]

LEMMA TypeParts == TypeOK => RestartTypes /\ CallTypes
  BY DEF TypeOK, RestartTypes, CallTypes

LEMMA RestartTypesUnchanged == RestartTypes /\ UNCHANGED restartVars => RestartTypes'
  BY DEF RestartTypes, restartVars

LEMMA RememberedType ==
    ASSUME RestartTypes, NEW w \in Workers
    PROVE  /\ Remembered(w) \in 0..Cooldown
           /\ Remembered(w) = 0 => lastDone[w] = 0 /\ savedDone = 0
  BY DEF RestartTypes, Remembered, MaxOf

LEMMA EnterTypes ==
    ASSUME RestartTypes, NEW j \in Jobs, EnterRestart(j)
    PROVE  RestartTypes' /\ \E l \in {"restart_begin", "idle"} : Goto(j, l)
  <1>1. WorkerOf[j] \in Workers
    OBVIOUS
  <1>2. lastDone' \in [Workers -> 0..Cooldown]
    BY <1>1, RememberedType DEF EnterRestart, RestartTypes
  <1> QED
    BY <1>1, <1>2 DEF EnterRestart, RestartTypes

LEMMA EndTypes ==
    ASSUME RestartTypes, NEW j \in Jobs, NEW ok \in BOOLEAN, EndRestart(j, ok)
    PROVE  RestartTypes' /\ Goto(j, "idle")
  <1>1. Cooldown \in 0..Cooldown
    OBVIOUS
  <1>2. lastDone' \in [Workers -> 0..Cooldown]
    BY <1>1 DEF EndRestart, RestartTypes
  <1>3. savedDone' \in 0..Cooldown /\ cooling' \in 0..Cooldown
    BY <1>1 DEF EndRestart, RestartTypes
  <1> QED
    BY <1>2, <1>3 DEF EndRestart, RestartTypes

\* Where stop_server leaves its caller.
LEMMA StopReturnsTypes ==
    ASSUME RestartTypes, CallTypes, NEW j \in Jobs, NEW ok \in BOOLEAN, StopReturns(j, ok)
    PROVE  /\ RestartTypes'
           /\ attempt' \in [Jobs -> 1..MaxAttempts]
           /\ \E l \in {"idle", "restart_gap", "recover_gap"} : Goto(j, l)
  <1>1. attempt' \in [Jobs -> 1..MaxAttempts]
    BY DEF StopReturns, CallTypes
  <1>2. CASE inRestart[j] /\ ~ok
    BY <1>1, <1>2, EndTypes DEF StopReturns
  <1>3. CASE ~(inRestart[j] /\ ~ok)
    BY <1>1, <1>3, RestartTypesUnchanged DEF StopReturns
  <1> QED
    BY <1>2, <1>3

\* Where start_server leaves its caller.
LEMMA StartReturnsTypes ==
    ASSUME RestartTypes, CallTypes, NEW j \in Jobs, NEW result, StartReturns(j, result)
    PROVE  /\ RestartTypes'
           /\ attempt' \in [Jobs -> 1..MaxAttempts]
           /\ \E l \in {"idle", "restart_gap"} : Goto(j, l)
  <1> DEFINE retry == inRestart[j] /\ result = "exited_early" /\ attempt[j] < MaxAttempts
  <1>1. attempt' = [attempt EXCEPT ![j] = IF retry THEN attempt[j] + 1 ELSE 1]
    BY DEF StartReturns
  <1>2. attempt' \in [Jobs -> 1..MaxAttempts]
    BY <1>1 DEF CallTypes
  <1>3. CASE inRestart[j] /\ ~retry
    <2>1. EndRestart(j, result = "ready")
      BY <1>3 DEF StartReturns
    <2> QED
      BY <1>2, <2>1, EndTypes
  <1>4. CASE ~(inRestart[j] /\ ~retry)
    BY <1>2, <1>4, RestartTypesUnchanged DEF StartReturns
  <1> QED
    BY <1>3, <1>4

LEMMA GotoType ==
    ASSUME CallTypes, NEW j \in Jobs, NEW l \in PCs, Goto(j, l)
    PROVE  pc' \in [Jobs -> PCs] /\ pc'[j] = l
  BY DEF CallTypes, Goto

LEMMA EndsCallType ==
    ASSUME CallTypes, NEW j \in Jobs, EndsCall(j)
    PROVE  op' \in [Jobs -> OpNames]
  BY DEF CallTypes, EndsCall, OpNames

LEMMA SnapshotType == Snapshot => pidfile' \in Procs \cup {NoPid}
  BY DEF Snapshot, Visible

LEMMA StatusType == StatusNow \in StatusValues
  BY DEF StatusNow, StatusValues

LEMMA LockType ==
    ASSUME processLock \in [Workers -> Jobs \cup {NoJob}], NEW j \in Jobs
    PROVE  (Acquire(j) \/ Release(j) \/ UNCHANGED processLock)
               => processLock' \in [Workers -> Jobs \cup {NoJob}]
  BY DEF Acquire, Release

--------------------------------------------------------------------------------
\* The actions of one coroutine keep every type.
LEMMA JobTypes ==
    ASSUME TypeOK, NEW j \in Jobs, Client(j) \/ Enter(j) \/ JobStep(j)
    PROVE  TypeOK'
  <1> DEFINE w == WorkerOf[j]
  <1>0. /\ RestartTypes /\ CallTypes /\ w \in Workers
        /\ processLock \in [Workers -> Jobs \cup {NoJob}]
    BY TypeParts DEF TypeOK
  <1>a. \A l \in {"idle", "restart_begin", "restart_gap", "recover_gap", "start_lock",
                  "start_spawn", "start_ready", "stop_lock", "stop_wait"} :
           Goto(j, l) => pc' \in [Jobs -> PCs]
    BY <1>0, GotoType DEF PCs
  <1>b. Invalidate(w) => cache' \in [Workers -> StatusValues]
    BY DEF Invalidate, TypeOK, StatusValues
  <1>1. CASE StartRequest(j)
    BY <1>0, <1>1, <1>a, RestartTypesUnchanged
       DEF StartRequest, Request, TypeOK, RestartTypes, restartVars, OpNames
  <1>2. CASE StopRequest(j)
    BY <1>0, <1>2, <1>a, RestartTypesUnchanged
       DEF StopRequest, Request, TypeOK, RestartTypes, restartVars, OpNames
  <1>3. CASE RestartRequest(j)
    <2>1. RestartTypes' /\ pc' \in [Jobs -> PCs]
      BY <1>0, <1>3, <1>a, EnterTypes DEF RestartRequest
    <2>2. op' \in [Jobs -> OpNames]
      BY <1>3 DEF RestartRequest, TypeOK, OpNames
    <2> QED
      BY <1>3, <2>1, <2>2 DEF RestartRequest, Request, TypeOK, RestartTypes
  <1>4. CASE RecoverRequest(j)
    <2>1. RestartTypes' /\ pc' \in [Jobs -> PCs]
      BY <1>0, <1>4, <1>a, RestartTypesUnchanged DEF RecoverRequest
    <2>2. op' \in [Jobs -> OpNames] /\ pidfile' \in Procs \cup {NoPid}
      BY <1>4, SnapshotType DEF RecoverRequest, TypeOK, OpNames
    <2>3. cache' \in [Workers -> StatusValues]
      BY <1>4, StatusType DEF RecoverRequest, TypeOK
    <2> QED
      BY <1>4, <2>1, <2>2, <2>3 DEF RecoverRequest, Request, TypeOK, RestartTypes
  <1>5. CASE RestartBegin(j) \/ RestartGapEnds(j)
    <2>1. RestartTypes' /\ pc' \in [Jobs -> PCs] /\ op' \in [Jobs -> OpNames]
      BY <1>0, <1>5, <1>a, EndTypes, EndsCallType, RestartTypesUnchanged
         DEF RestartBegin, RestartGapEnds
    <2> QED
      BY <1>5, <2>1 DEF RestartBegin, RestartGapEnds, osVars, TypeOK, RestartTypes
  <1>6. CASE RecoverGapEnds(j)
    <2>1. RestartTypes' /\ pc' \in [Jobs -> PCs] /\ op' \in [Jobs -> OpNames]
      BY <1>0, <1>6, <1>a, EnterTypes, EndsCallType, RestartTypesUnchanged DEF RecoverGapEnds
    <2> QED
      BY <1>6, <2>1 DEF RecoverGapEnds, TypeOK, RestartTypes
  <1>7. CASE StopEnter(j)
    <2>1. /\ op' \in [Jobs -> OpNames]
          /\ pidfile' \in Procs \cup {NoPid}
          /\ cache' \in [Workers -> StatusValues]
          /\ processLock' \in [Workers -> Jobs \cup {NoJob}]
      BY <1>0, <1>7, <1>b, EndsCallType, SnapshotType, LockType DEF StopEnter
    <2>2. seenPid' \in [Jobs -> Procs \cup {NoPid}]
      BY <1>7, <2>1 DEF StopEnter, TypeOK
    <2>3. RestartTypes' /\ pc' \in [Jobs -> PCs] /\ attempt' \in [Jobs -> 1..MaxAttempts]
      <3>1. CASE Running
        BY <1>0, <1>7, <1>a, <3>1, RestartTypesUnchanged DEF StopEnter, CallTypes
      <3>2. CASE ~Running
        <4>1. StopReturns(j, TRUE)
          BY <1>7, <3>2 DEF StopEnter
        <4> QED
          BY <1>0, <1>a, <4>1, StopReturnsTypes
      <3> QED
        BY <3>1, <3>2
    <2> QED
      BY <1>7, <2>1, <2>2, <2>3 DEF StopEnter, TypeOK, RestartTypes
  <1>8. CASE StopSeesExit(j)
    <2>1. /\ op' \in [Jobs -> OpNames]
          /\ cache' \in [Workers -> StatusValues]
          /\ processLock' \in [Workers -> Jobs \cup {NoJob}]
      BY <1>0, <1>8, <1>b, EndsCallType, LockType DEF StopSeesExit
    <2>2. RestartTypes' /\ pc' \in [Jobs -> PCs] /\ attempt' \in [Jobs -> 1..MaxAttempts]
      BY <1>0, <1>8, <1>a, StopReturnsTypes DEF StopSeesExit
    <2> QED
      BY <1>8, <2>1, <2>2 DEF StopSeesExit, TypeOK, RestartTypes
  <1>9. CASE StopGivesUp(j)
    <2>1. /\ op' \in [Jobs -> OpNames]
          /\ cache' \in [Workers -> StatusValues]
          /\ processLock' \in [Workers -> Jobs \cup {NoJob}]
      BY <1>0, <1>9, <1>b, EndsCallType, LockType DEF StopGivesUp, TypeOK
    <2>2. RestartTypes' /\ pc' \in [Jobs -> PCs] /\ attempt' \in [Jobs -> 1..MaxAttempts]
      <3>1. Forced(j) \in BOOLEAN
        BY DEF Forced
      <3> QED
        BY <1>0, <1>9, <1>a, <3>1, StopReturnsTypes DEF StopGivesUp
    <2>3. proc' \in [Procs -> ProcStates] /\ pidfile' \in Procs \cup {NoPid}
      BY <1>9 DEF StopGivesUp, TypeOK, ProcStates
    <2> QED
      BY <1>9, <2>1, <2>2, <2>3 DEF StopGivesUp, TypeOK, RestartTypes
  <1>10. CASE StartEnter(j)
    <2>1. /\ op' \in [Jobs -> OpNames]
          /\ pidfile' \in Procs \cup {NoPid}
          /\ cache' \in [Workers -> StatusValues]
          /\ processLock' \in [Workers -> Jobs \cup {NoJob}]
      BY <1>0, <1>10, <1>b, EndsCallType, SnapshotType, LockType DEF StartEnter
    <2>2. RestartTypes' /\ pc' \in [Jobs -> PCs] /\ attempt' \in [Jobs -> 1..MaxAttempts]
      BY <1>0, <1>10, <1>a, StartReturnsTypes, RestartTypesUnchanged DEF StartEnter, CallTypes
    <2> QED
      BY <1>10, <2>1, <2>2 DEF StartEnter, TypeOK, RestartTypes
  <1>11. CASE StartFails(j)
    <2>1. op' \in [Jobs -> OpNames] /\ processLock' \in [Workers -> Jobs \cup {NoJob}]
      BY <1>0, <1>11, EndsCallType, LockType DEF StartFails
    <2>2. RestartTypes' /\ pc' \in [Jobs -> PCs] /\ attempt' \in [Jobs -> 1..MaxAttempts]
      BY <1>0, <1>11, <1>a, StartReturnsTypes DEF StartFails
    <2> QED
      BY <1>11, <2>1, <2>2 DEF StartFails, osVars, TypeOK, RestartTypes
  <1>12. CASE StartSpawn(j)
    <2>1. /\ op' \in [Jobs -> OpNames]
          /\ cache' \in [Workers -> StatusValues]
          /\ processLock' \in [Workers -> Jobs \cup {NoJob}]
      BY <1>0, <1>12, <1>b, EndsCallType, LockType DEF StartSpawn
    <2>2. RestartTypes' /\ pc' \in [Jobs -> PCs] /\ attempt' \in [Jobs -> 1..MaxAttempts]
      BY <1>0, <1>12, <1>a, StartReturnsTypes, RestartTypesUnchanged DEF StartSpawn, CallTypes
    <2>3. /\ proc' \in [Procs -> ProcStates]
          /\ unwaited' \in [Procs -> BOOLEAN]
          /\ pidfile' \in Procs \cup {NoPid}
      BY <1>12 DEF StartSpawn, TypeOK, ProcStates, Waits
    <2> QED
      BY <1>12, <2>1, <2>2, <2>3 DEF StartSpawn, TypeOK, RestartTypes
  <1>13. CASE ReadyOk(j) \/ ReadyExited(j) \/ ReadyTimesOut(j)
    <2>1. /\ op' \in [Jobs -> OpNames]
          /\ pidfile' \in Procs \cup {NoPid}
          /\ processLock' \in [Workers -> Jobs \cup {NoJob}]
      BY <1>0, <1>13, EndsCallType, SnapshotType, LockType DEF ReadyOk, ReadyExited, ReadyTimesOut
    <2>2. RestartTypes' /\ pc' \in [Jobs -> PCs] /\ attempt' \in [Jobs -> 1..MaxAttempts]
      BY <1>0, <1>13, <1>a, StartReturnsTypes DEF ReadyOk, ReadyExited, ReadyTimesOut
    <2>3. cache' \in [Workers -> StatusValues]
      BY <1>13, StatusType DEF ReadyOk, ReadyExited, ReadyTimesOut, TypeOK, StatusValues
    <2>4. unwaited' \in [Procs -> BOOLEAN]
      BY <1>13 DEF ReadyOk, ReadyExited, ReadyTimesOut, LeftBooting, TypeOK
    <2>5. UNCHANGED <<proc, blocked, seenPid>>
      BY <1>13 DEF ReadyOk, ReadyExited, ReadyTimesOut
    <2> QED
      BY <2>1, <2>2, <2>3, <2>4, <2>5 DEF TypeOK, RestartTypes
  <1> QED
    BY <1>1, <1>2, <1>3, <1>4, <1>5, <1>6, <1>7, <1>8, <1>9, <1>10, <1>11, <1>12, <1>13
       DEF Client, Enter, JobStep

LEMMA AgeType == ASSUME NEW n \in 0..Cooldown PROVE Age(n) \in 0..Cooldown
  BY DEF Age

\* Every variable of the lifecycle keeps its type, in all its interleavings
\* and after every crash.
THEOREM TypeCorrect == Spec => []TypeOK
  <1>1. Init => TypeOK
    <2> SUFFICES ASSUME Init PROVE TypeOK
      OBVIOUS
    <2>1. 0 \in 0..Cooldown /\ 1 \in 1..MaxAttempts
      OBVIOUS
    <2>2. RestartTypes
      BY <2>1 DEF Init, RestartTypes
    <2>3. CallTypes
      BY <2>1 DEF Init, CallTypes, PCs, OpNames
    <2>4. /\ proc \in [Procs -> ProcStates]
          /\ unwaited \in [Procs -> BOOLEAN]
          /\ cache \in [Workers -> StatusValues]
          /\ processLock \in [Workers -> Jobs \cup {NoJob}]
          /\ seenPid \in [Jobs -> Procs \cup {NoPid}]
      BY DEF Init, ProcStates, StatusValues
    <2> QED
      BY <2>2, <2>3, <2>4 DEF Init, TypeOK, RestartTypes, CallTypes
  <1>2. TypeOK /\ [Next]_vars => TypeOK'
    <2> SUFFICES ASSUME TypeOK, [Next]_vars PROVE TypeOK'
      OBVIOUS
    <2>1. ASSUME NEW j \in Jobs, Client(j) \/ Enter(j) \/ JobStep(j) PROVE TypeOK'
      BY <2>1, JobTypes
    <2>2. ASSUME NEW p \in Procs, ProcStep(p) PROVE TypeOK'
      <3>1. proc' \in [Procs -> ProcStates]
        BY <2>2 DEF ProcStep, TypeOK, ProcStates
      <3> QED
        BY <2>2, <3>1 DEF ProcStep, restartVars, jobVars, TypeOK
    <2>3. ASSUME NEW w \in Workers, PollStatus(w) \/ CacheExpires(w) PROVE TypeOK'
      <3>1. cache' \in [Workers -> StatusValues] /\ pidfile' \in Procs \cup {NoPid}
        BY <2>3, SnapshotType, StatusType
           DEF PollStatus, CacheExpires, Invalidate, osVars, TypeOK, StatusValues
      <3> QED
        BY <2>3, <3>1 DEF PollStatus, CacheExpires, osVars, restartVars, jobVars, TypeOK
    <2>4. ASSUME NEW w \in Workers, WorkerCrash(w) PROVE TypeOK'
      <3>1. /\ lastDone' \in [Workers -> 0..Cooldown]
            /\ attempt' \in [Jobs -> 1..MaxAttempts]
            /\ pc' \in [Jobs -> PCs]
            /\ op' \in [Jobs -> OpNames]
        BY <2>4 DEF WorkerCrash, TypeOK, PCs, OpNames
      <3>2. /\ unwaited' \in [Procs -> BOOLEAN]
            /\ inRestart' \in [Jobs -> BOOLEAN]
            /\ cache' \in [Workers -> StatusValues]
            /\ processLock' \in [Workers -> Jobs \cup {NoJob}]
        BY <2>4 DEF WorkerCrash, LeftBooting, TypeOK, StatusValues
      <3>3. /\ restartFlag' \in [Workers -> BOOLEAN]
            /\ restartLock' \in Jobs \cup {NoJob}
            /\ seenPid' \in [Jobs -> Procs \cup {NoPid}]
        BY <2>4 DEF WorkerCrash, TypeOK
      <3> QED
        BY <2>4, <3>1, <3>2, <3>3 DEF WorkerCrash, TypeOK
    <2>5. CASE ToggleBlock
      BY <2>5 DEF ToggleBlock, osVars, restartVars, jobVars, TypeOK
    <2>6. CASE Tick
      <3>1. /\ lastDone' \in [Workers -> 0..Cooldown]
            /\ savedDone' \in 0..Cooldown
            /\ cooling' \in 0..Cooldown
        BY <2>6, AgeType DEF Tick, TypeOK
      <3> QED
        BY <2>6, <3>1 DEF Tick, osVars, jobVars, TypeOK
    <2>7. CASE UNCHANGED vars
      BY <2>7 DEF vars, osVars, restartVars, jobVars, TypeOK
    <2> QED
      BY <2>1, <2>2, <2>3, <2>4, <2>5, <2>6, <2>7 DEF Next
  <1> QED
    BY <1>1, <1>2, PTL DEF Spec

--------------------------------------------------------------------------------
(* The restart guard.                                                      *)

\* restart_server's own labels are only reached past its guard; this makes
\* RestartGuardExact inductive.
GuardInv ==
    /\ RestartGuardExact
    /\ \A j \in Jobs : pc[j] \in {"restart_begin", "restart_gap"} => inRestart[j]

LEMMA GuardGoto ==
    ASSUME CallTypes, RestartTypes, GuardInv, NEW j \in Jobs, NEW l \in PCs,
           Goto(j, l), UNCHANGED restartVars,
           l \in {"restart_begin", "restart_gap"} => inRestart[j]
    PROVE  GuardInv'
  BY DEF Goto, GuardInv, RestartGuardExact, restartVars, CallTypes

LEMMA GuardEnter ==
    ASSUME CallTypes, RestartTypes, GuardInv, NEW j \in Jobs, EnterRestart(j)
    PROVE  GuardInv'
  <1> DEFINE pass == ~restartFlag[WorkerOf[j]] /\ restartLock = NoJob /\ Remembered(WorkerOf[j]) = 0
  <1>1. CASE pass
    <2>1. /\ restartFlag' = [restartFlag EXCEPT ![WorkerOf[j]] = TRUE]
          /\ restartLock' = j
          /\ inRestart' = [inRestart EXCEPT ![j] = TRUE]
          /\ pc' = [pc EXCEPT ![j] = "restart_begin"]
      BY <1>1 DEF EnterRestart, Goto
    <2> QED
      BY <1>1, <2>1 DEF GuardInv, RestartGuardExact, CallTypes, RestartTypes
  <1>2. CASE ~pass
    <2>1. /\ UNCHANGED <<restartFlag, restartLock, inRestart>>
          /\ pc' = [pc EXCEPT ![j] = "idle"]
      BY <1>2 DEF EnterRestart, Goto
    <2> QED
      BY <2>1 DEF GuardInv, RestartGuardExact, CallTypes
  <1> QED
    BY <1>1, <1>2

LEMMA GuardEnd ==
    ASSUME CallTypes, RestartTypes, GuardInv, NEW j \in Jobs, NEW ok \in BOOLEAN,
           inRestart[j], EndRestart(j, ok)
    PROVE  GuardInv'
  <1>1. /\ restartFlag' = [restartFlag EXCEPT ![WorkerOf[j]] = FALSE]
        /\ restartLock' = NoJob
        /\ inRestart' = [inRestart EXCEPT ![j] = FALSE]
        /\ pc' = [pc EXCEPT ![j] = "idle"]
    BY DEF EndRestart, Goto
  <1>2. restartLock = j
    BY DEF GuardInv, RestartGuardExact
  <1>3. \A w \in Workers : ~restartFlag'[w]
    BY <1>1, <1>2 DEF GuardInv, RestartGuardExact, RestartTypes
  <1>4. \A k \in Jobs : ~inRestart'[k]
    BY <1>1, <1>2 DEF GuardInv, RestartGuardExact, RestartTypes
  <1>5. \A k \in Jobs : pc'[k] \in {"restart_begin", "restart_gap"} => inRestart'[k]
    BY <1>1, <1>2 DEF GuardInv, RestartGuardExact, CallTypes, RestartTypes
  <1> QED
    BY <1>1, <1>3, <1>4, <1>5 DEF GuardInv, RestartGuardExact

LEMMA GuardStop ==
    ASSUME CallTypes, RestartTypes, GuardInv, NEW j \in Jobs, NEW ok \in BOOLEAN,
           StopReturns(j, ok)
    PROVE  GuardInv'
  <1>1. CASE inRestart[j] /\ ~ok
    BY <1>1, GuardEnd DEF StopReturns
  <1>2. CASE ~(inRestart[j] /\ ~ok)
    BY <1>2, GuardGoto DEF StopReturns, PCs
  <1> QED
    BY <1>1, <1>2

LEMMA GuardStart ==
    ASSUME CallTypes, RestartTypes, GuardInv, NEW j \in Jobs, NEW result,
           StartReturns(j, result)
    PROVE  GuardInv'
  <1> DEFINE retry == inRestart[j] /\ result = "exited_early" /\ attempt[j] < MaxAttempts
  <1>1. CASE inRestart[j] /\ ~retry
    <2>1. EndRestart(j, result = "ready")
      BY <1>1 DEF StartReturns
    <2> QED
      BY <1>1, <2>1, GuardEnd
  <1>2. CASE ~(inRestart[j] /\ ~retry)
    <2>1. Goto(j, IF retry THEN "restart_gap" ELSE "idle") /\ UNCHANGED restartVars
      BY <1>2 DEF StartReturns
    <2> QED
      BY <2>1, GuardGoto DEF PCs
  <1> QED
    BY <1>1, <1>2

LEMMA GuardJob ==
    ASSUME TypeOK, GuardInv, NEW j \in Jobs, Client(j) \/ Enter(j) \/ JobStep(j)
    PROVE  GuardInv'
  <1>0. CallTypes /\ RestartTypes
    BY TypeParts
  <1>1. CASE StartRequest(j) \/ StopRequest(j)
    BY <1>0, <1>1, GuardGoto DEF StartRequest, StopRequest, PCs
  <1>2. CASE RestartRequest(j)
    BY <1>0, <1>2, GuardEnter DEF RestartRequest
  <1>3. CASE RecoverRequest(j)
    BY <1>0, <1>3, GuardGoto DEF RecoverRequest, PCs
  <1>4. CASE RestartBegin(j) \/ RestartGapEnds(j)
    <2>1. inRestart[j]
      BY <1>4 DEF RestartBegin, RestartGapEnds, GuardInv
    <2> QED
      BY <1>0, <1>4, <2>1, GuardGoto, GuardEnd DEF RestartBegin, RestartGapEnds, PCs
  <1>5. CASE RecoverGapEnds(j)
    BY <1>0, <1>5, GuardGoto, GuardEnter DEF RecoverGapEnds, PCs
  <1>6. CASE StopEnter(j)
    BY <1>0, <1>6, GuardGoto, GuardStop DEF StopEnter, PCs
  <1>7. CASE StopSeesExit(j)
    BY <1>0, <1>7, GuardStop DEF StopSeesExit
  <1>8. CASE StopGivesUp(j)
    <2>1. Forced(j) \in BOOLEAN
      BY DEF Forced
    <2> QED
      BY <1>0, <1>8, <2>1, GuardStop DEF StopGivesUp
  <1>9. CASE StartEnter(j)
    BY <1>0, <1>9, GuardGoto, GuardStart DEF StartEnter, PCs
  <1>10. CASE StartFails(j)
    BY <1>0, <1>10, GuardStart DEF StartFails
  <1>11. CASE StartSpawn(j)
    BY <1>0, <1>11, GuardGoto, GuardStart DEF StartSpawn, PCs
  <1>12. CASE ReadyOk(j) \/ ReadyExited(j) \/ ReadyTimesOut(j)
    BY <1>0, <1>12, GuardStart DEF ReadyOk, ReadyExited, ReadyTimesOut
  <1> QED
    BY <1>1, <1>2, <1>3, <1>4, <1>5, <1>6, <1>7, <1>8, <1>9, <1>10, <1>11, <1>12
       DEF Client, Enter, JobStep

LEMMA GuardInvariant == Spec => []GuardInv
  <1>1. Init => GuardInv
    BY DEF Init, GuardInv, RestartGuardExact
  <1>2. TypeOK /\ GuardInv /\ [Next]_vars => GuardInv'
    <2> SUFFICES ASSUME TypeOK, GuardInv, [Next]_vars PROVE GuardInv'
      OBVIOUS
    <2>1. ASSUME NEW j \in Jobs, Client(j) \/ Enter(j) \/ JobStep(j) PROVE GuardInv'
      BY <2>1, GuardJob
    <2>2. ASSUME UNCHANGED <<pc, inRestart, restartFlag, restartLock>> PROVE GuardInv'
      BY <2>2 DEF GuardInv, RestartGuardExact
    <2>3. ASSUME NEW w \in Workers, WorkerCrash(w) PROVE GuardInv'
      <3> DEFINE gone == {j \in Jobs : WorkerOf[j] = w}
      <3>1. /\ restartFlag' = [restartFlag EXCEPT ![w] = FALSE]
            /\ restartLock' = IF restartLock \in gone THEN NoJob ELSE restartLock
            /\ inRestart' = [j \in Jobs |-> inRestart[j] /\ j \notin gone]
            /\ pc' = [j \in Jobs |-> IF j \in gone THEN "idle" ELSE pc[j]]
        BY <2>3 DEF WorkerCrash
      <3>2. \A j \in Jobs : inRestart'[j] <=> restartLock' = j
        BY <3>1 DEF GuardInv, RestartGuardExact, TypeOK
      <3>3. \A v \in Workers :
               restartFlag'[v] <=> \E j \in Jobs : restartLock' = j /\ WorkerOf[j] = v
        BY <3>1 DEF GuardInv, RestartGuardExact, TypeOK
      <3>4. \A j \in Jobs : pc'[j] \in {"restart_begin", "restart_gap"} => inRestart'[j]
        BY <3>1 DEF GuardInv
      <3> QED
        BY <3>2, <3>3, <3>4 DEF GuardInv, RestartGuardExact
    <2> QED
      BY <2>1, <2>2, <2>3
         DEF Next, ProcStep, PollStatus, CacheExpires, ToggleBlock, Tick, vars, restartVars, jobVars
  <1> QED
    BY <1>1, <1>2, TypeCorrect, PTL DEF Spec

\* restart_server never leaks its flag or its flock, and never runs without
\* them: whatever returns, fails, is refused or crashes.
THEOREM RestartGuardCorrect == Spec => []RestartGuardExact
  <1>1. GuardInv => RestartGuardExact
    BY DEF GuardInv
  <1> QED
    BY <1>1, GuardInvariant, PTL

--------------------------------------------------------------------------------
(* process_lock.                                                           *)

Critical == {"start_spawn", "start_ready", "stop_wait"}

LockTypes == processLock \in [Workers -> Jobs \cup {NoJob}]

\* A coroutine moves between labels of the same kind and the lock stays.
LEMMA LockKept ==
    ASSUME CallTypes, LockTypes, ProcessLockExact, NEW j \in Jobs, NEW l \in PCs, Goto(j, l),
           UNCHANGED processLock, l \in Critical <=> pc[j] \in Critical
    PROVE  ProcessLockExact'
  BY DEF Goto, ProcessLockExact, Critical, CallTypes

LEMMA LockTaken ==
    ASSUME CallTypes, LockTypes, ProcessLockExact, NEW j \in Jobs, NEW l \in Critical, Goto(j, l),
           Acquire(j)
    PROVE  ProcessLockExact'
  BY DEF Goto, Acquire, ProcessLockExact, Critical, CallTypes, LockTypes

LEMMA LockReleased ==
    ASSUME CallTypes, LockTypes, ProcessLockExact, NEW j \in Jobs, NEW l \in PCs \ Critical,
           Goto(j, l), Release(j), pc[j] \in Critical
    PROVE  ProcessLockExact'
  BY DEF Goto, Release, ProcessLockExact, Critical, CallTypes, LockTypes

LEMMA LockJob ==
    ASSUME TypeOK, ProcessLockExact, NEW j \in Jobs, Client(j) \/ Enter(j) \/ JobStep(j)
    PROVE  ProcessLockExact'
  <1>0. CallTypes /\ RestartTypes /\ LockTypes
    BY TypeParts DEF TypeOK, LockTypes
  <1>a. {"idle", "restart_begin", "restart_gap", "recover_gap", "start_lock", "stop_lock"}
            \subseteq PCs \ Critical
    BY DEF PCs, Critical
  <1>b. Critical \subseteq PCs
    BY DEF PCs, Critical
  <1>1. CASE StartRequest(j) \/ StopRequest(j)
    BY <1>0, <1>1, <1>a, LockKept DEF StartRequest, StopRequest, Request
  <1>2. CASE RestartRequest(j)
    BY <1>0, <1>2, <1>a, EnterTypes, LockKept DEF RestartRequest, Request
  <1>3. CASE RecoverRequest(j)
    BY <1>0, <1>3, <1>a, LockKept DEF RecoverRequest, Request
  <1>4. CASE RestartBegin(j) \/ RestartGapEnds(j)
    BY <1>0, <1>4, <1>a, EndTypes, LockKept DEF RestartBegin, RestartGapEnds
  <1>5. CASE RecoverGapEnds(j)
    BY <1>0, <1>5, <1>a, EnterTypes, LockKept DEF RecoverGapEnds
  <1>6. CASE StopEnter(j)
    <2>1. CASE Running
      BY <1>0, <1>6, <2>1, LockTaken DEF StopEnter, Critical
    <2>2. CASE ~Running
      <3>1. StopReturns(j, TRUE) /\ UNCHANGED processLock /\ pc[j] \notin Critical
        BY <1>6, <2>2 DEF StopEnter, Critical
      <3> QED
        BY <1>0, <1>a, <3>1, StopReturnsTypes, LockKept
    <2> QED
      BY <2>1, <2>2
  <1>7. CASE StopSeesExit(j)
    <2>1. StopReturns(j, TRUE) /\ Release(j) /\ pc[j] \in Critical
      BY <1>7 DEF StopSeesExit, Critical
    <2> QED
      BY <1>0, <1>a, <2>1, StopReturnsTypes, LockReleased
  <1>8. CASE StopGivesUp(j)
    <2>1. StopReturns(j, Forced(j)) /\ Release(j) /\ pc[j] \in Critical /\ Forced(j) \in BOOLEAN
      BY <1>8 DEF StopGivesUp, Critical, Forced
    <2> QED
      BY <1>0, <1>a, <2>1, StopReturnsTypes, LockReleased
  <1>9. CASE StartEnter(j)
    <2>1. CASE Running
      <3>1. StartReturns(j, "already_running") /\ UNCHANGED processLock /\ pc[j] \notin Critical
        BY <1>9, <2>1 DEF StartEnter, Critical
      <3> QED
        BY <1>0, <1>a, <3>1, StartReturnsTypes, LockKept
    <2>2. CASE ~Running
      BY <1>0, <1>9, <2>2, LockTaken DEF StartEnter, Critical
    <2> QED
      BY <2>1, <2>2
  <1>10. CASE StartFails(j)
    <2>1. StartReturns(j, "failed") /\ Release(j) /\ pc[j] \in Critical
      BY <1>10 DEF StartFails, Critical
    <2> QED
      BY <1>0, <1>a, <2>1, StartReturnsTypes, LockReleased
  <1>11. CASE StartSpawn(j)
    <2>1. CASE Waits(j)
      BY <1>0, <1>11, <1>b, <2>1, LockKept DEF StartSpawn, Critical
    <2>2. CASE ~Waits(j)
      <3>1. StartReturns(j, "launched") /\ Release(j) /\ pc[j] \in Critical
        BY <1>11, <2>2 DEF StartSpawn, Critical
      <3> QED
        BY <1>0, <1>a, <3>1, StartReturnsTypes, LockReleased
    <2> QED
      BY <2>1, <2>2
  <1>12. CASE ReadyOk(j) \/ ReadyExited(j) \/ ReadyTimesOut(j)
    <2>1. /\ \E r \in {"ready", "exited_early", "timeout"} : StartReturns(j, r)
          /\ Release(j) /\ pc[j] \in Critical
      BY <1>12 DEF ReadyOk, ReadyExited, ReadyTimesOut, Critical
    <2> QED
      BY <1>0, <1>a, <2>1, StartReturnsTypes, LockReleased
  <1> QED
    BY <1>1, <1>2, <1>3, <1>4, <1>5, <1>6, <1>7, <1>8, <1>9, <1>10, <1>11, <1>12
       DEF Client, Enter, JobStep

\* In a worker one coroutine at a time launches, awaits or stops the server,
\* and none keeps process_lock once it does not.
THEOREM ProcessLockCorrect == Spec => []ProcessLockExact
  <1>1. Init => ProcessLockExact
    BY DEF Init, ProcessLockExact
  <1>2. TypeOK /\ ProcessLockExact /\ [Next]_vars => ProcessLockExact'
    <2> SUFFICES ASSUME TypeOK, ProcessLockExact, [Next]_vars PROVE ProcessLockExact'
      OBVIOUS
    <2>1. ASSUME NEW j \in Jobs, Client(j) \/ Enter(j) \/ JobStep(j) PROVE ProcessLockExact'
      BY <2>1, LockJob
    <2>2. ASSUME UNCHANGED <<pc, processLock>> PROVE ProcessLockExact'
      BY <2>2 DEF ProcessLockExact
    <2>3. ASSUME NEW w \in Workers, WorkerCrash(w) PROVE ProcessLockExact'
      <3> SUFFICES ASSUME NEW j \in Jobs
                   PROVE  (pc[j] \in Critical <=> processLock[WorkerOf[j]] = j)'
        BY DEF ProcessLockExact, Critical
      <3>1. CASE WorkerOf[j] = w
        BY <2>3, <3>1 DEF WorkerCrash, TypeOK, Critical
      <3>2. CASE WorkerOf[j] # w
        BY <2>3, <3>2 DEF WorkerCrash, TypeOK, ProcessLockExact, Critical
      <3> QED
        BY <3>1, <3>2
    <2> QED
      BY <2>1, <2>2, <2>3
         DEF Next, ProcStep, PollStatus, CacheExpires, ToggleBlock, Tick, vars, jobVars
  <1> QED
    BY <1>1, <1>2, TypeCorrect, PTL DEF Spec

--------------------------------------------------------------------------------
(* Two servers, when all coroutines run in one worker.                     *)

SingleWorker == \A i, j \in Jobs : WorkerOf[i] = WorkerOf[j]

\* A launch that found no server finds only scripts that nobody waits for; a script
\* that a start still waits for has one that waits.
LaunchInv ==
    /\ TwoServersNeedUnwaitedStart
    /\ \A j \in Jobs, p \in Procs : pc[j] = "start_spawn" /\ proc[p] # "none" => unwaited[p]
    /\ \A p \in Procs : proc[p] = "sh" /\ ~unwaited[p] => \E j \in Jobs : pc[j] = "start_ready"

\* A coroutine neither enters nor leaves a launch, and no process appears.
LEMMA LaunchCalm ==
    ASSUME CallTypes, LaunchInv, NEW j \in Jobs, NEW l \in PCs \ {"start_spawn", "start_ready"},
           Goto(j, l), pc[j] # "start_ready", UNCHANGED unwaited,
           \A p \in Procs : proc'[p] \in {proc[p], "none"}
    PROVE  LaunchInv'
  <1>1. \A i \in Jobs : pc'[i] = "start_spawn" => pc[i] = "start_spawn"
    BY DEF CallTypes, Goto
  <1>2. \A i \in Jobs : pc[i] = "start_ready" => pc'[i] = "start_ready"
    BY DEF CallTypes, Goto
  <1>3. TwoServersNeedUnwaitedStart'
    BY DEF LaunchInv, TwoServersNeedUnwaitedStart
  <1>4. (\A i \in Jobs, p \in Procs : pc[i] = "start_spawn" /\ proc[p] # "none" => unwaited[p])'
    BY <1>1 DEF LaunchInv
  <1>5. (\A p \in Procs : proc[p] = "sh" /\ ~unwaited[p] => \E i \in Jobs : pc[i] = "start_ready")'
    BY <1>2 DEF LaunchInv
  <1> QED
    BY <1>3, <1>4, <1>5 DEF LaunchInv

\* The waiting is over: scripts that are still booting count as not waited for.
LEMMA LaunchLeft ==
    ASSUME TypeOK, LaunchInv, UNCHANGED proc, unwaited' = LeftBooting,
           \A i \in Jobs : pc'[i] = "start_spawn" => pc[i] = "start_spawn"
    PROVE  LaunchInv'
  <1>0. unwaited \in [Procs -> BOOLEAN] /\ unwaited' \in [Procs -> BOOLEAN]
    BY DEF TypeOK, LeftBooting
  <1>1. \A p \in Procs : /\ unwaited[p] => unwaited'[p]
                         /\ proc'[p] = "sh" => unwaited'[p]
    BY <1>0 DEF LeftBooting
  <1>2. TwoServersNeedUnwaitedStart'
    BY <1>0, <1>1 DEF LaunchInv, TwoServersNeedUnwaitedStart
  <1>3. (\A i \in Jobs, p \in Procs : pc[i] = "start_spawn" /\ proc[p] # "none" => unwaited[p])'
    BY <1>0, <1>1 DEF LaunchInv
  <1>4. (\A p \in Procs : proc[p] = "sh" /\ ~unwaited[p] => \E i \in Jobs : pc[i] = "start_ready")'
    BY <1>0, <1>1
  <1> QED
    BY <1>2, <1>3, <1>4 DEF LaunchInv

LEMMA LaunchJob ==
    ASSUME SingleWorker, TypeOK, ProcessLockExact, LaunchInv,
           NEW j \in Jobs, Client(j) \/ Enter(j) \/ JobStep(j)
    PROVE  LaunchInv'
  <1>0. /\ CallTypes /\ RestartTypes /\ proc \in [Procs -> ProcStates]
        /\ unwaited \in [Procs -> BOOLEAN]
    BY TypeParts DEF TypeOK
  <1>a. {"idle", "restart_begin", "restart_gap", "recover_gap", "start_lock", "stop_lock", "stop_wait"}
            \subseteq PCs \ {"start_spawn", "start_ready"}
    BY DEF PCs
  <1>1. CASE StartRequest(j) \/ StopRequest(j)
    BY <1>0, <1>1, <1>a, LaunchCalm DEF StartRequest, StopRequest, Request
  <1>2. CASE RestartRequest(j)
    BY <1>0, <1>2, <1>a, EnterTypes, LaunchCalm DEF RestartRequest, Request
  <1>3. CASE RecoverRequest(j)
    BY <1>0, <1>3, <1>a, LaunchCalm DEF RecoverRequest, Request
  <1>4. CASE RestartBegin(j) \/ RestartGapEnds(j)
    BY <1>0, <1>4, <1>a, EndTypes, LaunchCalm DEF RestartBegin, RestartGapEnds, osVars
  <1>5. CASE RecoverGapEnds(j)
    BY <1>0, <1>5, <1>a, EnterTypes, LaunchCalm DEF RecoverGapEnds
  <1>6. CASE StopEnter(j)
    <2>1. CASE Running
      BY <1>0, <1>6, <1>a, <2>1, LaunchCalm DEF StopEnter
    <2>2. CASE ~Running
      <3>1. StopReturns(j, TRUE) /\ UNCHANGED <<proc, unwaited>> /\ pc[j] # "start_ready"
        BY <1>6, <2>2 DEF StopEnter
      <3> QED
        BY <1>0, <1>a, <3>1, StopReturnsTypes, LaunchCalm
    <2> QED
      BY <2>1, <2>2
  <1>7. CASE StopSeesExit(j)
    <2>1. StopReturns(j, TRUE) /\ UNCHANGED <<proc, unwaited>> /\ pc[j] # "start_ready"
      BY <1>7 DEF StopSeesExit
    <2> QED
      BY <1>0, <1>a, <2>1, StopReturnsTypes, LaunchCalm
  <1>8. CASE StopGivesUp(j)
    <2>1. StopReturns(j, Forced(j)) /\ UNCHANGED unwaited /\ pc[j] # "start_ready" /\ Forced(j) \in BOOLEAN
      BY <1>8 DEF StopGivesUp, Forced
    <2>2. \A p \in Procs : proc'[p] \in {proc[p], "none"}
      BY <1>8 DEF StopGivesUp
    <2> QED
      BY <1>0, <1>a, <2>1, <2>2, StopReturnsTypes, LaunchCalm
  <1>9. CASE StartEnter(j)
    <2>1. CASE Running
      <3>1. StartReturns(j, "already_running") /\ UNCHANGED <<proc, unwaited>> /\ pc[j] # "start_ready"
        BY <1>9, <2>1 DEF StartEnter
      <3> QED
        BY <1>0, <1>a, <3>1, StartReturnsTypes, LaunchCalm
    <2>2. CASE ~Running
      <3>1. /\ processLock[WorkerOf[j]] = NoJob /\ Goto(j, "start_spawn")
            /\ UNCHANGED <<proc, unwaited>>
        BY <1>9, <2>2 DEF StartEnter, Acquire
      <3>2. \A i \in Jobs : pc[i] # "start_ready"
        BY <3>1 DEF SingleWorker, ProcessLockExact
      <3>3. \A p \in Procs : proc[p] # "none" => unwaited[p]
        <4>1. \A p \in Procs : proc[p] # "none" => proc[p] = "sh"
          BY <1>0, <2>2 DEF Running, Visible, ProcStates
        <4> QED
          BY <1>0, <3>2, <4>1 DEF LaunchInv
      <3> QED
        BY <3>1, <3>3 DEF LaunchInv, TwoServersNeedUnwaitedStart
    <2> QED
      BY <2>1, <2>2
  <1>10. CASE StartFails(j)
    <2>1. StartReturns(j, "failed") /\ UNCHANGED <<proc, unwaited>> /\ pc[j] # "start_ready"
      BY <1>10 DEF StartFails, osVars
    <2> QED
      BY <1>0, <1>a, <2>1, StartReturnsTypes, LaunchCalm
  <1>11. CASE StartSpawn(j)
    <2>1. PICK q \in Procs : /\ proc[q] = "none"
                             /\ proc' = [proc EXCEPT ![q] = "sh"]
                             /\ unwaited' = [unwaited EXCEPT ![q] = ~Waits(j)]
      BY <1>11 DEF StartSpawn
    <2>2. \A p \in Procs : p # q => proc'[p] = proc[p] /\ unwaited'[p] = unwaited[p]
      BY <1>0, <2>1
    <2>3. \A p \in Procs : p # q /\ proc'[p] # "none" => unwaited'[p]
      BY <1>11, <2>2 DEF StartSpawn, LaunchInv
    <2>4. \A i \in Jobs : pc'[i] # "start_spawn"
      <3>1. pc[j] = "start_spawn"
        BY <1>11 DEF StartSpawn
      <3>2. \A i \in Jobs : i # j => pc[i] # "start_spawn"
        BY <3>1 DEF SingleWorker, ProcessLockExact
      <3>3. \E l \in {"start_ready", "idle", "restart_gap"} : Goto(j, l)
        BY <1>0, <1>11, StartReturnsTypes DEF StartSpawn
      <3> QED
        BY <1>0, <3>2, <3>3 DEF Goto, CallTypes
    <2>5. unwaited'[q] \/ pc'[j] = "start_ready"
      <3>1. CASE Waits(j)
        BY <1>0, <1>11, <3>1 DEF StartSpawn, Goto, CallTypes
      <3>2. CASE ~Waits(j)
        BY <1>0, <2>1, <3>2
      <3> QED
        BY <3>1, <3>2
    <2>6. TwoServersNeedUnwaitedStart'
      BY <2>3 DEF TwoServersNeedUnwaitedStart
    <2>7. (\A p \in Procs : proc[p] = "sh" /\ ~unwaited[p] => \E i \in Jobs : pc[i] = "start_ready")'
      BY <2>3, <2>5
    <2> QED
      BY <2>4, <2>6, <2>7 DEF LaunchInv
  <1>12. CASE ReadyOk(j) \/ ReadyExited(j) \/ ReadyTimesOut(j)
    <2>1. /\ \E r \in {"ready", "exited_early", "timeout"} : StartReturns(j, r)
          /\ UNCHANGED proc /\ unwaited' = LeftBooting
      BY <1>12 DEF ReadyOk, ReadyExited, ReadyTimesOut
    <2>2. \A i \in Jobs : pc'[i] = "start_spawn" => pc[i] = "start_spawn"
      BY <1>0, <2>1, StartReturnsTypes DEF Goto, CallTypes
    <2> QED
      BY <2>1, <2>2, LaunchLeft
  <1> QED
    BY <1>1, <1>2, <1>3, <1>4, <1>5, <1>6, <1>7, <1>8, <1>9, <1>10, <1>11, <1>12
       DEF Client, Enter, JobStep

\* With one worker two servers live side by side only if one of them was launched
\* by a start that did not see it through its boot.
THEOREM TwoServersCorrect ==
    ASSUME SingleWorker
    PROVE  Spec => []TwoServersNeedUnwaitedStart
  <1>1. Init => LaunchInv
    BY DEF Init, LaunchInv, TwoServersNeedUnwaitedStart
  <1>2. TypeOK /\ ProcessLockExact /\ LaunchInv /\ [Next]_vars => LaunchInv'
    <2> SUFFICES ASSUME TypeOK, ProcessLockExact, LaunchInv, [Next]_vars PROVE LaunchInv'
      OBVIOUS
    <2>1. ASSUME NEW j \in Jobs, Client(j) \/ Enter(j) \/ JobStep(j) PROVE LaunchInv'
      BY <2>1, LaunchJob
    <2>2. ASSUME NEW p \in Procs, ProcStep(p) PROVE LaunchInv'
      <3>1. /\ UNCHANGED <<unwaited, pc>>
            /\ \A q \in Procs : /\ proc'[q] # "none" => proc[q] # "none"
                                /\ proc'[q] = "sh" => proc[q] = "sh"
        BY <2>2 DEF ProcStep, jobVars, TypeOK
      <3> QED
        BY <3>1 DEF LaunchInv, TwoServersNeedUnwaitedStart, TypeOK
    <2>3. ASSUME NEW w \in Workers, WorkerCrash(w) PROVE LaunchInv'
      BY <2>3, LaunchLeft DEF WorkerCrash
    <2>4. ASSUME UNCHANGED <<proc, unwaited, pc>> PROVE LaunchInv'
      BY <2>4 DEF LaunchInv, TwoServersNeedUnwaitedStart
    <2> QED
      BY <2>1, <2>2, <2>3, <2>4
         DEF Next, PollStatus, CacheExpires, ToggleBlock, Tick, vars, osVars, jobVars
  <1>3. LaunchInv => TwoServersNeedUnwaitedStart
    BY DEF LaunchInv
  <1> QED
    BY <1>1, <1>2, <1>3, TypeCorrect, ProcessLockCorrect, PTL DEF Spec

--------------------------------------------------------------------------------
(* Restarts implement RestartGate when every write of the state file       *)
(* succeeds, or one worker makes all the calls and is not killed.          *)

\* One worker that is not killed makes the calls.
Alone == SingleWorker /\ \A j \in Jobs : WorkerOf[j] \notin Crashable

\* The cooldown that RestartGate speaks of is in the state file; or it is in the
\* memory of the one worker, and no longer one in the file, which a failed save
\* leaves as it is.
Saved == savedDone = cooling
InMemory == savedDone <= cooling /\ \A j \in Jobs : lastDone[WorkerOf[j]] = cooling
Known == \/ SaveOutcomes = {TRUE} /\ Saved
         \/ Alone /\ InMemory

\* A restart either enters the gate or leaves everything it speaks of alone.
LEMMA GateEnter ==
    ASSUME RestartTypes, Known, NEW j \in Jobs, EnterRestart(j)
    PROVE  Known' /\ [Gate!Next]_(Gate!gateVars)
  <1> DEFINE w == WorkerOf[j]
  <1>1. lastDone[w] \in Nat /\ savedDone \in Nat /\ cooling \in Nat
    BY ConstantsAssumption DEF RestartTypes
  <1>2. Known'
    <2>1. cooling' = cooling /\ savedDone' = savedDone
      BY DEF EnterRestart
    <2>2. CASE SaveOutcomes = {TRUE} /\ Saved
      BY <2>1, <2>2 DEF Known, Saved
    <2>3. CASE Alone /\ InMemory
      <3>1. Remembered(w) = lastDone[w]
        BY <1>1, <2>3 DEF InMemory, Remembered, MaxOf
      <3>2. lastDone' = lastDone
        BY <3>1 DEF EnterRestart, RestartTypes
      <3> QED
        BY <2>1, <2>3, <3>2 DEF Known, InMemory
    <2> QED
      BY <2>2, <2>3 DEF Known
  <1>3. Remembered(w) = 0 => cooling = 0
    <2>1. CASE Saved
      BY <1>1, <2>1 DEF Saved, Remembered, MaxOf
    <2>2. CASE InMemory
      BY <1>1, <2>2 DEF InMemory, Remembered, MaxOf
    <2> QED
      BY <2>1, <2>2 DEF Known
  <1>4. CASE restartLock' = restartLock
    BY <1>2, <1>4 DEF EnterRestart, Gate!gateVars
  <1>5. CASE restartLock' # restartLock
    <2>1. restartLock = NoJob /\ restartLock' = j /\ Remembered(w) = 0
      BY <1>5 DEF EnterRestart
    <2>2. cooling = 0 /\ cooling' = 0 /\ j # NoJob
      BY <1>3, <2>1, ConstantsAssumption DEF EnterRestart
    <2> QED
      BY <1>2, <2>1, <2>2 DEF Gate!Next, Gate!Begin
  <1> QED
    BY <1>4, <1>5

LEMMA GateEnd ==
    ASSUME RestartTypes, Known, GuardInv, NEW j \in Jobs,
           NEW ok \in BOOLEAN, inRestart[j], EndRestart(j, ok)
    PROVE  Known' /\ [Gate!Next]_(Gate!gateVars)
  <1> DEFINE w == WorkerOf[j]
  <1>1. restartLock = j /\ j # NoJob /\ restartLock' = NoJob
    BY DEF GuardInv, RestartGuardExact, EndRestart
  <1>2. cooling' = (IF ok THEN Cooldown ELSE cooling) /\ savedDone' \in {savedDone, IF ok THEN Cooldown ELSE savedDone}
    BY DEF EndRestart
  <1>3. Known'
    <2>1. CASE SaveOutcomes = {TRUE} /\ Saved
      BY <2>1 DEF Known, Saved, EndRestart
    <2>2. CASE Alone /\ InMemory
      <3>1. savedDone' <= cooling'
        BY <1>2, <2>2, ConstantsAssumption DEF InMemory, RestartTypes
      <3>2. ASSUME NEW k \in Jobs PROVE lastDone'[WorkerOf[k]] = cooling'
        <4>1. WorkerOf[k] = w /\ w \in Workers /\ lastDone[w] = cooling
          BY <2>2, ConstantsAssumption DEF Alone, SingleWorker, InMemory
        <4> QED
          BY <1>2, <4>1 DEF EndRestart, RestartTypes
      <3> QED
        BY <2>2, <3>1, <3>2 DEF Known, InMemory
    <2> QED
      BY <2>1, <2>2 DEF Known
  <1> QED
    BY <1>1, <1>2, <1>3 DEF Gate!Next, Gate!End

LEMMA GateStutter ==
    ASSUME Known, UNCHANGED restartVars
    PROVE  Known' /\ [Gate!Next]_(Gate!gateVars)
  BY DEF Known, Saved, InMemory, restartVars, Gate!gateVars

LEMMA GateStop ==
    ASSUME RestartTypes, Known, GuardInv, NEW j \in Jobs,
           NEW ok \in BOOLEAN, StopReturns(j, ok)
    PROVE  Known' /\ [Gate!Next]_(Gate!gateVars)
  BY GateEnd, GateStutter DEF StopReturns

LEMMA GateStart ==
    ASSUME RestartTypes, Known, GuardInv, NEW j \in Jobs,
           NEW result, StartReturns(j, result)
    PROVE  Known' /\ [Gate!Next]_(Gate!gateVars)
  <1> DEFINE retry == inRestart[j] /\ result = "exited_early" /\ attempt[j] < MaxAttempts
  <1>1. CASE inRestart[j] /\ ~retry
    <2>1. EndRestart(j, result = "ready")
      BY <1>1 DEF StartReturns
    <2> QED
      BY <1>1, <2>1, GateEnd
  <1>2. CASE ~(inRestart[j] /\ ~retry)
    BY <1>2, GateStutter DEF StartReturns
  <1> QED
    BY <1>1, <1>2

LEMMA GateJob ==
    ASSUME TypeOK, Known, GuardInv, NEW j \in Jobs,
           Client(j) \/ Enter(j) \/ JobStep(j)
    PROVE  Known' /\ [Gate!Next]_(Gate!gateVars)
  <1>0. RestartTypes
    BY TypeParts
  <1>1. CASE Client(j)
    BY <1>0, <1>1, GateEnter, GateStutter
       DEF Client, StartRequest, StopRequest, RestartRequest, RecoverRequest
  <1>2. CASE RestartBegin(j) \/ RestartGapEnds(j)
    <2>1. inRestart[j]
      BY <1>2 DEF RestartBegin, RestartGapEnds, GuardInv
    <2> QED
      BY <1>0, <1>2, <2>1, GateEnd, GateStutter DEF RestartBegin, RestartGapEnds
  <1>3. CASE RecoverGapEnds(j)
    BY <1>0, <1>3, GateEnter, GateStutter DEF RecoverGapEnds
  <1>4. CASE StopEnter(j) \/ StopSeesExit(j)
    BY <1>0, <1>4, GateStop, GateStutter DEF StopEnter, StopSeesExit
  <1>5. CASE StopGivesUp(j)
    <2>1. Forced(j) \in BOOLEAN
      BY DEF Forced
    <2> QED
      BY <1>0, <1>5, <2>1, GateStop DEF StopGivesUp
  <1>6. CASE StartEnter(j) \/ StartFails(j) \/ StartSpawn(j)
    BY <1>0, <1>6, GateStart, GateStutter DEF StartEnter, StartFails, StartSpawn
  <1>7. CASE ReadyOk(j) \/ ReadyExited(j) \/ ReadyTimesOut(j)
    BY <1>0, <1>7, GateStart DEF ReadyOk, ReadyExited, ReadyTimesOut
  <1> QED
    BY <1>1, <1>2, <1>3, <1>4, <1>5, <1>6, <1>7 DEF Enter, JobStep

LEMMA GateStep ==
    ASSUME TypeOK, Known, GuardInv, [Next]_vars
    PROVE  Known' /\ [Gate!Next]_(Gate!gateVars)
  <1>1. ASSUME NEW j \in Jobs, Client(j) \/ Enter(j) \/ JobStep(j)
        PROVE  Known' /\ [Gate!Next]_(Gate!gateVars)
    BY <1>1, GateJob
  <1>2. ASSUME NEW w \in Workers, WorkerCrash(w)
        PROVE  Known' /\ [Gate!Next]_(Gate!gateVars)
    <2>1. restartLock' \in {restartLock, NoJob} /\ cooling' = cooling /\ savedDone' = savedDone
      BY <1>2 DEF WorkerCrash
    <2>2. Known'
      <3>1. CASE SaveOutcomes = {TRUE} /\ Saved
        BY <2>1, <3>1 DEF Known, Saved
      <3>2. CASE Alone /\ InMemory
        <4>1. \A j \in Jobs : WorkerOf[j] # w
          BY <1>2, <3>2 DEF Alone, WorkerCrash
        <4>2. \A j \in Jobs : lastDone'[WorkerOf[j]] = lastDone[WorkerOf[j]]
          BY <1>2, <4>1, TypeParts, ConstantsAssumption DEF WorkerCrash, RestartTypes
        <4> QED
          BY <2>1, <3>2, <4>2 DEF Known, InMemory
      <3> QED
        BY <3>1, <3>2 DEF Known
    <2> QED
      BY <2>1, <2>2 DEF Gate!gateVars, Gate!Next, Gate!End
  <1>3. CASE Tick
    <2>1. cooling' = Age(cooling) /\ savedDone' = Age(savedDone) /\ restartLock' = restartLock
      BY <1>3 DEF Tick
    <2>2. cooling \in 0..Cooldown /\ savedDone \in 0..Cooldown
      BY DEF TypeOK
    <2>5. Known'
      <3>1. CASE SaveOutcomes = {TRUE} /\ Saved
        BY <2>1, <3>1 DEF Known, Saved
      <3>2. CASE Alone /\ InMemory
        <4>1. \A j \in Jobs : lastDone'[WorkerOf[j]] = Age(lastDone[WorkerOf[j]])
          BY <1>3, ConstantsAssumption DEF Tick
        <4>2. savedDone' <= cooling'
          BY <2>1, <2>2, <3>2, ConstantsAssumption DEF InMemory, Age
        <4> QED
          BY <2>1, <3>2, <4>1, <4>2 DEF Known, InMemory
      <3> QED
        BY <3>1, <3>2 DEF Known
    <2>3. CASE cooling = 0
      BY <2>1, <2>3, <2>5 DEF Age, Gate!gateVars
    <2>4. CASE cooling # 0
      <3>1. cooling > 0 /\ cooling' = cooling - 1
        BY <2>1, <2>2, <2>4 DEF Age
      <3> QED
        BY <2>1, <2>5, <3>1 DEF Gate!Next, Gate!Tick
    <2> QED
      BY <2>3, <2>4
  <1>4. ASSUME UNCHANGED restartVars PROVE Known' /\ [Gate!Next]_(Gate!gateVars)
    BY <1>4, GateStutter
  <1> QED
    BY <1>1, <1>2, <1>3, <1>4
       DEF Next, ProcStep, PollStatus, CacheExpires, ToggleBlock, vars

\* Restarts happen one at a time and keep the cooldown: across all workers and
\* through their crashes, as long as the state file can be written; and of one
\* worker that is not killed whether or not it can.
THEOREM RestartGateCorrect ==
    ASSUME SaveOutcomes = {TRUE} \/ Alone
    PROVE  Spec => RestartGateHolds
  <1>1. Init => Known /\ GuardInv /\ Gate!Init
    <2> SUFFICES ASSUME Init PROVE Known /\ GuardInv /\ Gate!Init
      OBVIOUS
    <2>1. Saved /\ InMemory
      BY ConstantsAssumption DEF Init, Saved, InMemory
    <2>2. GuardInv /\ Gate!Init
      BY DEF Init, GuardInv, RestartGuardExact, Gate!Init
    <2> QED
      BY <2>1, <2>2 DEF Known
  <1>2. TypeOK /\ GuardInv /\ Known /\ [Next]_vars => Known' /\ [Gate!Next]_(Gate!gateVars)
    BY GateStep
  <1>3. Spec => []GuardInv
    BY GuardInvariant
  <1> QED
    BY <1>1, <1>2, <1>3, TypeCorrect, PTL DEF Spec, RestartGateHolds, Gate!Spec
================================================================================
