---------------------------- MODULE ServerLifecycle ----------------------------
(***************************************************************************)
(* The Minecraft server's lifecycle as ServerManager runs it               *)
(* (services/minecraft_server.py).                                         *)
(*                                                                         *)
(* A job is a coroutine that calls start_server, stop_server,              *)
(* restart_server or recover_server; the coroutines of one worker process  *)
(* share its asyncio process_lock, restart flag, remembered timestamp and  *)
(* status cache, and all workers share the restart lock file, the restart  *)
(* state file, the pid file and the operating system's processes.  A step  *)
(* of a job is the code between two awaits that can suspend it.            *)
(*                                                                         *)
(* A launched server is first the shell that runs start.sh, which neither  *)
(* the pid-file check nor pgrep recognises, then a visible Java process,   *)
(* then one whose game port and RCON answer.                               *)
(***************************************************************************)
EXTENDS Naturals, FiniteSets

CONSTANTS
    Workers,        \* the dashboard's worker processes
    Jobs,           \* coroutines
    WorkerOf,       \* the worker each coroutine runs in
    Procs,          \* slots for operating-system processes (bounds the model)
    NoJob, NoPid,   \* nobody holds the lock; no pid file
    Ops,            \* the calls the jobs make
    MaxAttempts,    \* RESTART_START_RETRIES + 1
    Cooldown,       \* RESTART_COOLDOWN_SECONDS, in ticks
    SaveOutcomes,   \* may writing the restart state file fail?
    Crashable       \* the workers that may be killed and started again

OpNames == {"none", "start", "startwait", "stop", "force", "restart", "recover"}

ASSUME ConstantsAssumption ==
    /\ WorkerOf \in [Jobs -> Workers]
    /\ NoJob \notin Jobs
    /\ NoPid \notin Procs
    /\ Ops \subseteq OpNames \ {"none"}
    /\ MaxAttempts \in Nat \ {0}
    /\ Cooldown \in Nat \ {0}
    /\ SaveOutcomes \subseteq BOOLEAN
    /\ SaveOutcomes # {}
    /\ Crashable \subseteq Workers

VARIABLES
    proc,           \* state of each process slot
    unwaited,       \* history: no start waits, or waited, until the slot's server was visible
    pidfile,        \* the process server.pid names
    blocked,        \* the active profile refuses lifecycle operations
    cache,          \* each worker's status snapshot
    processLock,    \* holder of each worker's process_lock
    restartFlag,    \* each worker's restart_in_progress
    restartLock,    \* holder of the flock on minecraft_restart.lock
    lastDone,       \* each worker's last_restart_completed_at: cooldown ticks it still imposes
    savedDone,      \* the same for the timestamp in minecraft_restart_state.json
    cooling,        \* history: the same for the last restart that did succeed
    pc, op,         \* where each job is, and the call it makes
    inRestart,      \* the job is inside restart_server, past its guard
    attempt,        \* start attempts of the job's restart
    seenPid         \* the pid the job's stop_server read

osVars      == <<proc, unwaited, pidfile>>
restartVars == <<restartFlag, restartLock, lastDone, savedDone, cooling, inRestart>>
jobVars     == <<pc, op, attempt, seenPid>>
vars == <<osVars, blocked, cache, processLock, restartVars, jobVars>>

ProcStates   == {"none", "sh", "up", "ready"}
StatusValues == {"unknown", "down", "degraded", "healthy"}
PCs == {"idle", "start_lock", "start_spawn", "start_ready", "stop_lock", "stop_wait",
        "restart_begin", "restart_gap", "recover_gap"}

TypeOK ==
    /\ proc \in [Procs -> ProcStates]
    /\ unwaited \in [Procs -> BOOLEAN]
    /\ pidfile \in Procs \cup {NoPid}
    /\ blocked \in BOOLEAN
    /\ cache \in [Workers -> StatusValues]
    /\ processLock \in [Workers -> Jobs \cup {NoJob}]
    /\ restartFlag \in [Workers -> BOOLEAN]
    /\ restartLock \in Jobs \cup {NoJob}
    /\ lastDone \in [Workers -> 0..Cooldown]
    /\ savedDone \in 0..Cooldown
    /\ cooling \in 0..Cooldown
    /\ pc \in [Jobs -> PCs]
    /\ op \in [Jobs -> OpNames]
    /\ inRestart \in [Jobs -> BOOLEAN]
    /\ attempt \in [Jobs -> 1..MaxAttempts]
    /\ seenPid \in [Jobs -> Procs \cup {NoPid}]

Init ==
    /\ proc = [p \in Procs |-> "none"]
    /\ unwaited = [p \in Procs |-> FALSE]
    /\ pidfile = NoPid
    /\ blocked = FALSE
    /\ cache = [w \in Workers |-> "unknown"]
    /\ processLock = [w \in Workers |-> NoJob]
    /\ restartFlag = [w \in Workers |-> FALSE]
    /\ restartLock = NoJob
    /\ lastDone = [w \in Workers |-> 0]
    /\ savedDone = 0
    /\ cooling = 0
    /\ pc = [j \in Jobs |-> "idle"]
    /\ op = [j \in Jobs |-> "none"]
    /\ inRestart = [j \in Jobs |-> FALSE]
    /\ attempt = [j \in Jobs |-> 1]
    /\ seenPid = [j \in Jobs |-> NoPid]

--------------------------------------------------------------------------------
(* Looking at the operating system.                                        *)

Visible == {p \in Procs : proc[p] \in {"up", "ready"}}
Running == Visible # {}
Healthy == \E p \in Procs : proc[p] = "ready"

\* A snapshot drops a pid file that names no visible server and writes the
\* pid that pgrep found instead.
Snapshot ==
    pidfile' \in IF ~Running THEN {NoPid}
                 ELSE IF pidfile \in Visible THEN {pidfile} ELSE Visible

StatusNow == IF Healthy THEN "healthy" ELSE IF Running THEN "degraded" ELSE "down"

\* A start stops waiting for the scripts that have not become visible.
LeftBooting == [p \in Procs |-> unwaited[p] \/ proc[p] = "sh"]

Goto(j, label) == pc' = [pc EXCEPT ![j] = label]
Invalidate(w)  == cache' = [cache EXCEPT ![w] = "unknown"]
\* Mutant: the lock is taken without a look at its holder.
AcquireUnchecked(j) == processLock' = [processLock EXCEPT ![WorkerOf[j]] = j]

Acquire(j) == /\ processLock[WorkerOf[j]] = NoJob
              /\ processLock' = [processLock EXCEPT ![WorkerOf[j]] = j]
Release(j) == processLock' = [processLock EXCEPT ![WorkerOf[j]] = NoJob]
Waits(j)   == op[j] # "start"
Forced(j)  == op[j] \in {"force", "recover"} /\ ~inRestart[j]
EndsCall(j) == op' = [op EXCEPT ![j] = IF pc'[j] = "idle" THEN "none" ELSE @]

--------------------------------------------------------------------------------
(* restart_server: the guard at its beginning and its `finally`.           *)

MaxOf(a, b) == IF a >= b THEN a ELSE b

\* Mutants: only the state file, or only the worker's memory, is consulted.
RememberedSaved(w) == savedDone
RememberedLocal(w) == lastDone[w]

\* _load_restart_state keeps the newer of the two timestamps.
Remembered(w) == MaxOf(lastDone[w], savedDone)

\* Mutant: the flock is taken before the cooldown is looked at and not given back.
EnterRestartLeaking(j) ==
    LET w == WorkerOf[j]
        free == ~restartFlag[w] /\ restartLock = NoJob
        pass == free /\ Remembered(w) = 0
    IN  /\ lastDone' = IF free THEN [lastDone EXCEPT ![w] = Remembered(w)] ELSE lastDone
        /\ restartFlag' = IF pass THEN [restartFlag EXCEPT ![w] = TRUE] ELSE restartFlag
        /\ restartLock' = IF free THEN j ELSE restartLock
        /\ inRestart' = IF pass THEN [inRestart EXCEPT ![j] = TRUE] ELSE inRestart
        /\ Goto(j, IF pass THEN "restart_begin" ELSE "idle")
        /\ UNCHANGED <<savedDone, cooling>>

EnterRestart(j) ==
    LET w == WorkerOf[j]
        free == ~restartFlag[w] /\ restartLock = NoJob
        pass == free /\ Remembered(w) = 0
    IN  /\ lastDone' = IF free THEN [lastDone EXCEPT ![w] = Remembered(w)] ELSE lastDone
        /\ restartFlag' = IF pass THEN [restartFlag EXCEPT ![w] = TRUE] ELSE restartFlag
        /\ restartLock' = IF pass THEN j ELSE restartLock
        /\ inRestart' = IF pass THEN [inRestart EXCEPT ![j] = TRUE] ELSE inRestart
        /\ Goto(j, IF pass THEN "restart_begin" ELSE "idle")
        /\ UNCHANGED <<savedDone, cooling>>

\* Mutant: a failed restart keeps the worker's flag.
EndRestartKeepingFlag(j, ok) ==
    LET w == WorkerOf[j]
    IN  /\ restartFlag' = [restartFlag EXCEPT ![w] = ~ok]
        /\ restartLock' = NoJob
        /\ inRestart' = [inRestart EXCEPT ![j] = FALSE]
        /\ lastDone' = IF ok THEN [lastDone EXCEPT ![w] = Cooldown] ELSE lastDone
        /\ savedDone' = IF ok THEN Cooldown ELSE savedDone
        /\ cooling' = IF ok THEN Cooldown ELSE cooling
        /\ Goto(j, "idle")

EndRestart(j, ok) ==
    LET w == WorkerOf[j]
    IN  /\ restartFlag' = [restartFlag EXCEPT ![w] = FALSE]
        /\ restartLock' = NoJob
        /\ inRestart' = [inRestart EXCEPT ![j] = FALSE]
        /\ lastDone' = IF ok THEN [lastDone EXCEPT ![w] = Cooldown] ELSE lastDone
        /\ \E saved \in SaveOutcomes : savedDone' = IF ok /\ saved THEN Cooldown ELSE savedDone
        /\ cooling' = IF ok THEN Cooldown ELSE cooling
        /\ Goto(j, "idle")

\* stop_server returns to whoever called it; "not running" is no failure for
\* restart_server and recover_server.
StopReturns(j, ok) ==
    /\ IF inRestart[j] /\ ~ok THEN EndRestart(j, FALSE)
       ELSE /\ Goto(j, IF inRestart[j] THEN "restart_gap"
                       ELSE IF op[j] = "recover" /\ ok THEN "recover_gap" ELSE "idle")
            /\ UNCHANGED restartVars
    /\ attempt' = [attempt EXCEPT ![j] = 1]

\* start_server returns to whoever called it; restart_server retries only a
\* process that exited early.
StartReturns(j, result) ==
    LET retry == inRestart[j] /\ result = "exited_early" /\ attempt[j] < MaxAttempts
    IN  /\ IF inRestart[j] /\ ~retry THEN EndRestart(j, result = "ready")
           ELSE /\ Goto(j, IF retry THEN "restart_gap" ELSE "idle")
                /\ UNCHANGED restartVars
        /\ attempt' = [attempt EXCEPT ![j] = IF retry THEN @ + 1 ELSE 1]
--------------------------------------------------------------------------------
(* The calls.  Each is refused at once while the profile blocks operations.*)

Request(j) ==
    /\ pc[j] = "idle"
    /\ ~blocked
    /\ UNCHANGED <<proc, unwaited, blocked, processLock, attempt, seenPid>>

StartRequest(j) ==
    /\ Request(j)
    /\ \E o \in Ops \cap {"start", "startwait"} : op' = [op EXCEPT ![j] = o]
    /\ Goto(j, "start_lock")
    /\ UNCHANGED <<pidfile, cache, restartVars>>

StopRequest(j) ==
    /\ Request(j)
    /\ \E o \in Ops \cap {"stop", "force"} : op' = [op EXCEPT ![j] = o]
    /\ Goto(j, "stop_lock")
    /\ UNCHANGED <<pidfile, cache, restartVars>>

RestartRequest(j) ==
    /\ Request(j)
    /\ "restart" \in Ops
    /\ EnterRestart(j)
    /\ op' = [op EXCEPT ![j] = IF pc'[j] = "idle" THEN "none" ELSE "restart"]
    /\ UNCHANGED <<pidfile, cache>>

\* recover_server acts on a status that may be as old as the cache allows.
RecoverRequest(j) ==
    LET w == WorkerOf[j]
        seen == IF cache[w] = "unknown" THEN StatusNow ELSE cache[w]
    IN  /\ Request(j)
        /\ "recover" \in Ops
        /\ IF cache[w] = "unknown" THEN Snapshot ELSE UNCHANGED pidfile
        /\ cache' = [cache EXCEPT ![w] = seen]
        /\ Goto(j, IF seen = "healthy" THEN "idle"
                   ELSE IF seen = "degraded" THEN "stop_lock" ELSE "start_lock")
        /\ op' = [op EXCEPT ![j] = IF seen = "healthy" THEN "none" ELSE "recover"]
        /\ UNCHANGED restartVars

\* Subscribers were told; restart_server calls stop_server.
RestartBegin(j) ==
    /\ pc[j] = "restart_begin"
    /\ IF blocked THEN EndRestart(j, FALSE)
       ELSE Goto(j, "stop_lock") /\ UNCHANGED restartVars
    /\ EndsCall(j)
    /\ UNCHANGED <<osVars, blocked, cache, processLock, attempt, seenPid>>

\* After the pause restart_server calls start_server, again after each retry.
RestartGapEnds(j) ==
    /\ pc[j] = "restart_gap"
    /\ IF blocked THEN EndRestart(j, FALSE)
       ELSE Goto(j, "start_lock") /\ UNCHANGED restartVars
    /\ EndsCall(j)
    /\ UNCHANGED <<osVars, blocked, cache, processLock, attempt, seenPid>>

\* recover_server removes a stale pid file and calls restart_server.
RecoverGapEnds(j) ==
    /\ pc[j] = "recover_gap"
    /\ pidfile' = IF pidfile \in Visible THEN pidfile ELSE NoPid
    /\ IF blocked THEN Goto(j, "idle") /\ UNCHANGED restartVars ELSE EnterRestart(j)
    /\ EndsCall(j)
    /\ UNCHANGED <<proc, unwaited, blocked, cache, processLock, attempt, seenPid>>

--------------------------------------------------------------------------------
(* stop_server, under process_lock.                                        *)

StopEnter(j) ==
    /\ pc[j] = "stop_lock"
    /\ Snapshot
    /\ Invalidate(WorkerOf[j])
    /\ IF Running
       THEN /\ Acquire(j)
            /\ seenPid' = [seenPid EXCEPT ![j] = pidfile']
            /\ Goto(j, "stop_wait")
            /\ UNCHANGED <<restartVars, attempt>>
       ELSE /\ processLock[WorkerOf[j]] = NoJob
            /\ StopReturns(j, TRUE)
            /\ UNCHANGED <<processLock, seenPid>>
    /\ EndsCall(j)
    /\ UNCHANGED <<proc, unwaited, blocked>>

\* A poll after the RCON stop or the SIGTERM finds the server gone.
StopSeesExit(j) ==
    /\ pc[j] = "stop_wait"
    /\ ~Running
    /\ pidfile' = NoPid
    /\ Invalidate(WorkerOf[j])
    /\ Release(j)
    /\ StopReturns(j, TRUE)
    /\ seenPid' = [seenPid EXCEPT ![j] = NoPid]
    /\ EndsCall(j)
    /\ UNCHANGED <<proc, unwaited, blocked>>

\* Every poll found a server.  A forced stop kills the pid it read and
\* reports success without looking again.
StopGivesUp(j) ==
    /\ pc[j] = "stop_wait"
    /\ IF Forced(j)
       THEN /\ proc' = [p \in Procs |-> IF p = seenPid[j] THEN "none" ELSE proc[p]]
            /\ pidfile' = NoPid
            /\ Invalidate(WorkerOf[j])
       ELSE UNCHANGED <<proc, pidfile, cache>>
    /\ Release(j)
    /\ StopReturns(j, Forced(j))
    /\ seenPid' = [seenPid EXCEPT ![j] = NoPid]
    /\ EndsCall(j)
    /\ UNCHANGED <<unwaited, blocked>>

--------------------------------------------------------------------------------
(* start_server, under process_lock.                                       *)

\* Mutant: no look whether a server runs already.
StartEnterUnchecked(j) ==
    /\ pc[j] = "start_lock"
    /\ Snapshot
    /\ Invalidate(WorkerOf[j])
    /\ Acquire(j)
    /\ Goto(j, "start_spawn")
    /\ EndsCall(j)
    /\ UNCHANGED <<proc, unwaited, blocked, seenPid, restartVars, attempt>>

StartEnter(j) ==
    /\ pc[j] = "start_lock"
    /\ Snapshot
    /\ Invalidate(WorkerOf[j])
    /\ IF Running
       THEN /\ processLock[WorkerOf[j]] = NoJob
            /\ StartReturns(j, "already_running")
            /\ UNCHANGED processLock
       ELSE /\ Acquire(j)
            /\ Goto(j, "start_spawn")
            /\ UNCHANGED <<restartVars, attempt>>
    /\ EndsCall(j)
    /\ UNCHANGED <<proc, unwaited, blocked, seenPid>>

\* start.sh is missing, or launching it raises.
StartFails(j) ==
    /\ pc[j] = "start_spawn"
    /\ Release(j)
    /\ StartReturns(j, "failed")
    /\ EndsCall(j)
    /\ UNCHANGED <<osVars, blocked, cache, seenPid>>

StartSpawn(j) ==
    /\ pc[j] = "start_spawn"
    /\ \E p \in Procs :
          /\ proc[p] = "none"
          /\ proc' = [proc EXCEPT ![p] = "sh"]
          /\ unwaited' = [unwaited EXCEPT ![p] = ~Waits(j)]
          /\ pidfile' = p
    /\ Invalidate(WorkerOf[j])
    /\ IF Waits(j)
       THEN Goto(j, "start_ready") /\ UNCHANGED <<processLock, restartVars, attempt>>
       ELSE Release(j) /\ StartReturns(j, "launched")
    /\ EndsCall(j)
    /\ UNCHANGED <<blocked, seenPid>>

\* _wait_for_server_ready sees a server that answers over RCON; recover_server
\* then reads the status afresh.
ReadyOk(j) ==
    /\ pc[j] = "start_ready"
    /\ Healthy
    /\ Snapshot
    /\ cache' = IF op[j] = "recover" THEN [cache EXCEPT ![WorkerOf[j]] = StatusNow]
                ELSE IF inRestart[j] THEN [cache EXCEPT ![WorkerOf[j]] = "unknown"] ELSE cache
    /\ unwaited' = LeftBooting
    /\ Release(j)
    /\ StartReturns(j, "ready")
    /\ EndsCall(j)
    /\ UNCHANGED <<proc, blocked, seenPid>>

\* ... or no server once the boot grace is over, though start.sh may be slow ...
ReadyExited(j) ==
    /\ pc[j] = "start_ready"
    /\ ~Running
    /\ pidfile' = NoPid
    /\ unwaited' = LeftBooting
    /\ Release(j)
    /\ StartReturns(j, "exited_early")
    /\ EndsCall(j)
    /\ UNCHANGED <<proc, blocked, cache, seenPid>>

\* Mutant: the wait has no deadline.
ReadyWaitsOn(j) == pc[j] = "start_ready" /\ Running /\ UNCHANGED vars

\* ... or one that has not answered when the time is up.
ReadyTimesOut(j) ==
    /\ pc[j] = "start_ready"
    /\ Running
    /\ Snapshot
    /\ unwaited' = LeftBooting
    /\ Release(j)
    /\ StartReturns(j, "timeout")
    /\ EndsCall(j)
    /\ UNCHANGED <<proc, blocked, cache, seenPid>>

--------------------------------------------------------------------------------
(* The environment.                                                        *)

ProcStep(p) ==
    /\ \/ proc[p] = "sh"    /\ proc' = [proc EXCEPT ![p] = "up"]      \* java is executed
       \/ proc[p] = "up"    /\ proc' = [proc EXCEPT ![p] = "ready"]   \* the ports open
       \/ proc[p] = "ready" /\ proc' = [proc EXCEPT ![p] = "up"]      \* the server hangs
       \/ proc[p] # "none"  /\ proc' = [proc EXCEPT ![p] = "none"]    \* it exits
    /\ UNCHANGED <<unwaited, pidfile, blocked, cache, processLock, restartVars, jobVars>>

\* get_server_status, from the dashboard's polling, and the cache's TTL.
PollStatus(w) ==
    /\ cache[w] = "unknown"
    /\ Snapshot
    /\ cache' = [cache EXCEPT ![w] = StatusNow]
    /\ UNCHANGED <<proc, unwaited, blocked, processLock, restartVars, jobVars>>

CacheExpires(w) ==
    /\ cache[w] # "unknown"
    /\ Invalidate(w)
    /\ UNCHANGED <<osVars, blocked, processLock, restartVars, jobVars>>

ToggleBlock ==
    /\ blocked' = ~blocked
    /\ UNCHANGED <<osVars, cache, processLock, restartVars, jobVars>>

\* Mutant: the remaining time is not floored at zero.
AgeUnfloored(n) == n - 1

Age(n) == IF n = 0 THEN 0 ELSE n - 1

Tick ==
    /\ lastDone' = [w \in Workers |-> Age(lastDone[w])]
    /\ savedDone' = Age(savedDone)
    /\ cooling' = Age(cooling)
    /\ UNCHANGED <<osVars, blocked, cache, processLock, restartFlag, restartLock, inRestart, jobVars>>

\* A worker dies: its coroutines and memory go, the kernel drops its flock,
\* the detached server stays.  A new one loads the state file.
WorkerCrash(w) ==
    LET gone == {j \in Jobs : WorkerOf[j] = w}
    IN  /\ w \in Crashable
        /\ cache' = [cache EXCEPT ![w] = "unknown"]
        /\ processLock' = [processLock EXCEPT ![w] = NoJob]
        /\ restartFlag' = [restartFlag EXCEPT ![w] = FALSE]
        /\ restartLock' = IF restartLock \in gone THEN NoJob ELSE restartLock
        /\ lastDone' = [lastDone EXCEPT ![w] = savedDone]
        /\ pc' = [j \in Jobs |-> IF j \in gone THEN "idle" ELSE pc[j]]
        /\ inRestart' = [j \in Jobs |-> inRestart[j] /\ j \notin gone]
        /\ op' = [j \in Jobs |-> IF j \in gone THEN "none" ELSE op[j]]
        /\ attempt' = [j \in Jobs |-> IF j \in gone THEN 1 ELSE attempt[j]]
        /\ seenPid' = [j \in Jobs |-> IF j \in gone THEN NoPid ELSE seenPid[j]]
        /\ unwaited' = LeftBooting
        /\ UNCHANGED <<proc, pidfile, blocked, savedDone, cooling>>

--------------------------------------------------------------------------------
JobStep(j) ==
    \/ RestartBegin(j) \/ RestartGapEnds(j) \/ RecoverGapEnds(j)
    \/ StopSeesExit(j) \/ StopGivesUp(j)
    \/ StartFails(j) \/ StartSpawn(j)
    \/ ReadyOk(j) \/ ReadyExited(j) \/ ReadyTimesOut(j)

Enter(j) == StopEnter(j) \/ StartEnter(j)

Client(j) == StartRequest(j) \/ StopRequest(j) \/ RestartRequest(j) \/ RecoverRequest(j)

Next ==
    \/ \E j \in Jobs : Client(j) \/ Enter(j) \/ JobStep(j)
    \/ \E p \in Procs : ProcStep(p)
    \/ \E w \in Workers : PollStatus(w) \/ CacheExpires(w) \/ WorkerCrash(w)
    \/ ToggleBlock
    \/ Tick

Spec == Init /\ [][Next]_vars

\* The event loop runs every ready coroutine, asyncio.Lock wakes its waiters
\* in turn, and a launched script becomes Java or exits.
Fairness ==
    /\ \A j \in Jobs : WF_vars(JobStep(j)) /\ SF_vars(Enter(j))
    /\ \A p \in Procs : WF_vars(proc[p] = "sh" /\ ProcStep(p))

FairSpec == Spec /\ Fairness

--------------------------------------------------------------------------------
(* Properties.                                                             *)

\* The flock, the worker's flag and the coroutine inside restart_server always
\* go together: no return, failure, crash or refused entry of restart_server
\* leaks the flag or the lock, which would refuse every later restart.
RestartGuardExact ==
    /\ \A j \in Jobs : inRestart[j] <=> restartLock = j
    /\ \A w \in Workers :
          restartFlag[w] <=> \E j \in Jobs : restartLock = j /\ WorkerOf[j] = w

\* In a worker only the coroutine that holds process_lock launches, waits for
\* or stops the server, and one that does neither holds it no longer: no
\* return path of start_server or stop_server keeps the lock.
ProcessLockExact ==
    \A j \in Jobs :
        pc[j] \in {"start_spawn", "start_ready", "stop_wait"} <=> processLock[WorkerOf[j]] = j

\* In one worker, two servers run on the same world only when one of them was
\* launched by a start that did not see it through its boot: process_lock and
\* the running check of start_server cover every start that waits.
TwoServersNeedUnwaitedStart ==
    \A p, q \in Procs :
        p # q /\ proc[p] # "none" /\ proc[q] # "none" => unwaited[p] \/ unwaited[q]

\* Restarts of all workers are serialised and keep the cooldown that the last
\* successful one began, whichever worker it ran in (restart_server's guard).
Gate == INSTANCE RestartGate WITH busy <- restartLock # NoJob
RestartGateHolds == Gate!Spec

\* Every call of start_server, stop_server, restart_server or recover_server
\* returns, however the server behaves.
CallsReturn == \A j \in Jobs : pc[j] # "idle" ~> pc[j] = "idle"

\* recover_server's docstring: "force-stop (if process exists) -> stale PID
\* cleanup -> start with readiness checks".  After its force-stop it goes on
\* to a start, unless operations were blocked meanwhile.
RecoverGoesOnToStart ==
    [][\A j \in Jobs : pc[j] = "recover_gap" /\ pc'[j] = "idle" => blocked]_vars
================================================================================
