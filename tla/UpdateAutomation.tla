----------------------------- MODULE UpdateAutomation -----------------------------
(***************************************************************************)
(* The update automation (services/minecraft_update_automation.py): its    *)
(* configuration file, the scheduler that one process runs under an        *)
(* instance lock, and the runs of the scheduler and of administrators,     *)
(* which keep the configuration they loaded over the checks, downloads and *)
(* the restart that they await (what they do to the plugins is in Updates).*)
(***************************************************************************)
EXTENDS Naturals, FiniteSets

CONSTANT Processes      \* the processes that serve the dashboard

VARIABLES
    config,     \* the configuration file
    wish,       \* history: the auto_apply that an administrator saved last
    overlapped, \* history: was that while a run held an older configuration?
    lockHolder, \* the process that holds the instance lock
    running,    \* the processes whose scheduler is started
    scheduled,  \* the scheduled run of each process, if any
    manual      \* the manual run of each process, if any

automationVars == <<config, wish, overlapped, lockHolder, running, scheduled, manual>>

NoProcess == "no process"

ASSUME AutomationAssumption == NoProcess \notin Processes

\* apply: auto_apply; due: has the interval passed since last_run_at?
Configs == [enabled : BOOLEAN, apply : BOOLEAN, due : BOOLEAN]
NoRun == [active |-> FALSE, config |-> [enabled |-> FALSE, apply |-> FALSE, due |-> FALSE]]
Runs == [active : BOOLEAN, config : Configs]

AutomationTypeOK ==
    /\ config \in Configs
    /\ {wish, overlapped} \subseteq BOOLEAN
    /\ lockHolder \in Processes \cup {NoProcess}
    /\ running \subseteq Processes
    /\ scheduled \in [Processes -> Runs]
    /\ manual \in [Processes -> Runs]

AutomationInit ==
    /\ config = [enabled |-> FALSE, apply |-> FALSE, due |-> TRUE]
    /\ wish = FALSE
    /\ overlapped = FALSE
    /\ lockHolder = NoProcess
    /\ running = {}
    /\ scheduled = [w \in Processes |-> NoRun]
    /\ manual = [w \in Processes |-> NoRun]

--------------------------------------------------------------------------------
\* is_due; the hour of the day plays no part, as its anchor is never after now.
Due(c) == c.enabled /\ c.due

\* A run that holds the configuration as it is.
Begun == [active |-> TRUE, config |-> config]

\* Mutant: whatever is run by hand also applies from then on.
SavedApplying(run) == [run.config EXCEPT !.due = FALSE, !.apply = TRUE]

\* run_once saves what it loaded, with the time of now.
Saved(run) == [run.config EXCEPT !.due = FALSE]

\* update_config: load, change, save, without an await.
Configure ==
    /\ \E enabled, apply \in BOOLEAN :
          /\ config' = [config EXCEPT !.enabled = enabled, !.apply = apply]
          /\ wish' = apply
    /\ overlapped' = \E w \in Processes : scheduled[w].active \/ manual[w].active
    /\ UNCHANGED <<lockHolder, running, scheduled, manual>>

\* UpdateAutomationScheduler.start: a process that does not get the lock stands by.
SchedulerStart(w) ==
    /\ w \notin running
    /\ lockHolder = NoProcess
    /\ lockHolder' = w
    /\ running' = running \cup {w}
    /\ UNCHANGED <<config, wish, overlapped, scheduled, manual>>

\* Mutant: the lock is given back while the loop's run goes on.
StopBeforeTask(w) == lockHolder' = NoProcess /\ UNCHANGED scheduled

\* stop cancels the task and awaits its end before it releases the lock.
StopAfterTask(w) == lockHolder' = NoProcess /\ scheduled' = [scheduled EXCEPT ![w] = NoRun]

SchedulerStop(w) ==
    /\ w \in running
    /\ running' = running \ {w}
    /\ StopAfterTask(w)
    /\ UNCHANGED <<config, wish, overlapped, manual>>

\* The loop finds the configuration due; both loads are in one step.
LoopRuns(w) ==
    /\ w \in running
    /\ ~scheduled[w].active
    /\ Due(config)
    /\ scheduled' = [scheduled EXCEPT ![w] = Begun]
    /\ UNCHANGED <<config, wish, overlapped, lockHolder, running, manual>>

RunByHand(w) ==
    /\ ~manual[w].active
    /\ manual' = [manual EXCEPT ![w] = Begun]
    /\ UNCHANGED <<config, wish, overlapped, lockHolder, running, scheduled>>

\* A run that raises saves nothing: the loop tries again a minute later.
RunEnds(w) ==
    /\ \/ /\ scheduled[w].active
          /\ scheduled' = [scheduled EXCEPT ![w] = NoRun]
          /\ config' \in {Saved(scheduled[w]), config}
          /\ UNCHANGED manual
       \/ /\ manual[w].active
          /\ manual' = [manual EXCEPT ![w] = NoRun]
          /\ config' \in {Saved(manual[w]), config}
          /\ UNCHANGED scheduled
    /\ UNCHANGED <<wish, overlapped, lockHolder, running>>

\* The process dies; the kernel releases its lock.
AutomationCrash(w) ==
    /\ lockHolder' = IF lockHolder = w THEN NoProcess ELSE lockHolder
    /\ running' = running \ {w}
    /\ scheduled' = [scheduled EXCEPT ![w] = NoRun]
    /\ manual' = [manual EXCEPT ![w] = NoRun]
    /\ UNCHANGED <<config, wish, overlapped>>

IntervalPasses ==
    /\ config' = [config EXCEPT !.due = TRUE]
    /\ UNCHANGED <<wish, overlapped, lockHolder, running, scheduled, manual>>

AutomationNext ==
    \/ Configure \/ IntervalPasses
    \/ \E w \in Processes :
          \/ SchedulerStart(w) \/ SchedulerStop(w) \/ LoopRuns(w)
          \/ RunByHand(w) \/ RunEnds(w) \/ AutomationCrash(w)

AutomationSpec == AutomationInit /\ [][AutomationNext]_automationVars

--------------------------------------------------------------------------------
(* Properties.                                                             *)

\* The automation applies updates exactly if the administrator wanted it last,
\* unless a run was under way when that was saved: the run's end writes the
\* configuration it had loaded before.
ConfigFollowsAdministrator == config.apply = wish \/ overlapped

\* Scheduled runs of all processes exclude each other, over stops and crashes.
ScheduledRunsUnderLock == \A w \in Processes : scheduled[w].active => lockHolder = w
================================================================================
