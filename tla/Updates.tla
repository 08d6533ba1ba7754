-------------------------------- MODULE Updates --------------------------------
(***************************************************************************)
(* The updater's requests on one event loop: updates with and without a    *)
(* restart, update checks, the update automation, tracking, installs and   *)
(* the upgrade of Paper with its plugins (module Upgrades).  A job is one  *)
(* coroutine; a step is the code between two awaits.                       *)
(***************************************************************************)
EXTENDS PluginFiles

CONSTANT Jobs

VARIABLES
    job,        \* the coroutines
    manifest,   \* the upgrade manifest that is followed
    exec        \* the upgrade's execution

jobVars == <<job, manifest, exec>>
vars == <<fileVars, jobVars>>

Kinds == {"none", "update", "update_restart", "check", "auto", "install", "preflight"}
PCs == {"idle", "stop", "pause", "check", "download", "start", "check_all", "next",
        "resolve", "fetch", "preflight"}

NoData == [file |-> [a \in Artifacts |-> 0], manual |-> {}, mc |-> 1]
NoPlan == [a \in Artifacts |-> 0]
Idle   == [kind |-> "none", pc |-> "idle", data |-> NoData, art |-> Paper, plan |-> NoPlan,
           flag |-> FALSE]

\* flag: was the server running before the update?
JobRecord == [kind : Kinds, pc : PCs, data : VersionsData, art : Artifacts,
              plan : [Artifacts -> 0..MaxVersion], flag : BOOLEAN]

JobsTypeOK == \A j \in Jobs : job[j] \in JobRecord

JobsInit == job = [j \in Jobs |-> Idle]

--------------------------------------------------------------------------------
Become(j, r) == job' = [job EXCEPT ![j] = r]
Goto(j, label) == job' = [job EXCEPT ![j].pc = label]
OthersKept == UNCHANGED <<manifest, exec>>

\* check_plugin_update: the versions newer than the tracked one; none for a
\* manual source, or when the answer is an error.
Newer(data, a) == IF a \in data.manual THEN {} ELSE {v \in 1..MaxVersion : v > data.file[a]}

\* How a job goes on after an update that succeeded, was skipped or failed.
AfterUpdate(j, ok) ==
    CASE job[j].kind = "update_restart" /\ ok /\ job[j].flag -> Goto(j, "start")
      [] job[j].kind = "auto" -> Become(j, [job[j] EXCEPT !.pc = "next", !.plan[job[j].art] = 0])
      [] OTHER -> Become(j, Idle)

--------------------------------------------------------------------------------
(* POST /update/{plugin}, with and without a restart.                      *)

AwaitCheck(j, kind, a, flag) ==
    /\ Loaded.file[a] # 0
    /\ Become(j, [Idle EXCEPT !.kind = kind, !.pc = "check", !.data = Loaded, !.art = a, !.flag = flag])
    /\ JustLoads

UpdateRequest(j) ==
    /\ job[j].pc = "idle"
    /\ Requested
    /\ \E a \in Artifacts : AwaitCheck(j, "update", a, FALSE)
    /\ OthersKept

RestartUpdateRequest(j) ==
    /\ job[j].pc = "idle"
    /\ Requested
    /\ \E a \in Artifacts :
          IF serverUp
          THEN /\ Become(j, [Idle EXCEPT !.kind = "update_restart", !.pc = "stop", !.art = a, !.flag = TRUE])
               /\ UNCHANGED <<versions, disturbed>> /\ FilesKept
          ELSE AwaitCheck(j, "update_restart", a, FALSE)
    /\ OthersKept

\* The stop, which may fail, and the pause after it.
RestartUpdateStops(j) ==
    /\ \/ /\ job[j].pc = "stop"
          /\ \/ serverUp' = FALSE /\ Goto(j, "pause")
             \/ serverUp /\ Become(j, Idle) /\ UNCHANGED serverUp
          /\ UNCHANGED <<versions, jars, dated, backups, script, autoSync, requests, disturbed>>
       \/ /\ job[j].pc = "pause"
          /\ UNCHANGED requests
          /\ \/ AwaitCheck(j, "update_restart", job[j].art, TRUE)
             \/ /\ Loaded.file[job[j].art] = 0
                /\ Become(j, Idle)
                /\ JustLoads
    /\ OthersKept

\* start_server does not wait: only a server that runs is an error.
RestartUpdateStarts(j) ==
    /\ job[j].pc = "start"
    /\ \/ <<Paper, script>> \in jars /\ serverUp' = TRUE
       \/ <<Paper, script>> \notin jars /\ UNCHANGED serverUp
    /\ Become(j, Idle)
    /\ UNCHANGED <<versions, jars, dated, backups, script, autoSync, requests, disturbed>>
    /\ OthersKept

--------------------------------------------------------------------------------
(* apply_update: a backup of what a second load names, the download, and   *)
(* then the exchange of the files and the save, without an await.          *)

ApplyBegins(j, a, v) ==
    \/ /\ <<a, Loaded.file[a]>> \in jars
       /\ Backup(a, Loaded.file[a])
       /\ versions' = Loaded
       /\ Become(j, [job[j] EXCEPT !.pc = "download", !.data = Loaded, !.art = a, !.plan[a] = v])
       /\ UNCHANGED <<jars, dated, script, serverUp, autoSync, requests, disturbed>>
    \/ /\ JustLoads                        \* no jar to back up, or a blocked profile
       /\ UNCHANGED requests
       /\ AfterUpdate(j, FALSE)

UpdateChecked(j) ==
    /\ job[j].pc = "check"
    /\ \/ AfterUpdate(j, TRUE) /\ UNCHANGED fileVars
       \/ \E v \in Newer(job[j].data, job[j].art) : ApplyBegins(j, job[j].art, v)
    /\ OthersKept

ApplyExchanges(j) ==
    LET data == job[j].data
        a == job[j].art
        v == job[j].plan[a]
    IN  /\ Put(Replaced(data, a, v), {<<a, v>>})
        /\ versions' = [data EXCEPT !.file[a] = v]
        /\ script' \in IF a = Paper THEN {script, v} ELSE {script}
        /\ disturbed' = disturbed \cup Stale(data)
                               \cup IF a = Paper /\ script' # v THEN {Paper} ELSE {}

ApplyFails(j) ==
    LET a == job[j].art
        v == job[j].plan[a]
    IN  \/ UNCHANGED fileVars
        \/ /\ \E left \in {jars \ {<<a, job[j].data.file[a]>>}, Replaced(job[j].data, a, v)} :
                 Put(left, {<<a, v>>})
           /\ disturbed' = disturbed \cup {a}
           /\ UNCHANGED <<versions, backups, script, serverUp, autoSync, requests>>

ApplyEnds(j) ==
    /\ job[j].pc = "download"
    /\ \/ ApplyExchanges(j) /\ AfterUpdate(j, TRUE) /\ UNCHANGED <<backups, serverUp, autoSync, requests>>
       \/ ApplyFails(j) /\ AfterUpdate(j, FALSE)
    /\ OthersKept

--------------------------------------------------------------------------------
(* Update checks and the automation.                                       *)

CheckRequest(j) ==
    /\ job[j].pc = "idle"
    /\ Requested
    /\ \E kind \in {"check", "auto"} :
          Become(j, [Idle EXCEPT !.kind = kind, !.pc = "check_all", !.data = Loaded])
    /\ JustLoads
    /\ OthersKept

\* check_all_updates saves what it loaded before it asked the network.
CheckEnds(j) ==
    /\ job[j].pc = "check_all"
    /\ versions' = job[j].data
    /\ disturbed' = disturbed \cup Stale(job[j].data)
    /\ FilesKept
    /\ UNCHANGED requests
    /\ IF job[j].kind = "check" THEN Become(j, Idle)
       ELSE \* none of them without auto_apply
            \E found \in SUBSET {p \in Plugins : Newer(job[j].data, p) # {}} :
            \E plan \in [Artifacts -> 0..MaxVersion] :
               /\ \A a \in Artifacts : IF a \in found THEN plan[a] \in Newer(job[j].data, a) ELSE plan[a] = 0
               /\ Become(j, [job[j] EXCEPT !.pc = "next", !.plan = plan])
    /\ OthersKept

\* run_once (its configuration is UpdateAutomation's): the next plugin that it
\* is to apply, or the end.
AutoNext(j) ==
    /\ job[j].pc = "next"
    /\ \/ \E p \in Plugins : job[j].plan[p] # 0 /\ ApplyBegins(j, p, job[j].plan[p])
       \/ job[j].plan = NoPlan /\ Become(j, Idle) /\ UNCHANGED fileVars
    /\ OthersKept

\* UpdateAutomationScheduler.stop cancels the run at the await it is in.
AutoCancelled(j) ==
    /\ job[j].kind = "auto" /\ job[j].pc \in {"check_all", "download"}
    /\ Become(j, Idle)
    /\ UNCHANGED fileVars
    /\ OthersKept

--------------------------------------------------------------------------------
(* The plugin registry.                                                    *)

\* A local jar is tracked, or a tracked plugin's source is changed.
Track ==
    /\ Requested
    /\ \E p \in Plugins, manual \in BOOLEAN :
          LET sources(data) == [data EXCEPT !.manual = IF manual THEN @ \cup {p} ELSE @ \ {p}]
          IN  \/ Loaded.file[p] # 0 /\ versions' = sources(Loaded)
              \/ /\ Loaded.file[p] = 0
                 /\ \E v \in Installed(p) : versions' = [sources(Loaded) EXCEPT !.file[p] = v]
    /\ UNCHANGED disturbed
    /\ FilesKept
    /\ UNCHANGED jobVars

\* install_modrinth_plugin_project: the project's latest release is asked for,
\* then downloaded, moved in place and tracked.
InstallRequest(j) ==
    /\ job[j].pc = "idle"
    /\ Requested
    /\ \E p \in Plugins :
          /\ Loaded.file[p] = 0
          /\ Become(j, [Idle EXCEPT !.kind = "install", !.pc = "resolve", !.data = Loaded, !.art = p])
    /\ JustLoads
    /\ OthersKept

InstallResolved(j) ==
    /\ job[j].pc = "resolve"
    /\ \/ \E v \in (1..MaxVersion) \ Installed(job[j].art) :
             Become(j, [job[j] EXCEPT !.pc = "fetch", !.plan[job[j].art] = v])
       \/ Become(j, Idle)
    /\ UNCHANGED fileVars
    /\ OthersKept

InstallEnds(j) ==
    LET data == job[j].data
        p == job[j].art
        v == job[j].plan[p]
    IN  /\ job[j].pc = "fetch"
        /\ \/ UNCHANGED fileVars
           \/ /\ Put(jars \cup {<<p, v>>}, {<<p, v>>})
              /\ \/ versions' = [data EXCEPT !.file[p] = v, !.manual = @ \ {p}]
                    /\ disturbed' = disturbed \cup Stale(data)
                          \cup IF Installed(p) = {} THEN {} ELSE {p}
                 \/ disturbed' = disturbed \cup {p} /\ UNCHANGED versions
              /\ UNCHANGED <<backups, script, serverUp, autoSync, requests>>
        /\ Become(j, Idle)
        /\ OthersKept

\* The jar that a browser downloaded for a Voxel.shop plugin (VoxelShop) is
\* applied: apply_update_from_local_file, without an await.
BrowserApply ==
    /\ Requested
    /\ \E p \in Tracked(Loaded) \ versions.manual, v \in 1..MaxVersion :
          /\ <<p, Loaded.file[p]>> \in jars
          /\ Backup(p, Loaded.file[p])
          /\ Put(Replaced(Loaded, p, v), {<<p, v>>})
          /\ \/ versions' = [Loaded EXCEPT !.file[p] = v] /\ UNCHANGED disturbed
             \/ versions' = Loaded /\ disturbed' = disturbed \cup {p}
    /\ UNCHANGED <<script, serverUp, autoSync>>
    /\ UNCHANGED jobVars

--------------------------------------------------------------------------------
UpdateStep(j) ==
    \/ UpdateRequest(j) \/ RestartUpdateRequest(j) \/ RestartUpdateStops(j) \/ RestartUpdateStarts(j)
    \/ UpdateChecked(j) \/ ApplyEnds(j)
    \/ CheckRequest(j) \/ CheckEnds(j) \/ AutoNext(j) \/ AutoCancelled(j)
    \/ InstallRequest(j) \/ InstallResolved(j) \/ InstallEnds(j)
================================================================================
