-------------------------------- MODULE Upgrades --------------------------------
(***************************************************************************)
(* Upgrades of Paper with its plugins: a preflight makes a manifest,       *)
(* administrators review its manual plugins, and one execution at a time   *)
(* (the operation lock of module Operations) stages the artifacts, takes a *)
(* rollback snapshot, stops the server, applies, starts and, when a step   *)
(* fails, restores the snapshot.                                           *)
(***************************************************************************)
EXTENDS Updates

NoManifest == [made |-> FALSE, mc |-> 1, to |-> 1, plan |-> NoPlan, pending |-> {}]
NoExec == [pc |-> "idle", data |-> NoData, plan |-> NoPlan, to |-> 1,
           snap |-> NoData, snapScript |-> 1, applied |-> {}, wasUp |-> FALSE]

ExecPCs  == {"idle", "stage", "stop", "start", "stop_failed", "previous"}

Manifests == [made : BOOLEAN, mc : 1..MaxMc, to : 1..MaxMc, plan : [Artifacts -> 0..MaxVersion],
              pending : SUBSET Plugins]
Execs == [pc : ExecPCs, data : VersionsData, plan : [Artifacts -> 0..MaxVersion],
          to : 1..MaxMc, snap : VersionsData, snapScript : 1..MaxVersion,
          applied : SUBSET Artifacts, wasUp : BOOLEAN]

TypeOK ==
    /\ FilesTypeOK
    /\ JobsTypeOK
    /\ manifest \in Manifests
    /\ exec \in Execs

Init ==
    /\ FilesInit
    /\ JobsInit
    /\ manifest = NoManifest
    /\ exec = NoExec

--------------------------------------------------------------------------------
(* Manifests.                                                              *)

PreflightRequest(j) ==
    /\ job[j].pc = "idle"
    /\ Requested
    /\ Become(j, [Idle EXCEPT !.kind = "preflight", !.pc = "preflight", !.data = Loaded])
    /\ JustLoads
    /\ OthersKept

\* check_plugin_target_compatibility: the releases that support the target.
Offered(data, a) == {v \in 1..MaxVersion : v >= data.file[a]}

\* run_upgrade_preflight: a release, a review or a blocker for each
\* plugin that was tracked when the preflight began.  A manifest with a blocker
\* is never executed and not followed; the gate of the others is recomputed
\* whenever they are loaded or saved.
PreflightEnds(j) ==
    LET data == job[j].data
    IN  /\ job[j].pc = "preflight"
        /\ \/ \E to \in (data.mc + 1)..MaxMc, plan \in [Artifacts -> 0..MaxVersion] :
                /\ plan[Paper] > data.file[Paper]
                /\ \A p \in Plugins :
                      IF p \in Tracked(data) \ data.manual THEN plan[p] \in Offered(data, p) ELSE plan[p] = 0
                /\ manifest' = [made |-> TRUE, mc |-> data.mc, to |-> to, plan |-> plan,
                                pending |-> Tracked(data) \cap data.manual]
           \/ UNCHANGED manifest
        /\ Become(j, Idle)
        /\ UNCHANGED <<fileVars, exec>>

ResolveReview ==
    /\ \E p \in manifest.pending : manifest' = [manifest EXCEPT !.pending = @ \ {p}]
    /\ UNCHANGED <<fileVars, job, exec>>

\* _apply_manifest_gate and _validate_executable_manifest.
Executable(m, data) == m.made /\ m.pending = {} /\ data.mc = m.mc

--------------------------------------------------------------------------------
(* The execution.                                                          *)

JobsKept == UNCHANGED <<job, manifest>>
Ended == exec' = NoExec
Planned == {a \in Artifacts : exec.plan[a] # 0}
File(data, a) == <<a, data.file[a]>>

ExecuteRequest ==
    /\ exec.pc = "idle"
    /\ Executable(manifest, Loaded)
    /\ Requested
    /\ exec' = [NoExec EXCEPT !.pc = "stage", !.data = Loaded,
                              !.plan = manifest.plan, !.to = manifest.to]
    /\ JustLoads
    /\ JobsKept

\* _restore_upgrade_rollback: what was applied is removed, everything of the
\* snapshot copied back, the start script and the versions file included.
Restored(present, applied) ==
    LET gone == {a \in applied : exec.plan[a] # exec.data.file[a]}
    IN  (present \ {<<a, exec.plan[a]>> : a \in gone}) \cup {File(exec.data, a) : a \in Planned}

\* Mutant: the start script is not part of the snapshot.
RestoredScriptKept(e) == script

RestoredScript(e) == e.snapScript

\* The files after the artifacts of applied were exchanged.
Exchanged(applied) ==
    (jars \ {File(exec.data, a) : a \in applied}) \cup {<<a, exec.plan[a]>> : a \in applied}

\* _update_versions_for_upgrade.
Upgraded(e) ==
    [e.data EXCEPT !.file = [a \in Artifacts |-> IF e.plan[a] # 0 THEN e.plan[a] ELSE @[a]],
                   !.mc = e.to]

\* The rollback of what was applied, when known is what the execution last knew
\* of the versions file; then the server that ran before is started again.  A
\* restore that fails stops anywhere, the versions file being last.
Rollback(e, present, applied, known) ==
    LET fetched == {<<a, exec.plan[a]>> : a \in applied}
    IN  \/ /\ Put(Restored(present, applied), fetched)
           /\ versions' = e.snap
           /\ script' = RestoredScript(e)
           /\ disturbed' = disturbed \cup Stale(known)
                                  \cup {a \in Artifacts : e.snap.file[a] # e.data.file[a]}
           /\ exec' = IF e.wasUp THEN [NoExec EXCEPT !.pc = "previous"] ELSE NoExec
        \/ /\ \E left \in {present, Restored(present, applied)} : Put(left, fetched)
           /\ script' \in {script, e.snapScript, e.plan[Paper]}
           /\ disturbed' = disturbed \cup Planned
           /\ exec' = NoExec
           /\ UNCHANGED versions

\* applying_paper, applying_plugins and update_versions: no await in between.
Apply(e) ==
    \/ /\ Put(Exchanged(Planned), {<<a, exec.plan[a]>> : a \in Planned})
       /\ script' = e.plan[Paper]
       /\ versions' = Upgraded(e)
       /\ disturbed' = disturbed \cup Stale(e.data)
       /\ exec' = IF e.wasUp THEN [e EXCEPT !.pc = "start", !.applied = Planned] ELSE NoExec
    \/ \E applied \in {{}} \cup {s \in SUBSET Planned : Paper \in s} :
          Rollback(e, Exchanged(applied), applied, e.data)

\* _create_upgrade_rollback.
Snapshotted(e) == [e EXCEPT !.snap = versions, !.snapScript = script, !.wasUp = serverUp]

UpgradeStaged ==
    /\ exec.pc = "stage"
    /\ \/ /\ Ended
          /\ UNCHANGED fileVars
       \/ /\ \A a \in Planned : File(exec.data, a) \in jars
          /\ IF serverUp
             THEN /\ exec' = [Snapshotted(exec) EXCEPT !.pc = "stop"]
                  /\ UNCHANGED <<versions, jars, dated, script, disturbed>>
             ELSE Apply(Snapshotted(exec))
          /\ UNCHANGED <<backups, serverUp, autoSync, requests>>
    /\ JobsKept

UpgradeStops ==
    /\ exec.pc = "stop"
    /\ \/ serverUp' = FALSE /\ Apply(exec)
       \/ UNCHANGED serverUp /\ Rollback(exec, jars, {}, exec.data)
    /\ UNCHANGED <<backups, autoSync, requests>>
    /\ JobsKept

\* The start, which waits until the server is ready.
UpgradeStarts ==
    /\ exec.pc = "start"
    /\ \/ /\ ~serverUp /\ <<Paper, script>> \in jars
          /\ serverUp' = TRUE
          /\ Ended
          /\ UNCHANGED <<versions, jars, dated, script, disturbed>>
       \/ /\ serverUp' = TRUE
          /\ exec' = [exec EXCEPT !.pc = "stop_failed"]
          /\ UNCHANGED <<versions, jars, dated, script, disturbed>>
       \/ /\ serverUp' = FALSE
          /\ Rollback(exec, jars, exec.applied, Upgraded(exec))
    /\ UNCHANGED <<backups, autoSync, requests>>
    /\ JobsKept

UpgradeStopsFailed ==
    /\ exec.pc = "stop_failed"
    /\ \/ serverUp' = FALSE /\ Rollback(exec, jars, exec.applied, Upgraded(exec))
       \/ UNCHANGED <<serverUp, versions, jars, dated, script, disturbed>> /\ Ended
    /\ UNCHANGED <<backups, autoSync, requests>>
    /\ JobsKept

PreviousStarts ==
    /\ exec.pc = "previous"
    /\ \/ ~serverUp /\ <<Paper, script>> \in jars /\ serverUp' = TRUE /\ Ended
       \/ UNCHANGED serverUp /\ Ended
    /\ UNCHANGED <<versions, jars, dated, backups, script, autoSync, requests, disturbed>>
    /\ JobsKept

\* The process dies: its coroutines are gone, their files stay.
Crash ==
    /\ job' = [j \in Jobs |-> Idle]
    /\ exec' = NoExec
    /\ UNCHANGED <<fileVars, manifest>>

ExecStep == \/ ExecuteRequest \/ UpgradeStaged \/ UpgradeStops \/ UpgradeStarts
            \/ UpgradeStopsFailed \/ PreviousStarts

Next ==
    \/ \E j \in Jobs : UpdateStep(j) \/ PreflightRequest(j) \/ PreflightEnds(j)
    \/ Track \/ BrowserApply \/ ResolveReview
    \/ ExecStep
    \/ ServerChanges /\ UNCHANGED jobVars
    \/ PlacedByHand /\ UNCHANGED jobVars
    \/ Crash

Spec == Init /\ [][Next]_vars

--------------------------------------------------------------------------------
(* Properties.                                                             *)

\* Exactly the tracked jar of an artifact is in place, unless a request wrote
\* what it had read before another's save, or failed between the files and the
\* save: no interleaving of fresh requests, no failed upgrade and no crash
\* between two awaits loses or doubles a jar.
TrackingExact ==
    \A a \in Artifacts \ disturbed :
        versions.file[a] # 0 => Installed(a) = {versions.file[a]}

\* start.sh launches the Paper that is tracked, through updates, upgrades and
\* their rollbacks, with the same exceptions.
ScriptLaunchesTracked == Paper \notin disturbed => script = versions.file[Paper]

\* _cleanup_old_backups: "Delete old backup files, keeping only the most recent
\* N versions": the backup an update has just made is not among the deleted.
BackupSurvives ==
    [][\A j \in Jobs :
          job[j].pc # "download" /\ job'[j].pc = "download"
            => job'[j].data.file[job'[j].art] \in Range(backups'[job'[j].art])]_vars
================================================================================
