----------------------------- MODULE UpgradesProofs -----------------------------
(***************************************************************************)
(* Proofs about the updater's requests and the upgrades of Paper, for any  *)
(* number of plugins, versions and coroutines: the jar that is in place is *)
(* the one that is tracked, and start.sh launches it.                      *)
(***************************************************************************)
EXTENDS Upgrades, FiniteSetTheorems, SequenceTheorems, TLAPS

--------------------------------------------------------------------------------
(* The types.                                                              *)

Versions == 1..MaxVersion
Plans == [Artifacts -> 0..MaxVersion]

FilesOK ==
    /\ versions \in VersionsData
    /\ jars \subseteq Jars
    /\ dated \subseteq jars
    /\ backups \in [Artifacts -> Seq(Versions)]
    /\ \A a \in Artifacts : Len(backups[a]) <= KeepBackups
    /\ script \in Versions
    /\ serverUp \in BOOLEAN
    /\ autoSync \subseteq Plugins
    /\ requests \in 0..MaxRequests
    /\ disturbed \subseteq Artifacts

JobsOK == job \in [Jobs -> JobRecord]

--------------------------------------------------------------------------------
(* The inductive invariant: what is in place of every artifact that is not *)
(* disturbed, and what a coroutine relies on after its await.              *)

\* The tracked jar alone is in place; of an untracked artifact, one at most.
Exact(a) ==
    /\ versions.file[a] # 0 => \A v \in Versions : <<a, v>> \in jars <=> v = versions.file[a]
    /\ versions.file[a] = 0 => \A v, w \in Versions : <<a, v>> \in jars /\ <<a, w>> \in jars => v = w

FilesInv ==
    /\ \A a \in Artifacts \ disturbed : Exact(a)
    /\ ScriptLaunchesTracked

\* A download knows the jar it replaces and the one that it fetches.
JobGood(r) ==
    /\ r.pc = "download" => r.data.file[r.art] # 0 /\ r.plan[r.art] # 0
    /\ r.pc = "fetch" => r.plan[r.art] # 0

JobsInv == JobsOK /\ \A j \in Jobs : JobGood(job[j])

ManifestInv == manifest \in Manifests /\ (manifest.made => manifest.plan[Paper] # 0)

\* A running upgrade exchanges Paper, and what it exchanges was in place.
ExecGood(e) ==
    /\ e.pc \notin {"idle", "previous"} => e.plan[Paper] # 0
    /\ e.pc \in {"stop", "start", "stop_failed"} =>
          \A a \in Artifacts : e.plan[a] # 0 => e.data.file[a] # 0
    /\ e.pc \in {"start", "stop_failed"} => e.applied = {a \in Artifacts : e.plan[a] # 0}

\* The snapshot is of a start script that launches the Paper of the snapshot.
SnapGood(e) ==
    e.pc \in {"stop", "start", "stop_failed"} /\ Paper \notin disturbed => e.snapScript = e.snap.file[Paper]

ExecInv == exec \in Execs /\ ExecGood(exec) /\ SnapGood(exec)

IInv == FilesOK /\ FilesInv /\ JobsInv /\ ManifestInv /\ ExecInv

--------------------------------------------------------------------------------
(* Facts about the constants and the records.                              *)

LEMMA Numbers ==
    /\ MaxVersion \in Nat /\ MaxVersion >= 1 /\ 1 \in Versions
    /\ MaxMc \in Nat /\ MaxMc >= 1 /\ 1 \in 1..MaxMc
    /\ KeepBackups \in Nat /\ KeepBackups >= 1
    /\ MaxRequests \in Nat
    /\ Versions \subseteq 0..MaxVersion
    /\ Paper \in Artifacts /\ Paper \notin Plugins /\ Plugins \subseteq Artifacts
  BY FilesAssumption DEF Versions, Paper, Artifacts

LEMMA DataFields ==
    ASSUME NEW d \in VersionsData
    PROVE  /\ d.file \in Plans
           /\ d.manual \subseteq Plugins
           /\ d.mc \in 1..MaxMc
  BY DEF VersionsData, Plans

LEMMA NoDataType == NoData \in VersionsData /\ NoPlan \in Plans
  BY Numbers DEF NoData, VersionsData, NoPlan, Plans

LEMMA IdleType == Idle \in JobRecord
  BY NoDataType, Numbers DEF Idle, JobRecord, Kinds, PCs, Plans

LEMMA NoExecType == NoExec \in Execs
  BY NoDataType, Numbers DEF NoExec, Execs, ExecPCs, Plans, Versions

LEMMA JobFields ==
    ASSUME JobsInv, NEW j \in Jobs
    PROVE  /\ job[j] \in JobRecord
           /\ job[j].data \in VersionsData
           /\ job[j].art \in Artifacts
           /\ job[j].plan \in Plans
           /\ JobGood(job[j])
  BY DEF JobsInv, JobsOK, JobRecord, Plans

LEMMA BecomeGood ==
    ASSUME JobsInv, NEW j \in Jobs, NEW r \in JobRecord, JobGood(r), Become(j, r)
    PROVE  JobsInv'
  <1>1. JobsOK'
    BY DEF JobsInv, JobsOK, Become
  <1>2. ASSUME NEW k \in Jobs PROVE JobGood(job'[k])
    <2>1. job'[k] = IF k = j THEN r ELSE job[k]
      BY DEF JobsInv, JobsOK, Become
    <2> QED
      BY <2>1 DEF JobsInv
  <1>3. \A k \in Jobs : JobGood(job[k])'
    BY <1>2 DEF JobGood
  <1> QED
    BY <1>1, <1>3 DEF JobsInv

\* Only a download and an install's fetch rely on anything.
LEMMA OtherLabelsGood ==
    ASSUME NEW r, r.pc \notin {"download", "fetch"}
    PROVE  JobGood(r)
  BY DEF JobGood

LEMMA IdleGood ==
    ASSUME JobsInv, NEW j \in Jobs, Become(j, Idle)
    PROVE  JobsInv'
  <1>1. Idle.pc = "idle"
    BY DEF Idle
  <1> QED
    BY <1>1, IdleType, OtherLabelsGood, BecomeGood

\* What a load detects is a version that is in place.
LEMMA Detected ==
    ASSUME NEW S, Cardinality(S) = 1
    PROVE  (CHOOSE v \in S : TRUE) \in S
  <1>1. S # {}
    BY FS_EmptySet
  <1> QED
    BY <1>1, Zenon

LEMMA LoadedType ==
    ASSUME FilesOK
    PROVE  /\ Loaded \in VersionsData
           /\ Loaded.manual = versions.manual
           /\ Loaded.mc = versions.mc
  <1> DEFINE chosen(a) == CHOOSE v \in Installed(a) : TRUE
             file(a) == IF /\ a \in autoSync /\ versions.file[a] # 0
                           /\ Cardinality(Installed(a)) = 1
                        THEN chosen(a) ELSE versions.file[a]
  <1>1. ASSUME NEW a \in Artifacts, Cardinality(Installed(a)) = 1 PROVE chosen(a) \in Versions
    <2>1. chosen(a) \in Installed(a)
      BY <1>1, Detected
    <2> QED
      BY <2>1 DEF Installed, Versions
  <1>2. Loaded = [versions EXCEPT !.file = [a \in Artifacts |-> file(a)]]
    BY DEF Loaded
  <1> HIDE DEF chosen
  <1>3. [a \in Artifacts |-> file(a)] \in Plans
    BY <1>1, Numbers, DataFields DEF FilesOK, Plans
  <1> HIDE DEF file
  <1> QED
    BY <1>2, <1>3 DEF FilesOK, VersionsData, Plans

\* A load: nothing but the entries of the versions file.
LEMMA JustLoadsType ==
    ASSUME FilesOK, JustLoads, Requested \/ UNCHANGED requests
    PROVE  FilesOK'
  <1>1. versions' \in VersionsData
    BY LoadedType DEF JustLoads
  <1>2. requests' \in 0..MaxRequests
    BY Numbers DEF Requested, FilesOK
  <1> QED
    BY <1>1, <1>2 DEF JustLoads, FilesKept, FilesOK

LEMMA BackupType ==
    ASSUME FilesOK, NEW a \in Artifacts, NEW v \in Versions, Backup(a, v)
    PROVE  /\ backups' \in [Artifacts -> Seq(Versions)]
           /\ \A b \in Artifacts : Len(backups'[b]) <= KeepBackups
  <1> DEFINE all == IF <<a, v>> \in dated THEN <<v>> \o backups[a] ELSE Append(backups[a], v)
             kept == IF Len(all) > KeepBackups THEN Tail(all) ELSE all
  <1>1. backups[a] \in Seq(Versions) /\ Len(backups[a]) \in Nat /\ Len(backups[a]) <= KeepBackups
    BY DEF FilesOK
  <1>2. all \in Seq(Versions) /\ Len(all) = Len(backups[a]) + 1
    BY <1>1
  <1> HIDE DEF all
  <1>3. kept \in Seq(Versions) /\ Len(kept) <= KeepBackups
    BY <1>1, <1>2, Numbers
  <1>4. backups' = [backups EXCEPT ![a] = kept]
    BY DEF Backup, all
  <1> HIDE DEF kept
  <1> QED
    BY <1>3, <1>4 DEF FilesOK

LEMMA JarType ==
    ASSUME NEW a \in Artifacts, NEW v
    PROVE  <<a, v>> \in Jars <=> v \in Versions
  BY DEF Jars, Versions

LEMMA ReplacedType ==
    ASSUME FilesOK, NEW data, NEW a \in Artifacts, NEW v \in Versions
    PROVE  Replaced(data, a, v) \subseteq Jars
  BY JarType DEF Replaced, FilesOK

LEMMA PutType ==
    ASSUME NEW present, NEW fetched, present \subseteq Jars, Put(present, fetched)
    PROVE  jars' = present /\ jars' \subseteq Jars /\ dated' \subseteq jars'
  BY DEF Put

LEMMA StaleType == ASSUME NEW data PROVE Stale(data) \subseteq Artifacts
  BY Numbers DEF Stale

\* The entry of one artifact is changed.
LEMMA EntryType ==
    ASSUME NEW data \in VersionsData, NEW a \in Artifacts, NEW v \in 0..MaxVersion
    PROVE  /\ [data EXCEPT !.file[a] = v] \in VersionsData
           /\ [data EXCEPT !.file[a] = v].file = [data.file EXCEPT ![a] = v]
           /\ [data EXCEPT !.file[a] = v].mc = data.mc
  BY DEF VersionsData

LEMMA Labels ==
    /\ {"none", "update", "update_restart", "check", "auto", "install", "preflight"} \subseteq Kinds
    /\ {"idle", "stop", "pause", "check", "download", "start", "check_all", "next",
        "resolve", "fetch", "preflight"} \subseteq PCs
  BY DEF Kinds, PCs

\* How the records of the coroutines go on.
LEMMA NextLabel ==
    ASSUME NEW r \in JobRecord, NEW pc \in PCs
    PROVE  [r EXCEPT !.pc = pc] \in JobRecord /\ [r EXCEPT !.pc = pc].pc = pc
  BY DEF JobRecord

LEMMA NextPlan ==
    ASSUME NEW r \in JobRecord, NEW pc \in PCs, NEW plan \in Plans
    PROVE  [r EXCEPT !.pc = pc, !.plan = plan] \in JobRecord /\ [r EXCEPT !.pc = pc, !.plan = plan].pc = pc
  BY DEF JobRecord, Plans

LEMMA NextEntry ==
    ASSUME NEW r \in JobRecord, NEW pc \in PCs, NEW v \in 0..MaxVersion
    PROVE  /\ [r EXCEPT !.pc = pc, !.plan[r.art] = v] \in JobRecord
           /\ [r EXCEPT !.pc = pc, !.plan[r.art] = v].pc = pc
           /\ [r EXCEPT !.pc = pc, !.plan[r.art] = v].art = r.art
           /\ [r EXCEPT !.pc = pc, !.plan[r.art] = v].plan[r.art] = v
  BY DEF JobRecord, Plans

LEMMA GotoGood ==
    ASSUME JobsInv, NEW j \in Jobs, NEW pc \in PCs \ {"download", "fetch"}, Goto(j, pc)
    PROVE  JobsInv'
  <1> DEFINE r == [job[j] EXCEPT !.pc = pc]
  <1>1. Become(j, r)
    BY DEF Goto, Become
  <1>2. r \in JobRecord /\ r.pc = pc
    <2>1. job[j] \in JobRecord /\ pc \in PCs
      BY JobFields
    <2> QED
      BY <2>1, NextLabel
  <1> HIDE DEF r
  <1> QED
    BY <1>1, <1>2, OtherLabelsGood, BecomeGood

LEMMA AwaitCheckGood ==
    ASSUME FilesOK, JobsInv, NEW j \in Jobs, NEW kind \in {"update", "update_restart"},
           NEW a \in Artifacts, NEW flag \in BOOLEAN, AwaitCheck(j, kind, a, flag)
    PROVE  JobsInv' /\ JustLoads
  <1> DEFINE r == [Idle EXCEPT !.kind = kind, !.pc = "check", !.data = Loaded, !.art = a, !.flag = flag]
  <1>1. Become(j, r)
    BY DEF AwaitCheck
  <1>2. r \in JobRecord /\ r.pc = "check"
    BY LoadedType, IdleType, Labels DEF JobRecord
  <1> HIDE DEF r
  <1> QED
    BY <1>1, <1>2, OtherLabelsGood, BecomeGood DEF AwaitCheck

LEMMA AfterUpdateGood ==
    ASSUME JobsInv, NEW j \in Jobs, NEW ok, AfterUpdate(j, ok)
    PROVE  JobsInv'
  <1> DEFINE r == [job[j] EXCEPT !.pc = "next", !.plan[job[j].art] = 0]
  <1>1. Goto(j, "start") \/ Become(j, r) \/ Become(j, Idle)
    BY DEF AfterUpdate
  <1>2. r \in JobRecord /\ r.pc = "next"
    <2>1. job[j] \in JobRecord /\ "next" \in PCs /\ 0 \in 0..MaxVersion
      BY JobFields, Labels, Numbers
    <2> QED
      BY <2>1 DEF JobRecord
  <1> HIDE DEF r
  <1> QED
    BY <1>1, <1>2, GotoGood, IdleGood, OtherLabelsGood, BecomeGood, Labels

--------------------------------------------------------------------------------
(* The files, artifact by artifact.                                        *)

\* A load changes no entry of an artifact that is not disturbed.
LEMMA LoadedSame ==
    ASSUME FilesOK, FilesInv, NEW a \in Artifacts \ disturbed
    PROVE  Loaded.file[a] = versions.file[a]
  <1> DEFINE chosen == CHOOSE v \in Installed(a) : TRUE
  <1>1. Loaded.file[a] = IF a \in autoSync /\ versions.file[a] # 0 /\ Cardinality(Installed(a)) = 1
                         THEN chosen ELSE versions.file[a]
    BY DataFields DEF Loaded, FilesOK, Plans, VersionsData
  <1>2. ASSUME versions.file[a] # 0, Cardinality(Installed(a)) = 1
        PROVE  chosen = versions.file[a]
    <2>1. chosen \in Installed(a)
      BY <1>2, Detected
    <2> HIDE DEF chosen
    <2>2. chosen \in Versions /\ <<a, chosen>> \in jars
      BY <2>1 DEF Installed, Versions
    <2> QED
      BY <1>2, <2>2 DEF FilesInv, Exact
  <1> HIDE DEF chosen
  <1> QED
    BY <1>1, <1>2

\* Data that is not stale says what the file says.
LEMMA FreshSame ==
    ASSUME FilesOK, FilesInv, NEW data, NEW a \in Artifacts, a \notin disturbed, a \notin Stale(data)
    PROVE  data.file[a] = versions.file[a]
  BY LoadedSame DEF Stale

LEMMA ExactKept ==
    ASSUME NEW a \in Artifacts, Exact(a), versions'.file[a] = versions.file[a],
           \A v \in Versions : <<a, v>> \in jars' <=> <<a, v>> \in jars
    PROVE  Exact(a)'
  BY DEF Exact, Versions

LEMMA ExactPut ==
    ASSUME NEW a \in Artifacts, NEW v \in Versions, versions'.file[a] = v,
           \A w \in Versions : <<a, w>> \in jars' <=> w = v
    PROVE  Exact(a)'
  <1>1. v # 0
    BY Numbers DEF Versions
  <1> QED
    BY <1>1 DEF Exact, Versions

\* Nothing happened to the files but that the server or the requests changed.
LEMMA FilesUnchanged ==
    ASSUME FilesInv, UNCHANGED <<versions, jars, script, disturbed>>
    PROVE  FilesInv'
  BY DEF FilesInv, Exact, ScriptLaunchesTracked

LEMMA LoadKeeps ==
    ASSUME FilesOK, FilesInv, JustLoads, Requested \/ UNCHANGED requests
    PROVE  FilesOK' /\ FilesInv' /\ disturbed' = disturbed
  <1>1. FilesOK' /\ disturbed' = disturbed
    BY JustLoadsType DEF JustLoads
  <1>2. \A a \in Artifacts \ disturbed : versions'.file[a] = versions.file[a]
    BY LoadedSame DEF JustLoads
  <1>3. ASSUME NEW a \in Artifacts \ disturbed PROVE Exact(a)'
    <2>1. Exact(a) /\ jars' = jars
      BY DEF FilesInv, JustLoads, FilesKept
    <2> QED
      BY <1>2, <2>1, ExactKept
  <1>4. ScriptLaunchesTracked'
    BY <1>2, Numbers DEF FilesInv, ScriptLaunchesTracked, JustLoads, FilesKept
  <1> QED
    BY <1>1, <1>3, <1>4 DEF FilesInv

\* The invariant is kept when, of every artifact that stays undisturbed, either
\* nothing changes or one jar is put in place and tracked.
LEMMA FilesInvKept ==
    ASSUME FilesInv, disturbed \subseteq disturbed',
           \A a \in Artifacts \ disturbed' :
              \/ /\ versions'.file[a] = versions.file[a]
                 /\ \A v \in Versions : <<a, v>> \in jars' <=> <<a, v>> \in jars
              \/ \E v \in Versions : /\ versions'.file[a] = v
                                    /\ \A w \in Versions : <<a, w>> \in jars' <=> w = v,
           Paper \notin disturbed' => script' = versions'.file[Paper]
    PROVE  FilesInv'
  <1>1. ASSUME NEW a \in Artifacts \ disturbed' PROVE Exact(a)'
    <2>1. Exact(a)
      BY DEF FilesInv
    <2> QED
      BY <2>1, ExactKept, ExactPut
  <1> QED
    BY <1>1 DEF FilesInv, ScriptLaunchesTracked

--------------------------------------------------------------------------------
(* The steps of the coroutines.                                            *)

LEMMA OthersGood ==
    ASSUME ManifestInv, ExecInv, OthersKept, disturbed \subseteq disturbed'
    PROVE  ManifestInv' /\ ExecInv'
  BY DEF ManifestInv, ExecInv, ExecGood, SnapGood, OthersKept

LEMMA LoadStep ==
    ASSUME IInv, JustLoads, Requested \/ UNCHANGED requests, JobsInv', OthersKept
    PROVE  IInv'
  BY LoadKeeps, OthersGood DEF IInv

LEMMA QuietStep ==
    ASSUME IInv, UNCHANGED <<versions, jars, dated, backups, script, autoSync, disturbed>>,
           serverUp' \in BOOLEAN, Requested \/ UNCHANGED requests, JobsInv', OthersKept
    PROVE  IInv'
  <1>1. requests' \in 0..MaxRequests
    BY Numbers DEF Requested, IInv, FilesOK
  <1>2. FilesOK'
    BY <1>1 DEF IInv, FilesOK
  <1> QED
    BY <1>2, FilesUnchanged, OthersGood DEF IInv

LEMMA StillFiles ==
    ASSUME IInv, UNCHANGED fileVars, JobsInv', OthersKept
    PROVE  IInv'
  BY QuietStep DEF fileVars, IInv, FilesOK

\* An update request, with the stop and the start around it.
LEMMA UpdateRequestKeeps ==
    ASSUME IInv, NEW j \in Jobs, UpdateRequest(j)
    PROVE  IInv'
  <1>1. PICK a \in Artifacts : AwaitCheck(j, "update", a, FALSE)
    BY DEF UpdateRequest
  <1>2. JobsInv' /\ JustLoads
    BY <1>1, AwaitCheckGood DEF IInv
  <1> QED
    BY <1>2, LoadStep DEF UpdateRequest

LEMMA RestartUpdateRequestKeeps ==
    ASSUME IInv, NEW j \in Jobs, RestartUpdateRequest(j)
    PROVE  IInv'
  <1>1. PICK a \in Artifacts :
           \/ /\ Become(j, [Idle EXCEPT !.kind = "update_restart", !.pc = "stop", !.art = a, !.flag = TRUE])
              /\ UNCHANGED <<versions, disturbed>> /\ FilesKept
           \/ AwaitCheck(j, "update_restart", a, FALSE)
    BY DEF RestartUpdateRequest
  <1>2. CASE /\ Become(j, [Idle EXCEPT !.kind = "update_restart", !.pc = "stop", !.art = a, !.flag = TRUE])
             /\ UNCHANGED <<versions, disturbed>> /\ FilesKept
    <2> DEFINE r == [Idle EXCEPT !.kind = "update_restart", !.pc = "stop", !.art = a, !.flag = TRUE]
    <2>1. r \in JobRecord /\ r.pc = "stop"
      BY IdleType, Labels DEF JobRecord
    <2>2. Become(j, r)
      BY <1>2
    <2> HIDE DEF r
    <2>3. JobsInv'
      BY <2>1, <2>2, OtherLabelsGood, BecomeGood DEF IInv
    <2> QED
      BY <1>2, <2>3, QuietStep DEF RestartUpdateRequest, FilesKept, IInv, FilesOK
  <1>3. CASE AwaitCheck(j, "update_restart", a, FALSE)
    <2>1. JobsInv' /\ JustLoads
      BY <1>3, AwaitCheckGood DEF IInv
    <2> QED
      BY <2>1, LoadStep DEF RestartUpdateRequest
  <1> QED
    BY <1>1, <1>2, <1>3

LEMMA RestartUpdateStopsKeeps ==
    ASSUME IInv, NEW j \in Jobs, RestartUpdateStops(j)
    PROVE  IInv'
  <1>1. CASE /\ \/ serverUp' = FALSE /\ Goto(j, "pause")
                \/ serverUp /\ Become(j, Idle) /\ UNCHANGED serverUp
             /\ UNCHANGED <<versions, jars, dated, backups, script, autoSync, requests, disturbed>>
    <2>1. JobsInv'
      BY <1>1, GotoGood, IdleGood, Labels DEF IInv
    <2> QED
      BY <1>1, <2>1, QuietStep DEF RestartUpdateStops, IInv, FilesOK
  <1>2. CASE /\ UNCHANGED requests
             /\ \/ AwaitCheck(j, "update_restart", job[j].art, TRUE)
                \/ Become(j, Idle) /\ JustLoads
    <2>1. JobsInv' /\ JustLoads
      BY <1>2, AwaitCheckGood, IdleGood, JobFields DEF IInv
    <2> QED
      BY <1>2, <2>1, LoadStep DEF RestartUpdateStops
  <1> QED
    BY <1>1, <1>2 DEF RestartUpdateStops

LEMMA RestartUpdateStartsKeeps ==
    ASSUME IInv, NEW j \in Jobs, RestartUpdateStarts(j)
    PROVE  IInv'
  <1>1. JobsInv'
    BY IdleGood DEF RestartUpdateStarts, IInv
  <1> QED
    BY <1>1, QuietStep DEF RestartUpdateStarts, IInv, FilesOK

\* apply_update begins: a backup of a jar that is in place, or nothing.
LEMMA ApplyBeginsKeeps ==
    ASSUME IInv, NEW j \in Jobs, NEW a \in Artifacts, NEW v \in Versions,
           ApplyBegins(j, a, v), OthersKept
    PROVE  IInv'
  <1>1. Loaded \in VersionsData
    BY LoadedType DEF IInv
  <1>2. CASE /\ <<a, Loaded.file[a]>> \in jars
             /\ Backup(a, Loaded.file[a])
             /\ versions' = Loaded
             /\ Become(j, [job[j] EXCEPT !.pc = "download", !.data = Loaded, !.art = a, !.plan[a] = v])
             /\ UNCHANGED <<jars, dated, script, serverUp, autoSync, requests, disturbed>>
    <2>1. Loaded.file[a] \in Versions
      BY <1>2, JarType DEF IInv, FilesOK
    <2>2. FilesOK'
      BY <1>1, <1>2, <2>1, BackupType DEF IInv, FilesOK
    <2>3. FilesInv'
      <3>1. \A b \in Artifacts \ disturbed : versions'.file[b] = versions.file[b]
        BY <1>2, LoadedSame DEF IInv
      <3>2. Paper \notin disturbed' => script' = versions'.file[Paper]
        BY <1>2, <3>1, Numbers DEF IInv, FilesInv, ScriptLaunchesTracked
      <3> QED
        BY <1>2, <3>1, <3>2, FilesInvKept DEF IInv
    <2>4. JobsInv'
      <3> DEFINE r == [job[j] EXCEPT !.pc = "download", !.data = Loaded, !.art = a, !.plan[a] = v]
      <3>1. v \in 0..MaxVersion /\ v # 0 /\ Loaded.file[a] # 0 /\ job[j] \in JobRecord
        BY <2>1, Numbers, JobFields DEF IInv, Versions
      <3>2. r \in JobRecord /\ r.pc = "download" /\ r.data = Loaded /\ r.art = a /\ r.plan[a] = v
        BY <1>1, <3>1, Labels DEF JobRecord
      <3>3. Become(j, r)
        BY <1>2
      <3> HIDE DEF r
      <3>4. JobGood(r)
        BY <3>1, <3>2 DEF JobGood
      <3> QED
        BY <3>2, <3>3, <3>4, BecomeGood DEF IInv
    <2> QED
      BY <1>2, <2>2, <2>3, <2>4, OthersGood DEF IInv
  <1>3. CASE JustLoads /\ UNCHANGED requests /\ AfterUpdate(j, FALSE)
    BY <1>3, AfterUpdateGood, LoadStep DEF IInv
  <1> QED
    BY <1>2, <1>3 DEF ApplyBegins

LEMMA UpdateCheckedKeeps ==
    ASSUME IInv, NEW j \in Jobs, UpdateChecked(j)
    PROVE  IInv'
  <1>1. CASE AfterUpdate(j, TRUE) /\ UNCHANGED fileVars
    BY <1>1, AfterUpdateGood, StillFiles DEF UpdateChecked, IInv
  <1>2. CASE \E v \in Newer(job[j].data, job[j].art) : ApplyBegins(j, job[j].art, v)
    <2>1. PICK v \in Newer(job[j].data, job[j].art) : ApplyBegins(j, job[j].art, v)
      BY <1>2
    <2>2. v \in Versions /\ job[j].art \in Artifacts
      BY JobFields DEF Newer, Versions, IInv
    <2> QED
      BY <2>1, <2>2, ApplyBeginsKeeps DEF UpdateChecked
  <1> QED
    BY <1>1, <1>2 DEF UpdateChecked

LEMMA ReplacedJars ==
    ASSUME NEW data, NEW a \in Artifacts, NEW v \in Versions, NEW b, NEW w
    PROVE  <<b, w>> \in Replaced(data, a, v)
              <=> \/ <<b, w>> \in jars /\ ~ (b = a /\ w = data.file[a])
                  \/ b = a /\ w = v
  BY DEF Replaced

\* apply_update ends: the files are exchanged and the entry saved, ...
LEMMA ApplyExchangesKeeps ==
    ASSUME IInv, NEW j \in Jobs, job[j].pc = "download", ApplyExchanges(j),
           UNCHANGED <<backups, serverUp, autoSync, requests>>
    PROVE  FilesOK' /\ FilesInv' /\ disturbed \subseteq disturbed'
  <1> DEFINE data == job[j].data
             a == job[j].art
             v == job[j].plan[a]
  <1>1. /\ data \in VersionsData /\ a \in Artifacts /\ v \in Versions
        /\ data.file[a] \in Versions
    BY JobFields, DataFields, Numbers DEF JobGood, IInv, Plans, Versions
  <1>2. /\ jars' = Replaced(data, a, v)
        /\ Put(Replaced(data, a, v), {<<a, v>>})
        /\ versions' = [data EXCEPT !.file[a] = v]
        /\ script' \in IF a = Paper THEN {script, v} ELSE {script}
        /\ disturbed' = disturbed \cup Stale(data) \cup IF a = Paper /\ script' # v THEN {Paper} ELSE {}
    BY DEF ApplyExchanges, Put
  <1> HIDE DEF data, a, v
  <1>3. versions' \in VersionsData /\ versions'.file = [data.file EXCEPT ![a] = v]
    BY <1>1, <1>2, EntryType, Numbers
  <1>4. Stale(data) \subseteq Artifacts
    BY StaleType
  <1>5. disturbed \subseteq disturbed' /\ disturbed' \subseteq Artifacts
    BY <1>2, <1>4, Numbers DEF IInv, FilesOK
  <1>6. FilesOK'
    <2>1. Replaced(data, a, v) \subseteq Jars
      BY <1>1, ReplacedType DEF IInv
    <2>2. jars' \subseteq Jars /\ dated' \subseteq jars'
      BY <1>2, <2>1, PutType
    <2>3. script' \in Versions
      BY <1>1, <1>2 DEF IInv, FilesOK
    <2> QED
      BY <1>3, <1>5, <2>2, <2>3 DEF IInv, FilesOK
  <1>7. ASSUME NEW b \in Artifacts \ disturbed'
        PROVE  \/ /\ versions'.file[b] = versions.file[b]
                  /\ \A w \in Versions : <<b, w>> \in jars' <=> <<b, w>> \in jars
               \/ \E x \in Versions : /\ versions'.file[b] = x
                                     /\ \A w \in Versions : <<b, w>> \in jars' <=> w = x
    <2>1. b \notin disturbed /\ b \notin Stale(data)
      BY <1>2
    <2>2. data.file[b] = versions.file[b] /\ Exact(b)
      BY <2>1, FreshSame DEF IInv, FilesInv
    <2>3. \A w \in Versions : <<b, w>> \in jars' <=>
             \/ <<b, w>> \in jars /\ ~ (b = a /\ w = data.file[a])
             \/ b = a /\ w = v
      BY <1>1, <1>2, ReplacedJars
    <2>4. CASE b = a
      <3>1. \A w \in Versions : <<b, w>> \in jars <=> w = data.file[a]
        BY <1>1, <2>2, <2>4, Numbers DEF Exact, Versions
      <3>2. versions'.file[b] = v
        BY <1>1, <1>3, <2>4, DataFields DEF Plans
      <3> QED
        BY <1>1, <2>3, <2>4, <3>1, <3>2
    <2>5. CASE b # a
      <3>1. versions'.file[b] = versions.file[b]
        BY <1>1, <1>3, <2>2, <2>5, DataFields DEF Plans
      <3> QED
        BY <2>3, <2>5, <3>1
    <2> QED
      BY <2>4, <2>5
  <1>8. ASSUME Paper \notin disturbed' PROVE script' = versions'.file[Paper]
    <2>1. Paper \notin disturbed /\ Paper \notin Stale(data)
      BY <1>2, <1>8
    <2>2. data.file[Paper] = versions.file[Paper]
      BY <2>1, FreshSame, Numbers DEF IInv
    <2>3. versions'.file[Paper] = IF a = Paper THEN v ELSE data.file[Paper]
      BY <1>1, <1>3, DataFields, Numbers DEF Plans
    <2>4. CASE a = Paper
      BY <1>2, <1>8, <2>3, <2>4
    <2>5. CASE a # Paper
      BY <1>2, <2>1, <2>2, <2>3, <2>5 DEF IInv, FilesInv, ScriptLaunchesTracked
    <2> QED
      BY <2>4, <2>5
  <1>9. FilesInv'
    BY <1>5, <1>7, <1>8, FilesInvKept DEF IInv
  <1> QED
    BY <1>5, <1>6, <1>9

\* ... or only a part of it is done, to an artifact that is disturbed then.
LEMMA ApplyFailsKeeps ==
    ASSUME IInv, NEW j \in Jobs, job[j].pc = "download", ApplyFails(j)
    PROVE  FilesOK' /\ FilesInv' /\ disturbed \subseteq disturbed'
  <1> DEFINE data == job[j].data
             a == job[j].art
             v == job[j].plan[a]
  <1>1. data \in VersionsData /\ a \in Artifacts /\ v \in Versions
    BY JobFields, Numbers DEF JobGood, IInv, Plans, Versions
  <1>2. CASE UNCHANGED fileVars
    BY <1>2, FilesUnchanged DEF fileVars, IInv, FilesOK
  <1>3. ASSUME NEW left \in {jars \ {<<a, data.file[a]>>}, Replaced(data, a, v)}, Put(left, {<<a, v>>}),
               disturbed' = disturbed \cup {a},
               UNCHANGED <<versions, backups, script, serverUp, autoSync, requests>>
        PROVE  FilesOK' /\ FilesInv' /\ disturbed \subseteq disturbed'
    <2> HIDE DEF data, a, v
    <2>1. left \subseteq Jars
      BY <1>1, <1>3, ReplacedType DEF IInv, FilesOK
    <2>2. FilesOK'
      BY <1>1, <1>3, <2>1, PutType DEF IInv, FilesOK
    <2>3. \A b \in Artifacts \ {a} : \A w \in Versions : <<b, w>> \in jars' <=> <<b, w>> \in jars
      BY <1>1, <1>3, ReplacedJars DEF Put
    <2>4. Paper \notin disturbed' => script' = versions'.file[Paper]
      BY <1>3 DEF IInv, FilesInv, ScriptLaunchesTracked
    <2> QED
      BY <1>3, <2>2, <2>3, <2>4, FilesInvKept DEF IInv
  <1> QED
    BY <1>2, <1>3 DEF ApplyFails

LEMMA ApplyEndsKeeps ==
    ASSUME IInv, NEW j \in Jobs, ApplyEnds(j)
    PROVE  IInv'
  <1>1. FilesOK' /\ FilesInv' /\ disturbed \subseteq disturbed'
    BY ApplyExchangesKeeps, ApplyFailsKeeps DEF ApplyEnds
  <1>2. JobsInv'
    BY AfterUpdateGood DEF ApplyEnds, IInv
  <1> QED
    BY <1>1, <1>2, OthersGood DEF ApplyEnds, IInv

LEMMA CheckRequestKeeps ==
    ASSUME IInv, NEW j \in Jobs, CheckRequest(j)
    PROVE  IInv'
  <1>1. PICK kind \in {"check", "auto"} :
           Become(j, [Idle EXCEPT !.kind = kind, !.pc = "check_all", !.data = Loaded])
    BY DEF CheckRequest
  <1> DEFINE r == [Idle EXCEPT !.kind = kind, !.pc = "check_all", !.data = Loaded]
  <1>2. r \in JobRecord /\ r.pc = "check_all"
    BY LoadedType, IdleType, Labels DEF JobRecord, IInv
  <1>3. Become(j, r)
    BY <1>1
  <1> HIDE DEF r
  <1>4. JobsInv'
    BY <1>2, <1>3, OtherLabelsGood, BecomeGood DEF IInv
  <1> QED
    BY <1>4, LoadStep DEF CheckRequest

\* A check saves what it had read: of an artifact that is not disturbed by it,
\* what the file says.
LEMMA CheckEndsKeeps ==
    ASSUME IInv, NEW j \in Jobs, CheckEnds(j)
    PROVE  IInv'
  <1>1. job[j] \in JobRecord /\ job[j].data \in VersionsData
    BY JobFields DEF IInv
  <1>2. disturbed \subseteq disturbed' /\ disturbed' \subseteq Artifacts
    BY StaleType DEF CheckEnds, IInv, FilesOK
  <1>3. FilesOK'
    BY <1>1, <1>2 DEF CheckEnds, FilesKept, IInv, FilesOK
  <1>4. \A a \in Artifacts \ disturbed' : versions'.file[a] = versions.file[a]
    BY FreshSame DEF CheckEnds, IInv
  <1>5. Paper \notin disturbed' => script' = versions'.file[Paper]
    BY <1>2, <1>4, Numbers DEF CheckEnds, FilesKept, IInv, FilesInv, ScriptLaunchesTracked
  <1>6. FilesInv'
    BY <1>2, <1>4, <1>5, FilesInvKept DEF CheckEnds, FilesKept, IInv
  <1>7. JobsInv'
    <2>1. CASE Become(j, Idle)
      BY <2>1, IdleGood DEF IInv
    <2>2. CASE \E plan \in [Artifacts -> 0..MaxVersion] :
                  Become(j, [job[j] EXCEPT !.pc = "next", !.plan = plan])
      <3>1. PICK plan \in Plans : Become(j, [job[j] EXCEPT !.pc = "next", !.plan = plan])
        BY <2>2 DEF Plans
      <3> DEFINE r == [job[j] EXCEPT !.pc = "next", !.plan = plan]
      <3>2. r \in JobRecord /\ r.pc = "next"
        BY <1>1, Labels, NextPlan
      <3>3. Become(j, r)
        BY <3>1
      <3> HIDE DEF r
      <3> QED
        BY <3>2, <3>3, OtherLabelsGood, BecomeGood DEF IInv
    <2> QED
      BY <2>1, <2>2 DEF CheckEnds
  <1> QED
    BY <1>2, <1>3, <1>6, <1>7, OthersGood DEF CheckEnds, IInv

LEMMA AutoNextKeeps ==
    ASSUME IInv, NEW j \in Jobs, AutoNext(j)
    PROVE  IInv'
  <1>1. CASE \E p \in Plugins : job[j].plan[p] # 0 /\ ApplyBegins(j, p, job[j].plan[p])
    <2>1. PICK p \in Plugins : job[j].plan[p] # 0 /\ ApplyBegins(j, p, job[j].plan[p])
      BY <1>1
    <2>2. job[j].plan[p] \in Versions /\ p \in Artifacts
      BY <2>1, JobFields, Numbers DEF IInv, Plans, Versions
    <2> QED
      BY <2>1, <2>2, ApplyBeginsKeeps DEF AutoNext
  <1>2. CASE Become(j, Idle) /\ UNCHANGED fileVars
    BY <1>2, IdleGood, StillFiles DEF AutoNext, IInv
  <1> QED
    BY <1>1, <1>2 DEF AutoNext

LEMMA AutoCancelledKeeps ==
    ASSUME IInv, NEW j \in Jobs, AutoCancelled(j)
    PROVE  IInv'
  BY IdleGood, StillFiles DEF AutoCancelled, IInv

LEMMA InstallRequestKeeps ==
    ASSUME IInv, NEW j \in Jobs, InstallRequest(j)
    PROVE  IInv'
  <1>1. PICK p \in Plugins :
           Become(j, [Idle EXCEPT !.kind = "install", !.pc = "resolve", !.data = Loaded, !.art = p])
    BY DEF InstallRequest
  <1> DEFINE r == [Idle EXCEPT !.kind = "install", !.pc = "resolve", !.data = Loaded, !.art = p]
  <1>2. r \in JobRecord /\ r.pc = "resolve"
    BY LoadedType, IdleType, Labels, Numbers DEF JobRecord, IInv
  <1>3. Become(j, r)
    BY <1>1
  <1> HIDE DEF r
  <1>4. JobsInv'
    BY <1>2, <1>3, OtherLabelsGood, BecomeGood DEF IInv
  <1> QED
    BY <1>4, LoadStep DEF InstallRequest

LEMMA InstallResolvedKeeps ==
    ASSUME IInv, NEW j \in Jobs, InstallResolved(j)
    PROVE  IInv'
  <1>1. JobsInv'
    <2>1. CASE Become(j, Idle)
      BY <2>1, IdleGood DEF IInv
    <2>2. CASE \E v \in (1..MaxVersion) \ Installed(job[j].art) :
                  Become(j, [job[j] EXCEPT !.pc = "fetch", !.plan[job[j].art] = v])
      <3>1. PICK v \in Versions : Become(j, [job[j] EXCEPT !.pc = "fetch", !.plan[job[j].art] = v])
        BY <2>2 DEF Versions
      <3> DEFINE r == [job[j] EXCEPT !.pc = "fetch", !.plan[job[j].art] = v]
      <3>2. v \in 0..MaxVersion /\ v # 0 /\ job[j] \in JobRecord
        BY Numbers, JobFields DEF Versions, IInv
      <3>3. r \in JobRecord /\ r.pc = "fetch" /\ r.plan[r.art] = v
        BY <3>2, Labels DEF JobRecord
      <3>4. Become(j, r)
        BY <3>1
      <3> HIDE DEF r
      <3>5. JobGood(r)
        BY <3>2, <3>3 DEF JobGood
      <3> QED
        BY <3>3, <3>4, <3>5, BecomeGood DEF IInv
    <2> QED
      BY <2>1, <2>2 DEF InstallResolved
  <1> QED
    BY <1>1, StillFiles DEF InstallResolved

\* An install puts its jar beside what is there: the artifact stays undisturbed
\* only when nothing was.
LEMMA InstallEndsKeeps ==
    ASSUME IInv, NEW j \in Jobs, InstallEnds(j)
    PROVE  IInv'
  <1> DEFINE data == job[j].data
             p == job[j].art
             v == job[j].plan[p]
  <1>1. data \in VersionsData /\ p \in Artifacts /\ v \in Versions
    BY JobFields, Numbers DEF InstallEnds, JobGood, IInv, Plans, Versions
  <1>2. JobsInv'
    BY IdleGood DEF InstallEnds, IInv
  <1>3. CASE UNCHANGED fileVars
    BY <1>2, <1>3, StillFiles DEF InstallEnds
  <1>4. ASSUME Put(jars \cup {<<p, v>>}, {<<p, v>>}),
               UNCHANGED <<backups, script, serverUp, autoSync, requests>>,
               \/ /\ versions' = [data EXCEPT !.file[p] = v, !.manual = @ \ {p}]
                  /\ disturbed' = disturbed \cup Stale(data) \cup IF Installed(p) = {} THEN {} ELSE {p}
               \/ disturbed' = disturbed \cup {p} /\ UNCHANGED versions
        PROVE  FilesOK' /\ FilesInv' /\ disturbed \subseteq disturbed'
    <2> HIDE DEF data, p, v
    <2>1. jars \cup {<<p, v>>} \subseteq Jars
      BY <1>1, JarType DEF IInv, FilesOK
    <2>2. jars' = jars \cup {<<p, v>>} /\ jars' \subseteq Jars /\ dated' \subseteq jars'
      BY <1>4, <2>1, PutType
    <2>3. disturbed \subseteq disturbed' /\ disturbed' \subseteq Artifacts
      BY <1>1, <1>4, StaleType DEF IInv, FilesOK
    <2>4. CASE disturbed' = disturbed \cup {p} /\ UNCHANGED versions
      <3>1. FilesOK'
        BY <1>4, <2>2, <2>3, <2>4 DEF IInv, FilesOK
      <3>2. Paper \notin disturbed' => script' = versions'.file[Paper]
        BY <1>4, <2>4 DEF IInv, FilesInv, ScriptLaunchesTracked
      <3>3. \A b \in Artifacts \ disturbed' : \A w \in Versions : <<b, w>> \in jars' <=> <<b, w>> \in jars
        BY <2>2, <2>4
      <3>4. FilesInv'
        BY <2>3, <2>4, <3>2, <3>3, FilesInvKept DEF IInv
      <3> QED
        BY <2>3, <3>1, <3>4
    <2>5. CASE /\ versions' = [data EXCEPT !.file[p] = v, !.manual = @ \ {p}]
               /\ disturbed' = disturbed \cup Stale(data) \cup IF Installed(p) = {} THEN {} ELSE {p}
      <3>1. v \in 0..MaxVersion
        BY <1>1, Numbers
      <3>2. versions' \in VersionsData /\ versions'.file = [data.file EXCEPT ![p] = v]
        BY <1>1, <2>5, <3>1 DEF VersionsData
      <3>3. FilesOK'
        BY <1>4, <2>2, <2>3, <3>2 DEF IInv, FilesOK
      <3>4. \A b \in Artifacts \ disturbed' :
               b \notin disturbed /\ data.file[b] = versions.file[b] /\ (b = p => Installed(p) = {})
        BY <2>5, FreshSame DEF IInv
      <3>5. ASSUME NEW b \in Artifacts \ disturbed'
            PROVE  \/ /\ versions'.file[b] = versions.file[b]
                      /\ \A w \in Versions : <<b, w>> \in jars' <=> <<b, w>> \in jars
                   \/ \E x \in Versions : /\ versions'.file[b] = x
                                         /\ \A w \in Versions : <<b, w>> \in jars' <=> w = x
        <4>1. CASE b = p
          <5>1. \A w \in Versions : <<b, w>> \notin jars
            BY <3>4, <4>1 DEF Installed, Versions
          <5>2. \A w \in Versions : <<b, w>> \in jars' <=> w = v
            BY <2>2, <4>1, <5>1
          <5>3. versions'.file[b] = v
            BY <1>1, <3>2, <4>1, DataFields DEF Plans
          <5> QED
            BY <1>1, <5>2, <5>3
        <4>2. CASE b # p
          <5>1. versions'.file[b] = versions.file[b]
            BY <1>1, <3>2, <3>4, <4>2, DataFields DEF Plans
          <5> QED
            BY <2>2, <4>2, <5>1
        <4> QED
          BY <4>1, <4>2
      <3>6. Paper \notin disturbed' => script' = versions'.file[Paper]
        <4> SUFFICES ASSUME Paper \notin disturbed' PROVE script' = versions'.file[Paper]
          OBVIOUS
        <4>1. data.file[Paper] = versions.file[Paper] /\ script' = versions.file[Paper]
          BY <1>4, <3>4, Numbers DEF IInv, FilesInv, ScriptLaunchesTracked
        <4>2. p # Paper
          <5> SUFFICES ASSUME p = Paper PROVE FALSE
            OBVIOUS
          <5>1. \A w \in Versions : <<Paper, w>> \notin jars
            BY <3>4, Numbers DEF Installed, Versions
          <5>2. Exact(Paper) /\ versions.file[Paper] = script /\ script \in Versions
            BY <3>4, Numbers DEF IInv, FilesOK, FilesInv, ScriptLaunchesTracked
          <5>3. script # 0
            BY <5>2, Numbers DEF Versions
          <5>4. <<Paper, script>> \in jars
            BY <5>2, <5>3 DEF Exact
          <5> QED
            BY <5>1, <5>2, <5>4
        <4> QED
          BY <1>1, <3>2, <4>1, <4>2, DataFields, Numbers DEF Plans
      <3>7. FilesInv'
        BY <2>3, <3>5, <3>6, FilesInvKept DEF IInv
      <3> QED
        BY <2>3, <3>3, <3>7
    <2> QED
      BY <1>4, <2>4, <2>5
  <1>5. CASE ~ UNCHANGED fileVars
    BY <1>2, <1>4, <1>5, OthersGood DEF InstallEnds, IInv
  <1> QED
    BY <1>3, <1>5

--------------------------------------------------------------------------------
(* The requests that do not await, manifests, and the rest of the system.  *)

LEMMA JobVarsKept ==
    ASSUME IInv, FilesOK', FilesInv', disturbed \subseteq disturbed', UNCHANGED jobVars
    PROVE  IInv'
  <1>1. JobsInv'
    BY DEF jobVars, IInv, JobsInv, JobsOK, JobGood
  <1> QED
    BY <1>1, OthersGood DEF jobVars, OthersKept, IInv

LEMMA TrackKeeps ==
    ASSUME IInv, Track
    PROVE  IInv'
  <1>1. PICK p \in Plugins, manual \in BOOLEAN :
           LET sources(data) == [data EXCEPT !.manual = IF manual THEN @ \cup {p} ELSE @ \ {p}]
           IN  \/ Loaded.file[p] # 0 /\ versions' = sources(Loaded)
               \/ /\ Loaded.file[p] = 0
                  /\ \E v \in Installed(p) : versions' = [sources(Loaded) EXCEPT !.file[p] = v]
    BY DEF Track
  <1> DEFINE chosen == [Loaded EXCEPT !.manual = IF manual THEN @ \cup {p} ELSE @ \ {p}]
  <1>2. Loaded \in VersionsData /\ p \in Artifacts /\ p # Paper
    BY LoadedType, Numbers DEF IInv
  <1>3. chosen \in VersionsData /\ chosen.file = Loaded.file
    BY <1>2 DEF VersionsData
  <1>4. requests' \in 0..MaxRequests
    <2>1. Requested
      BY DEF Track
    <2> QED
      BY <2>1, Numbers DEF Requested, IInv, FilesOK
  <1>5. \A b \in Artifacts \ disturbed : Loaded.file[b] = versions.file[b]
    BY LoadedSame DEF IInv
  <1>6. CASE versions' = chosen
    <2>1. FilesOK'
      BY <1>3, <1>4, <1>6 DEF Track, FilesKept, IInv, FilesOK
    <2>2. \A b \in Artifacts \ disturbed : versions'.file[b] = versions.file[b]
      BY <1>3, <1>5, <1>6
    <2>3. Paper \notin disturbed' => script' = versions'.file[Paper]
      BY <2>2, Numbers DEF Track, FilesKept, IInv, FilesInv, ScriptLaunchesTracked
    <2>4. FilesInv'
      BY <2>2, <2>3, FilesInvKept DEF Track, FilesKept, IInv
    <2> QED
      BY <2>1, <2>4, JobVarsKept DEF Track
  <1>7. ASSUME NEW v \in Installed(p), Loaded.file[p] = 0, versions' = [chosen EXCEPT !.file[p] = v]
        PROVE  IInv'
    <2> HIDE DEF chosen
    <2>1. v \in Versions /\ v \in 0..MaxVersion /\ <<p, v>> \in jars
      BY <1>7, Numbers DEF Installed, Versions
    <2>2. versions' \in VersionsData /\ versions'.file = [Loaded.file EXCEPT ![p] = v]
      BY <1>2, <1>3, <1>7, <2>1, EntryType
    <2>3. FilesOK'
      BY <1>4, <2>2 DEF Track, FilesKept, IInv, FilesOK
    <2>4. ASSUME NEW b \in Artifacts \ disturbed'
          PROVE  \/ /\ versions'.file[b] = versions.file[b]
                    /\ \A w \in Versions : <<b, w>> \in jars' <=> <<b, w>> \in jars
                 \/ \E x \in Versions : /\ versions'.file[b] = x
                                       /\ \A w \in Versions : <<b, w>> \in jars' <=> w = x
      <3>1. b \notin disturbed /\ jars' = jars
        BY DEF Track, FilesKept
      <3>2. CASE b = p
        <4>1. versions'.file[b] = v
          BY <1>2, <2>2, <3>2, DataFields DEF Plans
        <4>2. versions.file[b] = 0 /\ Exact(b)
          BY <1>2, <1>5, <1>7, <3>1, <3>2 DEF IInv, FilesInv
        <4>3. \A w \in Versions : <<b, w>> \in jars <=> w = v
          BY <2>1, <3>2, <4>2 DEF Exact
        <4> QED
          BY <2>1, <3>1, <4>1, <4>3
      <3>3. CASE b # p
        <4>1. versions'.file[b] = versions.file[b]
          BY <1>2, <1>5, <2>2, <3>1, <3>3, DataFields DEF Plans
        <4> QED
          BY <3>1, <4>1
      <3> QED
        BY <3>2, <3>3
    <2>5. Paper \notin disturbed' => script' = versions'.file[Paper]
      <3>1. Paper \notin disturbed => versions'.file[Paper] = versions.file[Paper]
        BY <1>2, <1>5, <2>2, DataFields, Numbers DEF Plans
      <3> QED
        BY <3>1 DEF Track, FilesKept, IInv, FilesInv, ScriptLaunchesTracked
    <2>6. FilesInv'
      BY <2>4, <2>5, FilesInvKept DEF Track, IInv
    <2> QED
      BY <2>3, <2>6, JobVarsKept DEF Track
  <1> QED
    BY <1>1, <1>6, <1>7

LEMMA BrowserApplyKeeps ==
    ASSUME IInv, BrowserApply
    PROVE  IInv'
  <1>1. PICK p \in Tracked(Loaded) \ versions.manual, v \in Versions :
           /\ <<p, Loaded.file[p]>> \in jars
           /\ Backup(p, Loaded.file[p])
           /\ Put(Replaced(Loaded, p, v), {<<p, v>>})
           /\ \/ versions' = [Loaded EXCEPT !.file[p] = v] /\ UNCHANGED disturbed
              \/ versions' = Loaded /\ disturbed' = disturbed \cup {p}
    BY DEF BrowserApply, Versions
  <1>2. Loaded \in VersionsData /\ p \in Artifacts /\ p # Paper /\ v \in 0..MaxVersion
    BY LoadedType, Numbers DEF IInv, Tracked
  <1>3. Loaded.file[p] \in Versions
    BY <1>1, <1>2, JarType DEF IInv, FilesOK
  <1>4. requests' \in 0..MaxRequests
    BY Numbers DEF BrowserApply, Requested, IInv, FilesOK
  <1>5. \A b \in Artifacts \ disturbed : Loaded.file[b] = versions.file[b]
    BY LoadedSame DEF IInv
  <1>6. /\ backups' \in [Artifacts -> Seq(Versions)]
        /\ \A b \in Artifacts : Len(backups'[b]) <= KeepBackups
    BY <1>1, <1>2, <1>3, BackupType DEF IInv
  <1>7. jars' = Replaced(Loaded, p, v) /\ jars' \subseteq Jars /\ dated' \subseteq jars'
    BY <1>1, <1>2, ReplacedType, PutType DEF IInv
  <1>8. \A b \in Artifacts : \A w \in Versions :
           <<b, w>> \in jars' <=> \/ <<b, w>> \in jars /\ ~ (b = p /\ w = Loaded.file[p])
                                  \/ b = p /\ w = v
    BY <1>7 DEF Replaced
  <1>9. CASE versions' = Loaded /\ disturbed' = disturbed \cup {p}
    <2>1. FilesOK'
      BY <1>2, <1>4, <1>6, <1>7, <1>9 DEF BrowserApply, IInv, FilesOK
    <2>2. \A b \in Artifacts \ disturbed' :
             /\ versions'.file[b] = versions.file[b]
             /\ \A w \in Versions : <<b, w>> \in jars' <=> <<b, w>> \in jars
      BY <1>5, <1>8, <1>9
    <2>3. Paper \notin disturbed' => script' = versions'.file[Paper]
      BY <1>9, <2>2, Numbers DEF BrowserApply, IInv, FilesInv, ScriptLaunchesTracked
    <2>4. FilesInv'
      BY <1>9, <2>2, <2>3, FilesInvKept DEF IInv
    <2> QED
      BY <1>9, <2>1, <2>4, JobVarsKept DEF BrowserApply
  <1>10. CASE versions' = [Loaded EXCEPT !.file[p] = v] /\ UNCHANGED disturbed
    <2>1. versions' \in VersionsData /\ versions'.file = [Loaded.file EXCEPT ![p] = v]
      BY <1>2, <1>10, EntryType
    <2>2. FilesOK'
      BY <1>4, <1>6, <1>7, <1>10, <2>1 DEF BrowserApply, IInv, FilesOK
    <2>3. ASSUME NEW b \in Artifacts \ disturbed'
          PROVE  \/ /\ versions'.file[b] = versions.file[b]
                    /\ \A w \in Versions : <<b, w>> \in jars' <=> <<b, w>> \in jars
                 \/ \E x \in Versions : /\ versions'.file[b] = x
                                       /\ \A w \in Versions : <<b, w>> \in jars' <=> w = x
      <3>1. b \notin disturbed
        BY <1>10
      <3>2. CASE b = p
        <4>1. versions'.file[b] = v
          BY <1>2, <2>1, <3>2, DataFields DEF Plans
        <4>2. versions.file[b] = Loaded.file[p] /\ versions.file[b] # 0 /\ Exact(b)
          BY <1>3, <1>5, <3>1, <3>2, Numbers DEF IInv, FilesInv, Versions
        <4>3. \A w \in Versions : <<b, w>> \in jars <=> w = Loaded.file[p]
          BY <4>2 DEF Exact
        <4>4. \A w \in Versions : <<b, w>> \in jars' <=> w = v
          BY <1>8, <3>2, <4>3
        <4> QED
          BY <4>1, <4>4
      <3>3. CASE b # p
        <4>1. versions'.file[b] = versions.file[b]
          BY <1>2, <1>5, <2>1, <3>1, <3>3, DataFields DEF Plans
        <4> QED
          BY <1>8, <3>3, <4>1
      <3> QED
        BY <3>2, <3>3
    <2>4. Paper \notin disturbed' => script' = versions'.file[Paper]
      <3>1. Paper \notin disturbed => versions'.file[Paper] = versions.file[Paper]
        BY <1>2, <1>5, <2>1, DataFields, Numbers DEF Plans
      <3> QED
        BY <1>10, <3>1 DEF BrowserApply, IInv, FilesInv, ScriptLaunchesTracked
    <2>5. FilesInv'
      BY <1>10, <2>3, <2>4, FilesInvKept DEF IInv
    <2> QED
      BY <1>10, <2>2, <2>5, JobVarsKept DEF BrowserApply
  <1> QED
    BY <1>1, <1>9, <1>10

LEMMA PreflightRequestKeeps ==
    ASSUME IInv, NEW j \in Jobs, PreflightRequest(j)
    PROVE  IInv'
  <1> DEFINE r == [Idle EXCEPT !.kind = "preflight", !.pc = "preflight", !.data = Loaded]
  <1>1. r \in JobRecord /\ r.pc = "preflight"
    BY LoadedType, IdleType, Labels DEF JobRecord, IInv
  <1>2. Become(j, r)
    BY DEF PreflightRequest
  <1> HIDE DEF r
  <1>3. JobsInv'
    BY <1>1, <1>2, OtherLabelsGood, BecomeGood DEF IInv
  <1> QED
    BY <1>3, LoadStep DEF PreflightRequest

\* A manifest is made only of a newer Paper.
LEMMA PreflightEndsKeeps ==
    ASSUME IInv, NEW j \in Jobs, PreflightEnds(j)
    PROVE  IInv'
  <1> DEFINE data == job[j].data
  <1>1. data \in VersionsData /\ data.mc \in 1..MaxMc /\ data.file[Paper] \in 0..MaxVersion
    BY JobFields, DataFields, Numbers DEF IInv, Plans
  <1>2. JobsInv'
    BY IdleGood DEF PreflightEnds, IInv
  <1>3. FilesOK' /\ FilesInv' /\ UNCHANGED disturbed
    BY FilesUnchanged DEF PreflightEnds, fileVars, IInv, FilesOK
  <1>4. ManifestInv'
    <2>1. CASE UNCHANGED manifest
      BY <2>1 DEF IInv, ManifestInv
    <2>2. CASE \E to \in (data.mc + 1)..MaxMc, plan \in [Artifacts -> 0..MaxVersion] :
                  /\ plan[Paper] > data.file[Paper]
                  /\ manifest' = [made |-> TRUE, mc |-> data.mc, to |-> to, plan |-> plan,
                                  pending |-> Tracked(data) \cap data.manual]
      <3>1. PICK to \in (data.mc + 1)..MaxMc, plan \in [Artifacts -> 0..MaxVersion] :
                  /\ plan[Paper] > data.file[Paper]
                  /\ manifest' = [made |-> TRUE, mc |-> data.mc, to |-> to, plan |-> plan,
                                  pending |-> Tracked(data) \cap data.manual]
        BY <2>2
      <3> HIDE DEF data
      <3>2. to \in 1..MaxMc /\ plan[Paper] # 0
        BY <1>1, <3>1, Numbers
      <3>3. Tracked(data) \cap data.manual \subseteq Plugins
        BY DEF Tracked
      <3> QED
        BY <1>1, <3>1, <3>2, <3>3 DEF ManifestInv, Manifests
    <2> QED
      BY <2>1, <2>2 DEF PreflightEnds
  <1>5. ExecInv'
    BY <1>3 DEF PreflightEnds, IInv, ExecInv, ExecGood, SnapGood
  <1> QED
    BY <1>2, <1>3, <1>4, <1>5 DEF IInv

LEMMA ResolveReviewKeeps ==
    ASSUME IInv, ResolveReview
    PROVE  IInv'
  <1>1. FilesOK' /\ FilesInv' /\ UNCHANGED disturbed
    BY FilesUnchanged DEF ResolveReview, fileVars, IInv, FilesOK
  <1>2. ManifestInv'
    BY DEF ResolveReview, IInv, ManifestInv, Manifests
  <1>3. JobsInv' /\ ExecInv'
    BY <1>1 DEF ResolveReview, IInv, JobsInv, JobsOK, JobGood, ExecInv, ExecGood, SnapGood
  <1> QED
    BY <1>1, <1>2, <1>3 DEF IInv

LEMMA ServerChangesKeeps ==
    ASSUME IInv, ServerChanges, UNCHANGED jobVars
    PROVE  IInv'
  <1>1. FilesOK' /\ FilesInv'
    BY FilesUnchanged DEF ServerChanges, IInv, FilesOK
  <1> QED
    BY <1>1, JobVarsKept DEF ServerChanges

LEMMA PlacedByHandKeeps ==
    ASSUME IInv, PlacedByHand, UNCHANGED jobVars
    PROVE  IInv'
  <1>1. PICK p \in Plugins, v \in Versions :
           /\ jars' = {jar \in jars : jar[1] # p} \cup {<<p, v>>}
           /\ dated' = (dated \cap jars') \cup {<<p, v>>}
           /\ disturbed' = disturbed \cup {p}
    BY DEF PlacedByHand, Versions
  <1>2. p \in Artifacts /\ requests' \in 0..MaxRequests
    BY Numbers DEF PlacedByHand, Requested, IInv, FilesOK
  <1>3. jars' \subseteq Jars /\ dated' \subseteq jars'
    BY <1>1, <1>2, JarType DEF IInv, FilesOK
  <1>4. FilesOK'
    BY <1>1, <1>2, <1>3 DEF PlacedByHand, IInv, FilesOK
  <1>5. \A b \in Artifacts \ disturbed' : \A w \in Versions : <<b, w>> \in jars' <=> <<b, w>> \in jars
    BY <1>1
  <1>6. FilesInv'
    BY <1>1, <1>5, FilesInvKept DEF PlacedByHand, IInv, FilesInv, ScriptLaunchesTracked
  <1> QED
    BY <1>1, <1>4, <1>6, JobVarsKept

LEMMA CrashKeeps ==
    ASSUME IInv, Crash
    PROVE  IInv'
  <1>1. FilesOK' /\ FilesInv'
    BY FilesUnchanged DEF Crash, fileVars, IInv, FilesOK
  <1>2. JobsInv'
    BY IdleType DEF Crash, JobsInv, JobsOK, JobGood, Idle
  <1>3. ExecInv'
    BY NoExecType DEF Crash, ExecInv, ExecGood, SnapGood, NoExec
  <1> QED
    BY <1>1, <1>2, <1>3 DEF Crash, IInv, ManifestInv

--------------------------------------------------------------------------------
(* The upgrade.                                                            *)

LEMMA JobsKeptGood ==
    ASSUME IInv, JobsKept
    PROVE  JobsInv' /\ ManifestInv'
  BY DEF IInv, JobsKept, JobsInv, JobsOK, JobGood, ManifestInv

LEMMA ExecFields ==
    ASSUME NEW e \in Execs
    PROVE  /\ e.data \in VersionsData /\ e.data.file \in Plans
           /\ e.snap \in VersionsData /\ e.snap.file \in Plans
           /\ e.plan \in Plans
           /\ e.to \in 1..MaxMc
           /\ e.snapScript \in Versions
           /\ e.wasUp \in BOOLEAN
  BY DEF Execs, VersionsData, Plans, Versions

\* What a step of the upgrade e knows: its snapshot is of an exact server.
Known(e) ==
    /\ e \in Execs /\ e.plan = exec.plan /\ e.data = exec.data
    /\ exec.plan[Paper] # 0
    /\ \A a \in Planned : exec.data.file[a] # 0
    /\ Paper \notin disturbed => e.snapScript = e.snap.file[Paper]

LEMMA PlannedType ==
    ASSUME NEW e, Known(e)
    PROVE  /\ Planned \subseteq Artifacts /\ Paper \in Planned
           /\ \A a \in Planned : exec.plan[a] \in Versions /\ exec.data.file[a] \in Versions
           /\ \A a \in Artifacts \ Planned : exec.plan[a] = 0
  <1>1. exec.plan \in Plans /\ exec.data.file \in Plans
    BY ExecFields DEF Known
  <1> QED
    BY <1>1, Numbers DEF Known, Planned, Plans, Versions

LEMMA EndedExec ==
    ASSUME disturbed \subseteq disturbed',
           exec' \in {NoExec, [NoExec EXCEPT !.pc = "previous"]}
    PROVE  ExecInv'
  <1>1. exec' \in Execs /\ exec'.pc \in {"idle", "previous"}
    BY NoExecType DEF NoExec, Execs, ExecPCs
  <1> QED
    BY <1>1 DEF ExecInv, ExecGood, SnapGood

LEMMA ExchangedJars ==
    ASSUME NEW applied, NEW b \in Artifacts, NEW w \in Versions
    PROVE  <<b, w>> \in Exchanged(applied)
              <=> \/ <<b, w>> \in jars /\ ~ (b \in applied /\ w = exec.data.file[b])
                  \/ b \in applied /\ w = exec.plan[b]
  BY DEF Exchanged, File

\* What is in place when a rollback begins: the exchanged jars of what was
\* applied, the others as they were.
PresentGood(present, applied, known) ==
    /\ present \subseteq Jars
    /\ applied \subseteq Planned
    /\ \A a \in Artifacts \ Planned : \A w \in Versions : <<a, w>> \in present <=> <<a, w>> \in jars
    /\ \A a \in Artifacts \ (disturbed \cup Stale(known)) :
          IF a \in Planned
          THEN \A w \in Versions :
                  <<a, w>> \in present <=> w = IF a \in applied THEN exec.plan[a] ELSE exec.data.file[a]
          ELSE exec.data.file[a] = versions.file[a]

\* A rollback, whole or interrupted.
LEMMA RollbackKeeps ==
    ASSUME IInv, NEW e, Known(e), NEW present, NEW applied, NEW known,
           PresentGood(present, applied, known), Rollback(e, present, applied, known),
           UNCHANGED <<backups, autoSync, requests>>, serverUp' \in BOOLEAN, JobsKept
    PROVE  IInv'
  <1> DEFINE fetched == {<<a, exec.plan[a]>> : a \in applied}
  <1>1. /\ Planned \subseteq Artifacts /\ Paper \in Planned /\ applied \subseteq Planned
        /\ \A a \in Planned : exec.plan[a] \in Versions /\ exec.data.file[a] \in Versions
    BY PlannedType DEF PresentGood
  <1>2. /\ e \in Execs /\ e.plan = exec.plan /\ e.data = exec.data
        /\ e.snap \in VersionsData /\ e.snapScript \in Versions /\ e.plan[Paper] \in Versions
    BY <1>1, ExecFields DEF Known
  <1>3. Restored(present, applied) \subseteq Jars
    BY <1>1, JarType DEF PresentGood, Restored, File
  <1>4. \A b \in Artifacts : \A w \in Versions :
           <<b, w>> \in Restored(present, applied)
              <=> \/ /\ <<b, w>> \in present
                     /\ ~ (b \in applied /\ exec.plan[b] # exec.data.file[b] /\ w = exec.plan[b])
                  \/ b \in Planned /\ w = exec.data.file[b]
    BY DEF Restored, File
  <1>5. JobsInv' /\ ManifestInv'
    BY JobsKeptGood
  <1>6. ASSUME Put(Restored(present, applied), fetched), versions' = e.snap, script' = RestoredScript(e),
               disturbed' = disturbed \cup Stale(known)
                                  \cup {a \in Artifacts : e.snap.file[a] # e.data.file[a]},
               exec' = IF e.wasUp THEN [NoExec EXCEPT !.pc = "previous"] ELSE NoExec
        PROVE  IInv'
    <2> HIDE DEF fetched
    <2>1. /\ jars' = Restored(present, applied) /\ jars' \subseteq Jars /\ dated' \subseteq jars'
      BY <1>3, <1>6, PutType
    <2>2. disturbed \subseteq disturbed' /\ disturbed' \subseteq Artifacts
      BY <1>6, StaleType DEF IInv, FilesOK
    <2>3. FilesOK'
      BY <1>2, <1>6, <2>1, <2>2 DEF RestoredScript, IInv, FilesOK
    <2>4. \A a \in Artifacts \ disturbed' :
             /\ a \in Artifacts \ (disturbed \cup Stale(known))
             /\ versions'.file[a] = exec.data.file[a]
      BY <1>2, <1>6
    <2>5. ASSUME NEW b \in Artifacts \ disturbed'
          PROVE  \/ /\ versions'.file[b] = versions.file[b]
                    /\ \A w \in Versions : <<b, w>> \in jars' <=> <<b, w>> \in jars
                 \/ \E x \in Versions : /\ versions'.file[b] = x
                                       /\ \A w \in Versions : <<b, w>> \in jars' <=> w = x
      <3>1. CASE b \in Planned
        <4>1. \A w \in Versions :
                 <<b, w>> \in present <=> w = IF b \in applied THEN exec.plan[b] ELSE exec.data.file[b]
          BY <2>4, <3>1 DEF PresentGood
        <4>2. \A w \in Versions : <<b, w>> \in jars' <=> w = exec.data.file[b]
          BY <1>4, <2>1, <3>1, <4>1
        <4> QED
          BY <1>1, <2>4, <3>1, <4>2
      <3>2. CASE b \notin Planned
        <4>1. /\ exec.data.file[b] = versions.file[b]
              /\ \A w \in Versions : <<b, w>> \in present <=> <<b, w>> \in jars
          BY <2>4, <3>2 DEF PresentGood
        <4> QED
          BY <1>1, <1>4, <2>1, <2>4, <3>2, <4>1
      <3> QED
        BY <3>1, <3>2
    <2>6. Paper \notin disturbed' => script' = versions'.file[Paper]
      BY <1>6, <2>2 DEF RestoredScript, Known
    <2>7. FilesInv'
      BY <2>2, <2>5, <2>6, FilesInvKept DEF IInv
    <2>8. ExecInv'
      BY <1>6, <2>2, EndedExec
    <2> QED
      BY <1>5, <2>3, <2>7, <2>8 DEF IInv
  <1>7. ASSUME NEW left \in {present, Restored(present, applied)}, Put(left, fetched),
               script' \in {script, e.snapScript, e.plan[Paper]},
               disturbed' = disturbed \cup Planned, exec' = NoExec, UNCHANGED versions
        PROVE  IInv'
    <2> HIDE DEF fetched
    <2>1. jars' = left /\ jars' \subseteq Jars /\ dated' \subseteq jars'
      BY <1>3, <1>7, PutType DEF PresentGood
    <2>2. disturbed \subseteq disturbed' /\ disturbed' \subseteq Artifacts /\ Paper \in disturbed'
      BY <1>1, <1>7 DEF IInv, FilesOK
    <2>3. FilesOK'
      BY <1>2, <1>7, <2>1, <2>2 DEF IInv, FilesOK
    <2>4. \A b \in Artifacts \ disturbed' : \A w \in Versions : <<b, w>> \in jars' <=> <<b, w>> \in jars
      BY <1>1, <1>4, <1>7, <2>1 DEF PresentGood
    <2>5. FilesInv'
      BY <1>7, <2>2, <2>4, FilesInvKept DEF IInv
    <2>6. ExecInv'
      BY <1>7, <2>2, EndedExec
    <2> QED
      BY <1>5, <2>3, <2>5, <2>6 DEF IInv
  <1> QED
    BY <1>6, <1>7 DEF Rollback

\* Before anything was applied, and while it is: what is not stale is exact.
LEMMA ExchangedGood ==
    ASSUME IInv, NEW e, Known(e), NEW applied, applied \subseteq Planned
    PROVE  PresentGood(Exchanged(applied), applied, e.data)
  <1>1. /\ Planned \subseteq Artifacts
        /\ \A a \in Planned : exec.plan[a] \in Versions /\ exec.data.file[a] \in Versions
    BY PlannedType
  <1>2. Exchanged(applied) \subseteq Jars
    BY <1>1, JarType DEF Exchanged, IInv, FilesOK
  <1>3. \A b \in Artifacts : \A w \in Versions :
           <<b, w>> \in Exchanged(applied)
              <=> \/ <<b, w>> \in jars /\ ~ (b \in applied /\ w = exec.data.file[b])
                  \/ b \in applied /\ w = exec.plan[b]
    BY ExchangedJars
  <1>4. \A a \in Artifacts \ Planned : \A w \in Versions : <<a, w>> \in Exchanged(applied) <=> <<a, w>> \in jars
    BY <1>3
  <1>5. ASSUME NEW a \in Artifacts \ (disturbed \cup Stale(e.data))
        PROVE  IF a \in Planned
               THEN \A w \in Versions : <<a, w>> \in Exchanged(applied)
                                       <=> w = IF a \in applied THEN exec.plan[a] ELSE exec.data.file[a]
               ELSE exec.data.file[a] = versions.file[a]
    <2>1. exec.data.file[a] = versions.file[a] /\ Exact(a)
      BY FreshSame DEF IInv, Known, FilesInv
    <2>2. CASE a \in Planned
      <3>1. exec.data.file[a] # 0 /\ exec.data.file[a] \in Versions
        BY <1>1, <2>2 DEF Known
      <3>2. \A w \in Versions : <<a, w>> \in jars <=> w = exec.data.file[a]
        BY <2>1, <3>1 DEF Exact
      <3> QED
        BY <1>3, <2>2, <3>2
    <2> QED
      BY <2>1, <2>2
  <1> QED
    BY <1>2, <1>4, <1>5 DEF PresentGood

LEMMA JarsGood ==
    ASSUME IInv, NEW e, Known(e)
    PROVE  PresentGood(jars, {}, e.data)
  <1>1. Exchanged({}) = jars
    BY DEF Exchanged
  <1> QED
    BY <1>1, ExchangedGood

LEMMA UpgradedData ==
    ASSUME NEW e \in Execs
    PROVE  /\ Upgraded(e) \in VersionsData
           /\ \A a \in Artifacts : Upgraded(e).file[a] = IF e.plan[a] # 0 THEN e.plan[a] ELSE e.data.file[a]
  <1> DEFINE new(a) == IF e.plan[a] # 0 THEN e.plan[a] ELSE e.data.file[a]
  <1>1. e.data \in VersionsData /\ e.data.file \in Plans /\ e.plan \in Plans /\ e.to \in 1..MaxMc
    BY ExecFields
  <1>2. Upgraded(e) = [e.data EXCEPT !.file = [a \in Artifacts |-> new(a)], !.mc = e.to]
    BY DEF Upgraded
  <1>3. [a \in Artifacts |-> new(a)] \in Plans
    BY <1>1 DEF Plans
  <1> HIDE DEF new
  <1>4. Upgraded(e) \in VersionsData /\ \A a \in Artifacts : Upgraded(e).file[a] = new(a)
    BY <1>1, <1>2, <1>3 DEF VersionsData, Plans
  <1> QED
    BY <1>4 DEF new

\* After the apply: what is not stale is what the upgrade put there.
LEMMA UpgradedGood ==
    ASSUME IInv, Known(exec), exec.applied = Planned
    PROVE  PresentGood(jars, exec.applied, Upgraded(exec))
  <1>1. exec \in Execs /\ jars \subseteq Jars
    BY DEF Known, IInv, FilesOK
  <1>2. ASSUME NEW a \in Artifacts \ (disturbed \cup Stale(Upgraded(exec)))
        PROVE  IF a \in Planned
               THEN \A w \in Versions : <<a, w>> \in jars
                                       <=> w = IF a \in exec.applied THEN exec.plan[a] ELSE exec.data.file[a]
               ELSE exec.data.file[a] = versions.file[a]
    <2>1. Upgraded(exec).file[a] = versions.file[a] /\ Exact(a)
      BY FreshSame DEF IInv, FilesInv
    <2>2. versions.file[a] = IF exec.plan[a] # 0 THEN exec.plan[a] ELSE exec.data.file[a]
      BY <1>1, <2>1, UpgradedData
    <2>3. CASE a \in Planned
      BY <2>1, <2>2, <2>3 DEF Exact, Planned
    <2>4. CASE a \notin Planned
      BY <2>2, <2>4 DEF Planned
    <2> QED
      BY <2>3, <2>4
  <1> QED
    BY <1>1, <1>2 DEF PresentGood

LEMMA ApplyKeeps ==
    ASSUME IInv, NEW e, Known(e), Apply(e),
           UNCHANGED <<backups, autoSync, requests>>, serverUp' \in BOOLEAN, JobsKept
    PROVE  IInv'
  <1>1. /\ Planned \subseteq Artifacts /\ Paper \in Planned
        /\ \A a \in Planned : exec.plan[a] \in Versions /\ exec.data.file[a] \in Versions
        /\ \A a \in Artifacts \ Planned : exec.plan[a] = 0
    BY PlannedType
  <1>2. e \in Execs /\ e.plan = exec.plan /\ e.data = exec.data
    BY DEF Known
  <1>3. ASSUME Put(Exchanged(Planned), {<<a, exec.plan[a]>> : a \in Planned}),
               script' = e.plan[Paper], versions' = Upgraded(e),
               disturbed' = disturbed \cup Stale(e.data),
               exec' = IF e.wasUp THEN [e EXCEPT !.pc = "start", !.applied = Planned] ELSE NoExec
        PROVE  IInv'
    <2>1. PresentGood(Exchanged(Planned), Planned, e.data)
      BY ExchangedGood
    <2>2. jars' = Exchanged(Planned) /\ jars' \subseteq Jars /\ dated' \subseteq jars'
      BY <1>3, <2>1 DEF PresentGood, Put
    <2>3. disturbed \subseteq disturbed' /\ disturbed' \subseteq Artifacts
      BY <1>3, StaleType DEF IInv, FilesOK
    <2>4. /\ versions' \in VersionsData
          /\ \A a \in Artifacts : versions'.file[a] = IF a \in Planned THEN exec.plan[a] ELSE exec.data.file[a]
      BY <1>2, <1>3, UpgradedData DEF Planned
    <2>5. FilesOK'
      BY <1>1, <1>2, <1>3, <2>2, <2>3, <2>4 DEF IInv, FilesOK
    <2>6. ASSUME NEW b \in Artifacts \ disturbed'
          PROVE  \/ /\ versions'.file[b] = versions.file[b]
                    /\ \A w \in Versions : <<b, w>> \in jars' <=> <<b, w>> \in jars
                 \/ \E x \in Versions : /\ versions'.file[b] = x
                                       /\ \A w \in Versions : <<b, w>> \in jars' <=> w = x
      <3>1. b \in Artifacts \ (disturbed \cup Stale(e.data))
        BY <1>3
      <3>2. CASE b \in Planned
        <4>1. \A w \in Versions : <<b, w>> \in jars' <=> w = exec.plan[b]
          BY <2>1, <2>2, <3>1, <3>2 DEF PresentGood
        <4> QED
          BY <1>1, <2>4, <3>2, <4>1
      <3>3. CASE b \notin Planned
        BY <2>1, <2>2, <2>4, <3>1, <3>3 DEF PresentGood
      <3> QED
        BY <3>2, <3>3
    <2>7. Paper \notin disturbed' => script' = versions'.file[Paper]
      BY <1>1, <1>2, <1>3, <2>4
    <2>8. FilesInv'
      BY <2>3, <2>6, <2>7, FilesInvKept DEF IInv
    <2>9. ExecInv'
      <3>1. CASE exec' = NoExec
        BY <2>3, <3>1, EndedExec
      <3>2. CASE exec' = [e EXCEPT !.pc = "start", !.applied = Planned]
        <4>1. /\ exec' \in Execs /\ exec'.pc = "start" /\ exec'.applied = Planned
              /\ exec'.plan = e.plan /\ exec'.data = e.data
              /\ exec'.snap = e.snap /\ exec'.snapScript = e.snapScript
          BY <1>1, <1>2, <3>2 DEF Execs, ExecPCs
        <4>2. ExecGood(exec)'
          BY <1>2, <4>1 DEF ExecGood, Known, Planned
        <4>3. SnapGood(exec)'
          BY <2>3, <4>1 DEF SnapGood, Known
        <4> QED
          BY <4>1, <4>2, <4>3 DEF ExecInv
      <3> QED
        BY <1>3, <3>1, <3>2
    <2> QED
      BY <2>5, <2>8, <2>9, JobsKeptGood DEF IInv
  <1>4. ASSUME NEW applied \in {{}} \cup {s \in SUBSET Planned : Paper \in s},
               Rollback(e, Exchanged(applied), applied, e.data)
        PROVE  IInv'
    BY <1>4, ExchangedGood, RollbackKeeps
  <1> QED
    BY <1>3, <1>4 DEF Apply

LEMMA ExecuteRequestKeeps ==
    ASSUME IInv, ExecuteRequest
    PROVE  IInv'
  <1>1. FilesOK' /\ FilesInv' /\ disturbed' = disturbed
    BY LoadKeeps DEF ExecuteRequest, IInv
  <1>2. manifest \in Manifests /\ manifest.plan \in Plans /\ manifest.to \in 1..MaxMc /\ manifest.plan[Paper] # 0
    BY DEF ExecuteRequest, Executable, IInv, ManifestInv, Manifests, Plans
  <1>3. Loaded \in VersionsData
    BY LoadedType DEF IInv
  <1>4. exec' \in Execs /\ exec'.pc = "stage" /\ exec'.plan = manifest.plan
    BY <1>2, <1>3, NoExecType DEF ExecuteRequest, Execs, ExecPCs, Plans
  <1>5. ExecInv'
    BY <1>2, <1>4 DEF ExecInv, ExecGood, SnapGood
  <1> QED
    BY <1>1, <1>5, JobsKeptGood DEF ExecuteRequest, IInv

LEMMA KnownRunning ==
    ASSUME IInv, exec.pc \in {"stop", "start", "stop_failed"}
    PROVE  Known(exec)
  BY DEF IInv, ExecInv, ExecGood, SnapGood, Known, Planned

LEMMA ExecMoves ==
    ASSUME IInv, UNCHANGED <<versions, jars, dated, backups, script, autoSync, requests, disturbed>>,
           serverUp' \in BOOLEAN, JobsKept, ExecInv'
    PROVE  IInv'
  <1>1. FilesOK' /\ FilesInv'
    BY FilesUnchanged DEF IInv, FilesOK
  <1> QED
    BY <1>1, JobsKeptGood DEF IInv

LEMMA UpgradeStagedKeeps ==
    ASSUME IInv, UpgradeStaged
    PROVE  IInv'
  <1>1. CASE Ended /\ UNCHANGED fileVars
    <2>1. ExecInv'
      BY <1>1, EndedExec DEF Ended, fileVars
    <2> QED
      BY <1>1, <2>1, ExecMoves DEF UpgradeStaged, fileVars, IInv, FilesOK
  <1>2. ASSUME \A a \in Planned : File(exec.data, a) \in jars,
               UNCHANGED <<backups, serverUp, autoSync, requests>>,
               \/ /\ exec' = [Snapshotted(exec) EXCEPT !.pc = "stop"]
                  /\ UNCHANGED <<versions, jars, dated, script, disturbed>>
               \/ Apply(Snapshotted(exec))
        PROVE  IInv'
    <2> DEFINE e == Snapshotted(exec)
    <2>1. /\ exec \in Execs /\ exec.plan[Paper] # 0
          /\ versions \in VersionsData /\ script \in Versions /\ serverUp \in BOOLEAN
      BY DEF UpgradeStaged, IInv, FilesOK, ExecInv, ExecGood
    <2>2. /\ e \in Execs /\ e.plan = exec.plan /\ e.data = exec.data
          /\ e.snap = versions /\ e.snapScript = script
      BY <2>1 DEF Snapshotted, Execs, Versions
    <2>3. ASSUME NEW a \in Planned PROVE exec.data.file[a] # 0
      <3>1. a \in Artifacts /\ <<a, exec.data.file[a]>> \in Jars
        BY <1>2 DEF File, Planned, IInv, FilesOK
      <3> QED
        BY <3>1, JarType, Numbers DEF Versions
    <2>4. Known(e)
      BY <2>1, <2>2, <2>3 DEF Known, IInv, FilesInv, ScriptLaunchesTracked
    <2> HIDE DEF e
    <2>5. CASE Apply(e)
      BY <1>2, <2>1, <2>4, <2>5, ApplyKeeps DEF UpgradeStaged
    <2>6. CASE /\ exec' = [e EXCEPT !.pc = "stop"]
               /\ UNCHANGED <<versions, jars, dated, script, disturbed>>
      <3>1. /\ exec' \in Execs /\ exec'.pc = "stop" /\ exec'.plan = e.plan /\ exec'.data = e.data
            /\ exec'.snap = e.snap /\ exec'.snapScript = e.snapScript
        BY <2>2, <2>6 DEF Execs, ExecPCs
      <3>2. ExecInv'
        BY <2>4, <2>6, <3>1 DEF Known, Planned, ExecInv, ExecGood, SnapGood
      <3> QED
        BY <1>2, <2>1, <2>6, <3>2, ExecMoves DEF UpgradeStaged
    <2> QED
      BY <1>2, <2>5, <2>6 DEF e
  <1> QED
    BY <1>1, <1>2 DEF UpgradeStaged

LEMMA UpgradeStopsKeeps ==
    ASSUME IInv, UpgradeStops
    PROVE  IInv'
  <1>1. Known(exec) /\ serverUp \in BOOLEAN
    BY KnownRunning DEF UpgradeStops, IInv, FilesOK
  <1>2. PresentGood(jars, {}, exec.data)
    BY <1>1, JarsGood
  <1> QED
    BY <1>1, <1>2, ApplyKeeps, RollbackKeeps DEF UpgradeStops

LEMMA UpgradeStartsKeeps ==
    ASSUME IInv, UpgradeStarts
    PROVE  IInv'
  <1>1. Known(exec) /\ exec.applied = Planned
    BY KnownRunning DEF UpgradeStarts, IInv, ExecInv, ExecGood, Planned
  <1>2. PresentGood(jars, exec.applied, Upgraded(exec))
    BY <1>1, UpgradedGood
  <1>3. CASE serverUp' = FALSE /\ Rollback(exec, jars, exec.applied, Upgraded(exec))
    BY <1>1, <1>2, <1>3, RollbackKeeps DEF UpgradeStarts
  <1>4. CASE /\ serverUp' = TRUE
             /\ Ended \/ exec' = [exec EXCEPT !.pc = "stop_failed"]
             /\ UNCHANGED <<versions, jars, dated, script, disturbed>>
    <2>1. CASE Ended
      BY <1>4, <2>1, EndedExec, ExecMoves DEF Ended, UpgradeStarts
    <2>2. CASE exec' = [exec EXCEPT !.pc = "stop_failed"]
      <3>1. /\ exec' \in Execs /\ exec'.pc = "stop_failed" /\ exec'.plan = exec.plan
            /\ exec'.data = exec.data /\ exec'.applied = exec.applied
            /\ exec'.snap = exec.snap /\ exec'.snapScript = exec.snapScript
        BY <1>1, <2>2 DEF Known, Execs, ExecPCs
      <3>2. ExecInv'
        BY <1>1, <1>4, <3>1 DEF Known, Planned, ExecInv, ExecGood, SnapGood
      <3> QED
        BY <1>4, <3>2, ExecMoves DEF UpgradeStarts
    <2> QED
      BY <1>4, <2>1, <2>2
  <1> QED
    BY <1>3, <1>4 DEF UpgradeStarts

LEMMA UpgradeStopsFailedKeeps ==
    ASSUME IInv, UpgradeStopsFailed
    PROVE  IInv'
  <1>1. Known(exec) /\ exec.applied = Planned
    BY KnownRunning DEF UpgradeStopsFailed, IInv, ExecInv, ExecGood, Planned
  <1>2. PresentGood(jars, exec.applied, Upgraded(exec))
    BY <1>1, UpgradedGood
  <1>3. CASE serverUp' = FALSE /\ Rollback(exec, jars, exec.applied, Upgraded(exec))
    BY <1>1, <1>2, <1>3, RollbackKeeps DEF UpgradeStopsFailed
  <1>4. CASE UNCHANGED <<serverUp, versions, jars, dated, script, disturbed>> /\ Ended
    BY <1>4, EndedExec, ExecMoves DEF Ended, UpgradeStopsFailed, IInv, FilesOK
  <1> QED
    BY <1>3, <1>4 DEF UpgradeStopsFailed

LEMMA PreviousStartsKeeps ==
    ASSUME IInv, PreviousStarts
    PROVE  IInv'
  <1>1. Ended /\ serverUp' \in BOOLEAN /\ UNCHANGED disturbed
    BY DEF PreviousStarts, IInv, FilesOK
  <1>2. ExecInv'
    BY <1>1, EndedExec DEF Ended
  <1> QED
    BY <1>1, <1>2, ExecMoves DEF PreviousStarts

--------------------------------------------------------------------------------
(* The theorems.                                                           *)

LEMMA InitInv == Init => IInv
  <1> SUFFICES ASSUME Init PROVE IInv
    OBVIOUS
  <1>1. PICK tracked \in SUBSET Plugins : \E untracked \in SUBSET (Plugins \ tracked) :
           /\ jars = ({Paper} \cup tracked \cup untracked) \X {1}
           /\ \E manual \in SUBSET tracked :
                 versions = [file |-> [a \in Artifacts |-> IF a \in {Paper} \cup tracked THEN 1 ELSE 0],
                             manual |-> manual, mc |-> 1]
    BY DEF Init, FilesInit
  <1>2. PICK untracked \in SUBSET (Plugins \ tracked), manual \in SUBSET tracked :
           /\ jars = ({Paper} \cup tracked \cup untracked) \X {1}
           /\ versions = [file |-> [a \in Artifacts |-> IF a \in {Paper} \cup tracked THEN 1 ELSE 0],
                          manual |-> manual, mc |-> 1]
    BY <1>1
  <1>3. /\ versions \in VersionsData
        /\ \A a \in Artifacts : versions.file[a] = IF a \in {Paper} \cup tracked THEN 1 ELSE 0
    BY <1>2, Numbers DEF VersionsData
  <1>4. \A a \in Artifacts : \A v \in Versions :
           <<a, v>> \in jars <=> a \in {Paper} \cup tracked \cup untracked /\ v = 1
    BY <1>2
  <1>5. jars \subseteq Jars
    BY <1>2, Numbers DEF Jars, Artifacts, Versions
  <1>6. FilesOK
    <2>1. backups = [a \in Artifacts |-> <<>>] /\ <<>> \in Seq(Versions) /\ Len(<<>>) = 0
      BY DEF Init, FilesInit
    <2>2. backups \in [Artifacts -> Seq(Versions)]
      BY <2>1
    <2>3. \A a \in Artifacts : Len(backups[a]) <= KeepBackups
      BY <2>1, Numbers
    <2> QED
      BY <1>3, <1>5, <2>2, <2>3, Numbers DEF Init, FilesInit, FilesOK
  <1>7. FilesInv
    BY <1>2, <1>3, <1>4, Numbers DEF Init, FilesInit, FilesInv, Exact, ScriptLaunchesTracked
  <1>8. JobsInv
    BY IdleType DEF Init, JobsInit, JobsInv, JobsOK, JobGood, Idle
  <1>9. ManifestInv
    BY NoDataType, Numbers DEF Init, NoManifest, ManifestInv, Manifests, Plans
  <1>10. ExecInv
    BY NoExecType DEF Init, ExecInv, ExecGood, SnapGood, NoExec
  <1> QED
    BY <1>6, <1>7, <1>8, <1>9, <1>10 DEF IInv

LEMMA UpdateStepKeeps ==
    ASSUME IInv, NEW j \in Jobs, UpdateStep(j)
    PROVE  IInv'
  BY UpdateRequestKeeps, RestartUpdateRequestKeeps, RestartUpdateStopsKeeps, RestartUpdateStartsKeeps,
     UpdateCheckedKeeps, ApplyEndsKeeps, CheckRequestKeeps, CheckEndsKeeps, AutoNextKeeps,
     AutoCancelledKeeps, InstallRequestKeeps, InstallResolvedKeeps, InstallEndsKeeps
     DEF UpdateStep

LEMMA ExecStepKeeps ==
    ASSUME IInv, ExecStep
    PROVE  IInv'
  BY ExecuteRequestKeeps, UpgradeStagedKeeps, UpgradeStopsKeeps, UpgradeStartsKeeps,
     UpgradeStopsFailedKeeps, PreviousStartsKeeps DEF ExecStep

LEMMA StutterKeeps == IInv /\ UNCHANGED vars => IInv'
  <1> SUFFICES ASSUME IInv, UNCHANGED vars PROVE IInv'
    OBVIOUS
  <1>1. FilesOK' /\ FilesInv'
    BY FilesUnchanged DEF vars, fileVars, IInv, FilesOK
  <1> QED
    BY <1>1, JobVarsKept DEF vars, fileVars

\* The invariant is inductive: every request, every step of an upgrade, every
\* change from outside and a crash keep it.
THEOREM IInvCorrect == Spec => []IInv
  <1>1. IInv /\ [Next]_vars => IInv'
    <2> SUFFICES ASSUME IInv, [Next]_vars PROVE IInv'
      OBVIOUS
    <2>1. CASE \E j \in Jobs : UpdateStep(j) \/ PreflightRequest(j) \/ PreflightEnds(j)
      BY <2>1, UpdateStepKeeps, PreflightRequestKeeps, PreflightEndsKeeps
    <2>2. CASE Track \/ BrowserApply \/ ResolveReview
      BY <2>2, TrackKeeps, BrowserApplyKeeps, ResolveReviewKeeps
    <2>3. CASE ExecStep
      BY <2>3, ExecStepKeeps
    <2>4. CASE (ServerChanges \/ PlacedByHand) /\ UNCHANGED jobVars
      BY <2>4, ServerChangesKeeps, PlacedByHandKeeps
    <2>5. CASE Crash
      BY <2>5, CrashKeeps
    <2>6. CASE UNCHANGED vars
      BY <2>6, StutterKeeps
    <2> QED
      BY <2>1, <2>2, <2>3, <2>4, <2>5, <2>6 DEF Next
  <1> QED
    BY <1>1, InitInv, PTL DEF Spec

\* The types of the files, of the coroutines, of the manifest and of the
\* execution, with no more backups of an artifact than are kept.
THEOREM TypeCorrect == Spec => []TypeOK
  <1>1. IInv => TypeOK
    <2> SUFFICES ASSUME IInv PROVE TypeOK
      OBVIOUS
    <2>1. ASSUME NEW a \in Artifacts PROVE Range(backups[a]) \subseteq 1..MaxVersion
      <3>1. backups[a] \in Seq(1..MaxVersion)
        BY DEF IInv, FilesOK, Versions
      <3>2. DOMAIN backups[a] = 1..Len(backups[a])
        BY <3>1
      <3>3. \A i \in 1..Len(backups[a]) : backups[a][i] \in 1..MaxVersion
        BY <3>1, ElementOfSeq
      <3>4. \A x \in Range(backups[a]) : \E i \in DOMAIN backups[a] : x = backups[a][i]
        BY Zenon DEF Range
      <3> QED
        BY <3>2, <3>3, <3>4
    <2>2. FilesTypeOK
      BY <2>1 DEF FilesTypeOK, IInv, FilesOK, Versions
    <2> QED
      BY <2>2 DEF TypeOK, JobsTypeOK, IInv, JobsInv, JobsOK, ManifestInv, ExecInv
  <1> QED
    BY <1>1, IInvCorrect, PTL

\* However updates, checks, installs, the automation, upgrades with their
\* rollbacks, jars placed by hand and crashes interleave (minecraft_updater.py),
\* exactly the tracked jar of an artifact is in place unless it was disturbed.
THEOREM TrackingCorrect == Spec => []TrackingExact
  <1>1. IInv => TrackingExact
    <2> SUFFICES ASSUME IInv, NEW a \in Artifacts \ disturbed, versions.file[a] # 0
                 PROVE  Installed(a) = {versions.file[a]}
      BY DEF TrackingExact
    <2>1. versions.file[a] \in Versions
      BY DataFields, Numbers DEF IInv, FilesOK, Plans, Versions
    <2>2. \A v \in Versions : <<a, v>> \in jars <=> v = versions.file[a]
      BY DEF IInv, FilesInv, Exact
    <2> QED
      BY <2>1, <2>2 DEF Installed, Versions
  <1> QED
    BY <1>1, IInvCorrect, PTL

\* start.sh launches the Paper that is tracked (update_start_script and the
\* rollback's snapshot of the script), with the same exceptions.
THEOREM ScriptCorrect == Spec => []ScriptLaunchesTracked
  <1>1. IInv => ScriptLaunchesTracked
    BY DEF IInv, FilesInv
  <1> QED
    BY <1>1, IInvCorrect, PTL
================================================================================
