------------------------------ MODULE PluginFiles ------------------------------
(***************************************************************************)
(* What the updater (services/minecraft_updater.py) keeps on disk: the     *)
(* versions file, the jars of the server and its plugins, their backups    *)
(* and the start script.                                                   *)
(*                                                                         *)
(* A jar is a pair <<artifact, version>>: its file name carries both.  A   *)
(* request reads the versions file whole, awaits the network or the server *)
(* with what it read, changes its copy and writes it back whole.          *)
(***************************************************************************)
EXTENDS Naturals, FiniteSets, Sequences, SequencesExt

CONSTANTS
    Plugins,        \* the plugins that can be tracked
    MaxVersion,     \* versions released of an artifact
    MaxMc,          \* Minecraft versions
    KeepBackups,    \* backups kept of one artifact
    MaxRequests     \* bounds the requests made

ASSUME FilesAssumption ==
    /\ "paper" \notin Plugins
    /\ {MaxVersion, MaxMc, KeepBackups} \subseteq Nat \ {0}
    /\ MaxRequests \in Nat

Paper     == "paper"
Artifacts == Plugins \cup {Paper}
Jars      == Artifacts \X (1..MaxVersion)

VARIABLES
    versions,   \* the versions file: file (0: untracked), manual sources, mc
    jars,       \* the jars in place
    dated,      \* the jars in place whose file is older than every download
    backups,    \* the backups of each artifact, in the order of their file times
    script,     \* the version of Paper that start.sh launches
    serverUp,   \* does the server run?
    autoSync,   \* the plugins whose entry opted in to version detection
    requests,   \* how many requests were made
    disturbed   \* history: artifacts whose files and entry were changed from
                \* stale data, only in part, or beside an untracked jar

fileVars == <<versions, jars, dated, backups, script, serverUp, autoSync, requests, disturbed>>

VersionsData == [file : [Artifacts -> 0..MaxVersion], manual : SUBSET Plugins, mc : 1..MaxMc]

FilesTypeOK ==
    /\ versions \in VersionsData
    /\ jars \subseteq Jars
    /\ dated \subseteq jars
    /\ \A a \in Artifacts :
          Len(backups[a]) <= KeepBackups /\ Range(backups[a]) \subseteq 1..MaxVersion
    /\ script \in 1..MaxVersion
    /\ serverUp \in BOOLEAN
    /\ autoSync \subseteq Plugins
    /\ requests \in 0..MaxRequests
    /\ disturbed \subseteq Artifacts

\* A plugin may be tracked, or only its jar be there.
FilesInit ==
    /\ \E tracked \in SUBSET Plugins : \E untracked \in SUBSET (Plugins \ tracked) :
          /\ jars = ({Paper} \cup tracked \cup untracked) \X {1}
          /\ \E manual \in SUBSET tracked :
                versions = [file |-> [a \in Artifacts |-> IF a \in {Paper} \cup tracked THEN 1 ELSE 0],
                            manual |-> manual, mc |-> 1]
    /\ dated = {}
    /\ backups = [a \in Artifacts |-> <<>>]
    /\ script = 1
    /\ serverUp \in BOOLEAN
    /\ autoSync \in {{}, Plugins}
    /\ requests = 0
    /\ disturbed = {}

--------------------------------------------------------------------------------
Installed(a) == {v \in 1..MaxVersion : <<a, v>> \in jars}

\* load_versions: an entry that opted in follows the one jar that is there, and
\* the file is saved before the caller sees it.
Loaded ==
    [versions EXCEPT !.file =
        [a \in Artifacts |->
            IF a \in autoSync /\ @[a] # 0 /\ Cardinality(Installed(a)) = 1
            THEN CHOOSE v \in Installed(a) : TRUE
            ELSE @[a]]]

Tracked(data) == {p \in Plugins : data.file[p] # 0}

\* The artifacts of which data no longer says what the file says: a save from
\* data undoes what others saved of them.
Stale(data) == {a \in Artifacts : data.file[a] # Loaded.file[a]}
               \cup IF data.mc # versions.mc THEN {Paper} ELSE {}

\* Mutant: nothing is cleaned up.
BackupOnly(a, v) == backups' = [backups EXCEPT ![a] = Append(@, v)]

\* backup_plugin and _cleanup_old_backups, which keeps the newest files: a copy
\* has the time of what it copies.
Backup(a, v) ==
    LET all == IF <<a, v>> \in dated THEN <<v>> \o backups[a] ELSE Append(backups[a], v)
    IN  backups' = [backups EXCEPT ![a] = IF Len(all) > KeepBackups THEN Tail(all) ELSE all]

\* Mutant: the old jar stays.
ReplacedBeside(data, a, v) == jars \cup {<<a, v>>}

\* A download of a version, moved into the place of the jar that data names.
Replaced(data, a, v) == (jars \ {<<a, data.file[a]>>}) \cup {<<a, v>>}

\* jars' is what was in place and what a request put there.
Put(present, fetched) == jars' = present /\ dated' = (dated \cap present) \ fetched

\* Somebody asks the dashboard for something.
Requested == requests < MaxRequests /\ requests' = requests + 1

\* Nothing but the versions file changes.
FilesKept == UNCHANGED <<jars, dated, backups, script, serverUp, autoSync>>

\* A load that only detects versions.
JustLoads == versions' = Loaded /\ UNCHANGED disturbed /\ FilesKept

--------------------------------------------------------------------------------
\* Others start and stop the server; it may crash.
ServerChanges ==
    /\ serverUp' = ~serverUp
    /\ serverUp' => <<Paper, script>> \in jars
    /\ UNCHANGED <<versions, jars, dated, backups, script, autoSync, requests, disturbed>>

\* An administrator exchanges a plugin's jar by hand for another release, whose
\* file keeps the time it was released at, before any download.
PlacedByHand ==
    /\ Requested
    /\ \E p \in Plugins, v \in 1..MaxVersion :
          /\ jars' = {jar \in jars : jar[1] # p} \cup {<<p, v>>}
          /\ dated' = (dated \cap jars') \cup {<<p, v>>}
          /\ disturbed' = disturbed \cup {p}
    /\ UNCHANGED <<versions, backups, script, serverUp, autoSync>>
================================================================================
