# CORA-Outpost in TLA+

CORA-Outpost is a FastAPI dashboard that operates a Minecraft server: it starts, stops, restarts,
recovers, updates and backs up the server process, and carries the staff workflow around it. This
directory holds TLA+ models of its operational core, the TLC configurations that check them on small
instances, and TLAPS proofs of their main safety properties. Paths below are relative to `src/app`.

## 1. Inventory

| Component | State it keeps | Operations | Interacts with |
| --- | --- | --- | --- |
| Server lifecycle, `services/minecraft_server.py` | `process_lock`, restart flag, last-restart timestamp (memory and `minecraft_restart_state.json`), flock on `minecraft_restart.lock`, `server.pid`, status cache (5 s) | `start_server`, `stop_server`, `restart_server`, `recover_server`, `get_server_status`, `get_restart_gate_status` | the OS processes, RCON, the active profile, other workers through files |
| Guarded operations, `services/operations.py` | idempotency cache (memory, TTL), `operation_state.jsonl`, flock on `server_operation.lock` | `execute_operation` | permissions, rate limit, the lifecycle and the upgrade as executors |
| Reboot scheduler, `services/reboot_scheduler.py` | state, countdown target, restart tokens, grace period, maintenance schedule, config file, instance lock | monitor tick (30 s), manual and labelled triggers, cancel, schedule and cancel a maintenance stop | lifecycle calls, reads the backup scheduler's state |
| Backup scheduler, `services/backup_scheduler.py` | state, countdown target, error message, config file | monitor tick (60 s), stop-compress-upload-restart pipeline, manual trigger, cancel | lifecycle calls, reads the reboot scheduler's state |
| Setup executor, `services/minecraft_setup_executor.py` | claim file, attempt ledger, staged and published artifacts | create server, recover markers | file system, profile registry |
| Live console, `services/minecraft_server.py`, `routers/admin_server.py` | tailer task, position and number of `latest.log`, line buffer; per viewer a queue and the lines it was sent | tail, subscribe, stream, start and end of the tailer | the game server's log, every start, every switch of the profile |
| Profiles, `services/minecraft_settings.py` | profile registry file, active profile | create, update, delete, activate, set the directory, operation block | everything that resolves a path, the pid files |
| Updater, `services/minecraft_updater.py` | versions file, jars, backups, start script, upgrade manifests, rollback snapshots | check, update with and without a restart, install, track, execute an upgrade manifest | lifecycle, the network |
| Marketplace, `services/minecraft_updater.py` | Voxel.shop token, authorisation states, download sessions | authorise, connect, start, look at and apply a browser download | the browser's download folder, the updater |
| Update automation, `services/minecraft_update_automation.py` | config and log files, instance lock | `run_once`, scheduler loop | updater, labelled restart |
| Admin tiers and permissions, `services/permissions.py`, `services/minecraft_admin_tiers.py` | `rbac_settings.json`, `staff_settings.json`, `minecraft_admin_tiers.json` | promote, demote, role, grant, revoke, reset, migrate | the routes that ask for a permission |
| Investigations, watchlist, warnings, notes | one JSON file of records each, one active session per staff member | add, edit, resolve, delete, start, log, end | staff routes, RCON |
| Whitelist audit, `services/whitelist_audit.py` | log index, prune history and return events, one sqlite file for all profiles | sync, recommend, prune, record, list returns | the active profile's logs and whitelist, RCON |
| Metrics | sqlite samples | collect, downsample, query | OS |
| Rate limit | per-key time stamps | `check_rate_limit` | operations |
| Routers, application factory, module registry, readers of plugin data, notifications | none worth a model | request handling | the services |

How they interact: a request or a scheduler's tick is a coroutine of one event loop. The coroutines of
one worker share `ServerManager` and its asyncio lock; several workers share only files: two flocks, the
restart state file, the pid file. The two schedulers know each other by the published `status.state`
only, and reach the server through the same calls as the administrators. The schedulers do not go
through `execute_operation`, so its flock does not hold them off.

What is hard: coroutines that suspend in the middle of `start_server`, `stop_server` and
`restart_server`; start scripts that look like no server for a while; status reads served from a cache;
workers that die holding a flock; requests retried with the same key, cancelled, or outliving their
cache entry; monitor ticks that overwrite a state another coroutine published; a stop that fails in the
middle of a pipeline; a directory that a dead request left half made; files that are loaded before a
download and written back whole after it; saves that fail and are answered as a success; logs that are
replaced under their readers; a profile switched in the middle of a start. `PROJECT.json` lists these
hazards at their lines.

What makes the components correct: nobody leaks a lock, restarts are serialised and spaced over all
workers, one start that waits never produces a second server, an operation runs once per key, the
journal and the cache do not lie, restarts and backups do not overlap, archives are taken of a stopped
server, a cancelled countdown stays cancelled, every call returns, a due maintenance stop happens, a
server directory is created whole by one attempt and nobody else's file in it is touched, the tracked jar
is the one in place and the one that starts, a rollback restores, an authorisation counts once, a
demotion gives back what the promotion took, evidence is not changed afterwards, nobody who was just seen
is planned to be removed, who was pruned and is back is listed, and a viewer of the console gets every line once.

## 2. Modules

| Module | Models |
| --- | --- |
| `RestartGate` | abstract: restarts one at a time, a cooldown after each success |
| `ServerLifecycle` | `ServerManager`: four calls, their interleavings, the files, the OS processes, crashes |
| `MCServerLifecycle` | instances for TLC |
| `ServerLifecycleProofs` | types, guard, process lock, two servers, refinement of `RestartGate` |
| `OncePerKey` | abstract: one operation at a time, once per key and TTL |
| `Operations` | `execute_operation`: cache, journal, flock, cancellation, crashes |
| `MCOperations`, `OperationsProofs` | instances; types, four invariants, refinement of `OncePerKey` |
| `SchedulerWorld` | what the schedulers share: the server, the restart gate, the published states |
| `RebootScheduler`, `BackupScheduler` | the two schedulers, one action per tick phase, handler and await |
| `Schedulers` | their composition on one event loop, fairness and properties |
| `MCSchedulers`, `SchedulersProofs` | instances; types, exclusion, archive, cancelled countdowns |
| `SetupExecutor` | the creation of a server directory: recovery, claim, ledger, staging, publication, cleanup |
| `MCSetupExecutor`, `SetupExecutorProofs` | the instance with several workers; types, foreign files; in one worker: the profile's files, one attempt, published files, own artifacts |
| `PluginFiles` | what the updater keeps on disk, loads with version detection, backups, saves |
| `Updates` | the updater's requests on one event loop: updates, checks, automation runs, installs, tracking |
| `Upgrades` | preflight, manifests, reviews, and the execution with its rollback; EXTENDS `Updates` |
| `VoxelShop` | the marketplace account and the browser downloads |
| `UpdateAutomation` | the automation's configuration, lock and runs, in several processes |
| `StaffRecords` | warnings, watchlist, notes, investigation sessions |
| `StaffAccess` | permissions, promotions and demotions |
| `ServerProfiles` | profiles, and the servers and pid files of several of them |
| `WhitelistAudit` | the log index, the recommendation, the prune and its records, seen from one of several profiles |
| `MCSetupAndAudit` | `SetupExecutor` and `WhitelistAudit`, for one run |
| `Console` | the log tailer and the viewers of its websockets |
| `Dashboard`, `MCDashboard` | `PluginFiles` to `ServerProfiles`, and `Console`, side by side, for one run; instances |
| `UpgradesProofs` | types, the tracked jars and the start script |
| `DashboardProofs` | the automation's lock and configuration, authorization states, applied downloads, the staff's records and rights; induction and folds |
| `ConsoleProofs` | the tailer passes no line; what each viewer is owed is what it will be sent |
| `PartsProofs` | the dashboard implements its parts and keeps its types; deleted profiles; the audit's types, returns and log index |
| `MCUpgrades` | `Upgrades` alone, for the finding about backups |

### ServerLifecycle and the code

A job is a coroutine; `pc` says at which await it is. A step is all the code between two awaits that can
suspend: `RestartRequest` is `restart_server` up to the restart message, `EnterRestart` its guard
(flag, flock, cooldown, in the code's order), `EndRestart` its `finally`. `StopReturns` and
`StartReturns` are the caller's reaction to a result: a plain request ends, `restart_server` goes on,
retries an early exit or gives up, `recover_server` goes on to its pid clean-up. `StartEnter`,
`StartSpawn`, `StartFails` and the three `Ready*` actions are `start_server` and
`_wait_for_server_ready`; `StopEnter`, `StopSeesExit` and `StopGivesUp` are `stop_server`, where
giving up is an error, or a kill of the pid it read when forced. A process slot is `sh` until
`start.sh` executes Java, then `up`, then `ready`; the running check sees the last two. `Snapshot`
is the side effect of every look: it drops or rewrites the pid file. Timestamps are the cooldown ticks
they still impose.

`unwaited` is a history variable: it says that nobody waited (or waits any longer) for the script in that
slot when it became visible. `cooling` is one too: the cooldown of the last restart that did succeed,
whatever the files say.

### Operations and the code

`Begin` is `execute_operation` from the cache lookup to the await of the executor, `Busy` the refusal
on the flock, `Finish` the return or exception of the executor with all that follows, `Cancel` a
`CancelledError` at the await: only the `finally` runs. `Tick` ages the cache entries; an entry is
dropped when its time is up, which the code does before every lookup. A call that the cache answers
changes nothing.

### The schedulers and the code

Tick and handler are split at their awaits: `TickRead` reads configuration and status (the CoreProtect
purge may suspend the tick there), `TickDecide` does the rest of `_check_and_act` up to the next await;
`BeginRestart`, `EnterRestart`, `RestartStop` and `RestartStart` are `_execute_restart` up to the
farewell, after it, and the two halves of `restart_server`. `BeginBackup`, `BackupStop`,
`BackupCompress`, `BackupUpload` and `BackupFinish` are `_execute_backup`, with `EndPipeline` and
`Finalize` for its `except` and `finally`. `stop_server` and `start_server` are single steps with every
outcome they have in `ServerLifecycle`, which shows that `process_lock` serialises them. Thresholds,
players and warnings are choices wherever the code asks; clocks are choices of when a target becomes due.

### SetupExecutor and the code

`disk` is the target directory: the claim file, each attempt's directory with its ledger and staged
files, the staging directory, who owns each final name, and whether an entry is there that the code does
not know. `me` is what a request holds: where it is, the attempt it works on, the ledger as it has it in
memory, and for a cleanup whether it deletes published files (`drop`) and where it returns to (`then`).
A step is at most one change of the directory, so errors (`Fail`) and crashes (`Crash`) fall between any
two: `CreateClaim` and `FillClaim` are the `O_EXCL` open and the write of `_create_claim_file`,
`Announce`, `Link`, `RecordPublished` and `Unlink` the four changes per file of `_publish_artifacts`,
`CleanFinal` to `CleanupEnds` the removals of `_cleanup_ledger`, which a failed request and a recovery
share. `CutShort` is the temporary file that an interrupted `_write_json_atomic` leaves: an unknown
entry beside the claim, or a file in the attempt's directory that makes its `rmdir` fail. The claim is
`torn` until its content is written, `new` until it names its ledger. In one worker (`OneWorker`) a
request between two awaits runs alone; otherwise only the files are between requests. An attempt without a
trace may be taken again: it stands for a new id, so the number of attempts bounds those that are on the
disk or worked on at once, not those ever made.

### The updater and the code

A jar is a pair of artifact and version, as its file name is. `Loaded` is `load_versions`, which follows
the jar in place for entries that opted in, and saves. A request keeps what it loaded (`data`) over its
awaits, and `ApplyExchanges`, `CheckEnds`, `InstallEnds` and `Apply` write their copy back whole, as the
code does. `disturbed` is a history variable: the artifacts that somebody saved from data which no longer
said what the file said, changed only in part, or exchanged by hand. `TrackingExact` claims the rest, so
that it holds for everything fresh requests, failed upgrades and crashes do. `dated` are jars whose file is
older than any download: `backup_plugin` copies that time. `UpgradeStaged` to `PreviousStarts` are
`execute_upgrade_manifest` between its awaits; everything from the stop to the save has none, so a crash
does not fall into it. What the network answers is a choice.

`VoxelShop`: a state's age is `now` (the same second), `young` or `old` (half an hour); the code's
`age or 1800` treats the first as expired when it prunes, not when it redeems. A session is `waiting`,
`ready`, `applied` or `failed`; every look and every save prunes what is not active, with the exceptions
`Looked` and `Closed` name. A request that applies a session awaits its check in between (`applying`).

`UpdateAutomation`: a run is the configuration it loaded; `Saved` writes it back. What the run applies
is `auto` in `Updates`; the restart it asks for is a labelled trigger of `RebootScheduler`.

### Staff, profiles, audit, console and the code

`StaffRecords`: every operation loads and saves one file; `Save` has the outcomes of writing in place
(written, refused, torn to an empty or to an unreadable file), none of which the request looks at.
`awaiting` is the message to a warned player or the mtrack command. `StaffAccess`: `Changed` is one call
of the permission or settings service, `Replay` the series of them that a demotion makes, `Spoiled` and
`CutShort` the files it leaves when one save fails or the process dies. An edit checks its target, awaits
its body and then changes (`EditStaff`, `EditManager`, `EditArrives`).

`ServerProfiles` reduces the manager to the steps that read the active profile: the directory noted by a
start, the pid file written after it, the pid noted by a stop, each look. `home` and `strayed` are history:
which profile a server was started from, and which were left or moved while their server was not settled.

`WhitelistAudit` counts time in half days, so that the clock of a line goes back at midnight as the code
sees it. A sync is `sync_whitelist_activity_index` under its lock: `SyncStarts` lists the archives,
`SyncTakesSize` is the `stat` of `latest.log`, and `SyncEnds` the rest of the transaction, the read
included, with `Dates` for the parsed times; the game server logs and rotates between any two of them. Nothing
else of the application does, since a sync does not await (`Here`, `BetweenSyncs`).

The logs and the whitelist are those of the active profile (`_minecraft_dir`), the cursors are kept by path,
and the rows of players and prunes are shared by all profiles. The module follows one profile and has of
the others what they do to the shared tables: while another one is active (`elsewhere`, switched by
`ActivateProfile`), `SyncElsewhere` merges what its logs tell and may empty the live table, since it does so when
those logs have rotated, and `CommandElsewhere` records its additions and removals. A prune that was
planned here goes on there, as in the code.

Four pieces of history say what the code cannot know. `blind` are players with lines that a sync could not read,
skipped because the new log had already outgrown the old one (`Rotated` looks at the size only), or dated as
the old log because it was replaced after its size was taken. `emptied` are the lines of the log whose rows
another profile's sync has deleted and that no sync reads again. `unrecorded` are players whose
whitelisting the records do not tell. `seenAt` is the truth. `ListedReturns` is `_load_rewhitelist_history`
with its three caps: the newest 50 events and at most 50 items (`ReturnCap`), and the last removals of the 200
players pruned last (`PruneCap`).

`Console`: no viewer's callback suspends, so `TailerReads` is one iteration of `_tail_log_file`.
An `Entry` is a line, which is a number, and a time: its own for a line that begins with one, that of the reading
for the others (`Untimed`, `Stamped`), and none for those that `read_latest_log` finds (`FoundAtStart`). What a
viewer remembers are entries, as the code hashes both. `Replaces` gives the new log the old one's number or
another. `due` and `had` are history: what a viewer is still owed, each line once whatever its times, and what
it was sent. `EveryLineOnce` compares what is owed with what the queue and `sent_logs` will still deliver. It
claims nothing once a log was read again (`reread`) that the viewer had forgotten (`forgot`) or in which a line
got another time (`restamped`): a stack trace that is read
a second time is sent a second time. `accounted` says which lines may have been left out.

### Dashboard

The parts of `Dashboard` change files and memory of their own. It therefore chooses one of them at the start
(`part`) and takes that part's steps only: the run explores the sum of their states, with all their properties.
Where one part depends on another, the module of the first has what the other does to it: `Updates` and
`Upgrades` the jobs of the automation and of browser downloads, `ServerProfiles` starts and stops, `Console`
and `WhitelistAudit` the switch of the profile. The audit has more states than the others and is checked in
the run of the setup executor, in the same way: `MCSetupAndAudit` chooses the executor, or one of three
settings of the audit with bounds of their own (`setting`).

## 3. Runs

| Run | Instance | Shows |
| --- | --- | --- |
| `lifecycle_one_worker` | 1 worker, 2 coroutines, 2 process slots, all calls, 2 attempts, cooldown 1, saves may fail | types; flag, flock and coroutine go together; `process_lock` exact; two servers need an unwaited start; the restart gate is implemented |
| `lifecycle_two_workers` | 2 workers, 1 coroutine each, 2 slots, restart, recover and stop, one worker may be killed | guard and gate over processes and crashes |
| `lifecycle_liveness` | 1 worker, 2 coroutines, 1 slot, all calls, fairness | every call returns |
| `operations` | 2 workers, 3 calls, 2 keys, TTL 2, one worker may be killed | types; flock exact; cache and journal truthful; once per key |
| `schedulers` | `Automatic`: no administrators, hangs, failures, 2 tokens; `Administered`: manual triggers and cancels, stale status, 1 token | restarts and backups exclude each other; archives of a stopped server; a cancelled countdown never restarts |
| `schedulers_liveness` | others start, stop and restart the server; fairness | a due maintenance stop happens |
| `setup_and_audit` | `setup`: 1 worker, 2 requests, 2 attempts, 2 artifacts, errors, crashes, foreign files | attempts never mix; published files are recorded; a profile has its files; foreign files stay |
| | `logs`, `profiles`, `commands`: the audit of 2 players, see the bounds | types; nobody seen lately is planned; returns are listed |
| `setup_workers_finding` | the executor with 2 workers | violation, see below |
| `lifecycle_recover_finding` | 1 coroutine | violation, see below |
| `schedulers_error_finding` | manual triggers, failures | violation, see below |
| `dashboard` | each part of `Dashboard` by itself, see the bounds | types, and the properties below |
| `updates_backup_finding` | `Upgrades`, 1 request at a time, 3 versions, 1 backup kept | violation, see below |

The properties of `dashboard` and of the audit:

| Property | Claims |
| --- | --- |
| `TrackingExact` | exactly the tracked jar is in place, but for requests that wrote stale data or failed half-way |
| `ScriptLaunchesTracked` | `start.sh` launches the tracked Paper, through upgrades and rollbacks |
| `StateAuthorisesOnce`, `AppliedIsInstalled` | replayed callbacks connect once; an applied session's jar was installed |
| `ConfigFollowsAdministrator`, `ScheduledRunsUnderLock` | automation follows the last administrator unless a run overlapped; scheduled runs exclude each other over processes |
| `OneActive`, `EndedSessionsStay` | one active entry per player and session per member, over torn saves; evidence is final |
| `DemotionRestores` | a complete demotion gives back the rights of the promotion, after interrupted ones too |
| `KeptWhileRunning` | no profile is deleted while its server runs, if it was left settled |
| `NoFreshPlayerPlanned` | nobody seen within the threshold is planned for removal, unless its last line was misread, archived in the middle of the sync, or its row deleted for another profile's rotation (`Overlooked`) |
| `ReturnsAreListed` | the return of a pruned player is listed, or was noted and crowded out by as many no older ones as the list holds |
| `EveryLineOnce`, `NoLineSkipped` | each viewer is sent each line once, in order, unless its queue overflowed, or lines that it forgot or that got other times were read again; the tailer passes no line |

Six of these exempt what the code does lose. The two that concern the audit and the console are told below; of the
others, `TrackingExact` exempts the plugins that somebody saved from stale data,
`ConfigFollowsAdministrator` a save that overlaps a run, `KeptWhileRunning` profiles left in the middle of a
start or stop, `AutomaticExclusion` (of `schedulers`) manual triggers and recoveries. Those losses
are in the models, no line of the repository promises otherwise, and the hazards in `PROJECT.json` say so: the
properties show that nothing else breaks what they claim.

**Bounds.** Two coroutines are what a race of lock, flag or pid file takes; a third only waits at the same
lock. Two process slots let two servers exist, and a slot is reused when its process exits. Two attempts
reach the retry and its exhaustion. A cooldown or TTL of one or two ticks separates "running" from
"expired"; the ages only count down. Three calls put two in one worker and one in another. `MaxToken`
bounds the restart tokens handed out (`world.tokens`): two give a stale and a current one; the world with
administrators has one to keep it small. `world` is chosen at the start and frozen. Two requests and two
attempts are a dead attempt and its successor, or two that race for the claim; two artifacts give one that
is published and one that is not. The process slots are interchangeable (symmetry in the safety runs
only), and so are the requests and attempts of `setup_workers_finding`.

`dashboard`: three requests to the updater, two of them at once, one plugin beside Paper, two versions and
one kept backup are an update that overlaps a check, an install or an upgrade, with a hand-placed jar or
another request before it. Two states and two sessions with three releases are two connections or downloads
that race, and a session whose release is no longer the newest. Two processes hand the automation's lock
over. Two staff members, one of them an administrator, two players and two records are a duplicate, a
resolved entry beside a new one, a session and its successor; three players would only add names. One
helper has all the interleavings of its own edits; no operation touches two accounts. Three profiles and
two folders are a profile left for another and a third in its folder. One viewer, three lines of which one is
noise and one without a time, two times of reading, and a buffer, a queue and a memory that hold one or two of
them reach the overflow, the forgetting, the second reading and another time in it. Viewers do not influence
each other.

The audit: the clock (`MaxTime`), the lines (`MaxLines`), the removals (`MaxPrunes`), and the syncs and commands
of other profiles (`MaxSyncs`, `MaxCommands`) are bounded. In `logs` one player, a clock of two half days and
three lines give a rotation at midnight, one at a start, and a line between any two steps of a sync, and a
removal that another profile's activation may interrupt. In `profiles` another profile is active for a while; one sync
there deletes the rows of every line read so far, and a second would delete no others without a sync here in
between. In `commands` two players are removed and return, by commands of two profiles; a list of one return
(`ReturnCap`, `PruneCap`) is then too short. The settings have in full what the properties there need; the
theorems have them together.

**Fairness.** `ServerLifecycle!FairSpec`: a coroutine whose await is over runs (the polling loops have
deadlines, so a wait always ends), `asyncio.Lock` wakes its waiters in turn (strong fairness of
`Enter`), and a launched script becomes Java or exits. `Schedulers!FairSpec`: the monitor loops tick for
ever, the calls they await return (`CallsReturn` shows it for the lifecycle), clocks advance, and
administrators do not cancel and reconfigure backups for ever; otherwise they could keep the
backup scheduler busy at every tick. `MaintenanceStopHappens` claims nothing once a backup has failed:
the backup scheduler then publishes ERROR until a manual backup, and the stop waits.

### Disagreements between code and documentation

* `recover_server` promises force-stop, clean-up, start; within the cooldown, or during another
  worker's restart, it stops the server and then refuses to start it (`RecoverGoesOnToStart`).
* The backup scheduler's state machine ends in MONITORING, but an error message, once set, is never
  removed, so a later backup that was uploaded ends in ERROR (`UploadedBackupEndsMonitoring`).
* `_cleanup_old_backups` promises to keep the most recent versions, but sorts by a file time that the backup
  took over from the jar: the backup just made may be the one that is deleted (`BackupSurvives`).
* `docs/MINECRAFT_SETUP_WORKSPACE.md` says that a cleanup removes only what its own attempt created. With
  several workers, two requests may read the ledger of one dead attempt whose cleanup died half-way; the
  faster one cleans up, claims the directory and publishes, and the slower one removes the published file
  because its content matches the old ledger (`OnlyOwnArtifactsRemoved`; the same history breaks
  `ProfileHasItsFiles` with two workers, and the slower request's removal of "the" claim breaks
  `OneAttemptOnDisk`). In one worker the section has no await and all three hold. `ForeignFilesKept` and
  `PublishedIsRecorded` hold with two workers too.

Two more losses need no run of their own, since a property exempts exactly them and fails without the exemption:

* The audit reads the active profile's logs and keeps a cursor for each path, but a rotation of one profile's
  log empties the live rows of all (`whitelist_audit.py:338-339`, 641-642). Back on the first profile, the lines of
  today are not read again, and a player that joined today is planned for removal, although the prune takes
  `inactive_days` as a safety threshold (`admin_moderation.py:536-540`). `NoFreshPlayerPlanned` exempts the lines
  in `emptied`; without that, TLC finds the trace in the setting `profiles`.
* The log websockets remember what they sent "to prevent duplicates" (`admin_server.py:766`), but a line without a
  time gets that of its reading (`minecraft_server.py:976-977`): read again after a profile was activated, it is
  sent a second time. `EveryLineOnce` exempts `restamped`; without that, `dashboard` violates it.

## 4. Proofs

The theorems hold for every number of workers, coroutines, calls, keys, process slots, requests,
attempts and artifacts, any cooldown and TTL, from the named assumptions on the constants.

* `TypeCorrect`: inductive as it stands for the lifecycle and the operations. For the setup executor
  `TypeInv` adds that a request at work on an attempt has one, which a claim or a ledger is written
  with, and that only the removal of the markers ends in `done`.
* `ForeignFilesCorrect`: with the types, a step that touches a final name is a link, a cleanup or another
  program (`FinalSteps`); the first asks for a free name, the second for a file with the attempt's content.
  It holds for one worker and for several.
* `RestartGuardCorrect`: `RestartGuardExact` is not inductive, because `EndRestart` runs from any place
  in the restart: `GuardInv` adds that a coroutine at `restart_begin` or `restart_gap` is inside
  `restart_server`. Then at most one coroutine is, it holds the flock, and every exit resets all three.
* `ProcessLockCorrect`: `ProcessLockExact` with the types is inductive; each return path releases.
* `RestartGateCorrect`: assumes that the restart state file can be written (`SaveOutcomes = {TRUE}`), as in the
  two-worker run, or that one worker makes all the calls and is not killed (`Alone`), as in the one-worker run,
  whose saves may fail. Otherwise another worker, or the next one, does not know of a restart whose save failed.
  `Known` says where the cooldown is: in the file, or in the worker's memory, with no longer one in the file.
  Every step maps to a step of `RestartGate` or a stutter.
* `FlockCorrect`, `WindowCorrect`, `InProgressCorrect`: inductive with the types, the last one with the
  flock. `JournalCorrect` adds that no running call counts as torn down.
* `OncePerKeyCorrect`: every worker (`Home` is any of them) implements `OncePerKey`; a step of
  another worker stutters because the flock excludes it from running at the same time.
* `FollowsCorrect`, `ScheduledRunsCorrect`: `AutomationInv` adds to the types that every started scheduler is
  the holder of the lock, that a scheduled run belongs to a started scheduler, and that until a save
  overlaps a run every run holds a configuration with the administrator's wish, since its end writes back
  what it holds. Assumed: `NoProcess` is no process.
* `StateCorrect`: `AuthInv` adds that a state not issued yet, or still in the file, has granted nothing: the
  state is taken out of the file before anything else is done with it. `AppliedCorrect`: `AppliedInv` adds
  the sessions' types only; the proof is that no look, no expiry and no other application makes a session
  read applied, and that `installedBy` never shrinks.
* `OneActiveCorrect`, `EndedSessionsCorrect`: the argument goes by files instead of requests. `Sound(f)` says
  that the contents `f` are typed and single, keep closed sessions and fit what is awaited; adding, editing,
  closing and deleting one record make sound contents, and so does every outcome of a save, a torn one
  included. The strengthening over `OneActive` is `ToldWarnings`: the identifier a message is awaited for
  is a warning's, so that the answer's mark cannot land on a session.
* `TwoServersCorrect` assumes one worker (`SingleWorker`): `process_lock` is a lock of one process, and two
  workers that look at the same time both launch. `LaunchInv` adds what a launch has seen: while a coroutine
  is about to launch, every process is one nobody waited for, and a script that is waited for has its waiter.
* `FilesCorrect`, `OneAttemptCorrect`, `RecordedCorrect` and `OwnArtifactsCorrect` assume one worker too
  (`OneWorker`); with two the run `setup_workers_finding` violates the last, and the first two fail as well.
  `WorkInv` describes the directory by the program counter of the one request that is between two awaits:
  before its first link no attempt has a final file (`Fresh`), from then on the final files are its own and in
  its memory (`OwnOnly`), taken in order (`PublishesInOrder`); it drops published files until the profile
  exists and never after (`DropsUntilProfile`), and a cleanup has removed what it passed (`CleansUp`).
* `ExclusionCorrect`, `ArchiveCorrect` (of `Schedulers`): `AutomaticInv` relates each scheduler's published
  state to its program counter, since the other one sees nothing else. As the properties they are about a
  world without administrators. `CancelCorrect` is not: `TokenInv` says that the current token was handed out
  and not cancelled, and whoever enters the stop holds it.
* `TrackingCorrect`, `ScriptCorrect`: `IInv` adds to the exactness of the files (`Exact`, for untracked
  artifacts too) what a coroutine relies on after its await: a download knows the jar it replaces and the one
  it fetches (`JobGood`), a manifest and an upgrade exchange Paper and only what was in place (`ExecGood`),
  and the snapshot of `start.sh` launches the Paper of the snapshot unless that is disturbed (`SnapGood`).
  That stale data may be written back needs no conjunct: whoever writes it disturbs its artifacts.
* `PartsCorrect`: a behaviour of `Dashboard` is one of `Upgrades`, `VoxelShop`, `UpdateAutomation` and
  `StaffRecords`, so that their theorems hold of the specification the run checks (`DashboardCorrect`).
* `KeptCorrect`: `ProfilesInv` adds, for profiles that did not stray, that a server is in its profile's folder
  (`AtHome`, `HomesLive`) and that a profile that is not active has the pid file of a server of its own, which
  is up (`LeftSettled`). Assumed: `NoServer` is no profile and no folder.
* `ReturnsCorrect`: `AuditInv` adds that the return of a whitelisted player that was pruned was noted
  (`ReturnNoted`), that the noted events are in the order of their times and different (`EventsInv`), and that
  somebody whose removal is carried out and awaited is on the list only past the records (`RemovalAwaited`). An
  event that the list does not show is then older than those that were loaded, or behind as many as the list
  holds; the caps may be any positive numbers.
* `DemotionCorrect`: `AccessInv` adds that the snapshot in a manager entry stands for the rights from before
  the promotion (`Remembered`). A demotion resets the account and replays the snapshot as changes of the rights;
  `ReplaySteps` turns that fold into a sequence of files, and `ReplayRestores` goes through it by induction: each
  change settles its own right and no other. Assumed (`AccessAssumption`): finitely many permissions, the
  presets, capabilities and revocable hidden ones among them, as in `services/permissions.py`.
* `NoFreshCorrect`: `IndexInv` says that the archives and the live log are logs of one day each, in order, that
  the cursor is not on an earlier day than the log it is of and within it (`LogsInv`), that what a sync took
  of a log that is still there is true of it (`SyncInv`), and that everybody's last appearance is in the archive
  rows, in a log or part of one that a sync will read, in the live rows while their log is there, or among the
  lines whose rows were deleted (`Traced`). `DatesRead` shows by induction over the lines that a sync dates a
  line no earlier than it was written unless the log was replaced unnoticed; lines that come after the size was
  taken are read once more and dated no earlier. Any number of syncs and commands of other profiles may come
  in between. `AuditTypeCorrect` gives the types.
* `NoLineSkippedCorrect`: of a log that is followed (`inode = "same"`) the lines before the position are
  accounted for, and of a position beyond the log's end also the lines that are still to be logged below it
  (`Followed`): the code keeps such a position.
* `EveryLineCorrect`: `LinesInv` says that the log is in order and that the buffer holds only lines from before
  everything that the tailer may still read (`Past`); `ViewersInv` that a viewer's lines, unless they were read
  again, are in order, of `Past`, and each in one place only: sent, among the buffered lines, or in the queue
  (`Ordered`). What the tailer hands out is then new to such a viewer, and appended to what it is owed; to a
  viewer whose lines were read again it is skipped exactly when it is in what the viewer remembers, which
  is all it was sent unless it forgot (`Remembers`), provided that it has the time it had before (`restamped`).
  `Pending` is a fold over the queue; `MergeOneMore` and `MergeHead` say what it does when the queue grows and when the first line is sent. Assumed
  (`ConsoleAssumption`): the sizes are not zero, and the filtered lines are lines of the log.
* `DashboardTypeCorrect` puts the parts' type invariants together, each with the strengthening of its part.

What is left to TLC: `CallsReturn` and `MaintenanceStopHappens` (the prover cannot handle liveness under
fairness or `ENABLED`). Folds are within the prover's reach, `SelectSeq` (a recursive definition) is not. The
induction theorems of the library take an operator as a parameter and cannot be used, but induction over the
naturals follows from the well-foundedness of strict subsets (`Induction` in `DashboardProofs`), and `Iterates`,
`IterationExists` turn a fold into a function over its steps.
`TwoServersNeedUnwaitedStart` and the setup properties with several workers are false or not claimed.

## 5. What the models leave out

* Lifecycle: `send_command`, the players snapshot, a pid reused by a foreign process, an
  exception between launching the script and recording its pid, an unavailable restart lock file (it
  refuses like a held one). `force_refresh` reads are polls, also the last look of a readiness check, which may
  be answered from the cache (1400). A kill that raises ends a stop as a failure even when it was forced
  (1047, 1070); a forced stop fails in the model only by its other ways. `recover_server` cleans up the pid
  file also when it finds no server (1363-1367), as every look that is not answered from the cache does.
* Operations: rate limit, permissions, preflight (they refuse before any modelled state changes); a
  failing write to the journal; operations outside `server:` take no flock, of which there are none now.
* Schedulers: warnings, logs, mail, Drive and pruning; several manual backup pipelines at once; a passive
  process without the instance lock; a restart refused by another worker's flock (only the flag and the
  cooldown are in `CanRestart`, as in the code); a backup that is due again within the run; unexpected
  exceptions of a tick, which `_monitor_loop` answers with the state ERROR.
* Setup: the creation of a missing directory (a lost `mkdir` race is one more refusal), validation and
  previews, two payloads for one directory, an administrator who deletes files, a crash inside `rmdir` or
  between `mkdir` of parents. `_file_matches_artifact` and the unlink after it are one step, and a file of
  somebody else has other content than the artifact: one with the very same bytes would be removed (504-508). What stays
  behind for good is in the model but no property: after a crash that left a published file, a torn
  claim, an attempt directory without a ledger, a half-written staged file or a temporary file, every
  later attempt refuses the directory.
* Updates: version discovery and comparison, checksums, the update log; a crash between two writes without
  an await in between; several plugins at once (each has its own jars and entry; the saves they share are
  covered by Paper beside one plugin). A version is newer if its number is; `is_newer_version` also takes a
  release of the same number that differs in its full version or file name (2279-2286). Preflight and update offer only
  what is above the installed and the tracked version, where the code asks the source and not the installation
  (2403-2612). An update that raises after `start.sh` was changed (3730-3750) leaves it as it was in the
  model; Paper is disturbed then, and the properties claim nothing of it.
* `UpdateAutomation`: the arithmetic of the interval and the hour; a check without updates also counts as a
  run, so that the interval starts again. A process makes one manual run at a time.
* Staff: searches, listings, mails and moderation commands, which change none of the modelled state; what
  a route lets whom do, except where a check is separated from the change by an await. A torn
  `rbac_settings.json` makes the next start migrate the hidden features again: in `StaffAccess`, and
  promised nowhere otherwise. `reconcile_admin_tiers` (215-251), which normalises the manager entries, and takes
  snapshots that are missing, when the application starts, is not in `AppRestarts`, nor is its save.
* Profiles: names, RCON settings, validation; readers that write the normalised file back without the lock
  take another thread or process. A look is one step, though its parts resolve the active profile one by one and
  in a thread (487-512, 545-549), and a start always polls before it ends, also one that does not wait (882-883).
* Whitelist audit: the shared snapshot, whose markers are collected after it was computed, so that a change
  in between goes unnoticed; scores and levels; `usercache.json`. Of the other
  profiles it has what they do to the shared tables, not logs of their own.
* Console: the lines that the dashboard adds itself, lines that are equal within a second, the raw log's
  filter apart (it is called back for filtered lines only, whatever its docstring says), lines logged
  between two file operations of one iteration, pages of older lines.
* Components marked `not_modelled` in `PROJECT.json`: a rate limiter of one list per key, an RCON client,
  samplers of the operating system, readers of other plugins' databases, mails, stateless routes and the
  sequential start-up. They keep no state that a second actor changes between two of their steps.

## 6. Plan

1. Done: `RestartGate`, `ServerLifecycle`; `OncePerKey`, `Operations`; the schedulers; `SetupExecutor`; the
   parts of `Dashboard`.
2. Done: every property of the passing runs but the two liveness properties is a theorem (section 4), for the
   workers, failures and administrators that its run has.
3. Left: the parts that section 5 leaves out, in the order in which their state is shared with a modelled part.
