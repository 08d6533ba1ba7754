----------------------------- MODULE WhitelistAudit -----------------------------
(***************************************************************************)
(* The whitelist audit (services/whitelist_audit.py): it indexes the game  *)
(* server's logs, which rotate under it, decides from the index who has    *)
(* not been seen for long, and removes those that an administrator picks,  *)
(* awaiting the server for each.  No operation on the index awaits, and    *)
(* each is one transaction: while a sync runs, only the server and the     *)
(* clock go on.                                                            *)
(*                                                                         *)
(* The logs and the whitelist are those of the active profile; the index   *)
(* and the records are shared by all.  The module follows one profile, and *)
(* has of the others what they do to the shared tables.                    *)
(*                                                                         *)
(* Time is counted in half days.                                           *)
(***************************************************************************)
EXTENDS Integers, Sequences, SequencesExt, FiniteSetsExt

CONSTANTS
    Members,        \* players, numbered in the order of their names
    Protected,      \* those that are never removed
    Inactive,       \* the days without a sign of life that make a candidate
    ReturnCap,      \* the returns that are listed at most
    PruneCap,       \* the removals from which returns are inferred at most
    MaxTime,        \* bounds the clock
    MaxLines,       \* bounds the lines that the server logs
    MaxPrunes,      \* bounds the rows of manual_prune_history
    MaxSyncs,       \* bounds the syncs while another profile is active,
    MaxCommands     \* and the commands

ASSUME AuditAssumption ==
    /\ Members \subseteq Nat \ {0} /\ IsFiniteSet(Members)
    /\ Protected \subseteq Members
    /\ {Inactive, ReturnCap, PruneCap, MaxTime, MaxLines} \subseteq Nat \ {0}
    /\ {MaxPrunes, MaxSyncs, MaxCommands} \subseteq Nat

VARIABLES
    now,
    elsewhere,      \* is another profile active?
    othersSyncs,    \* how many syncs there were while it was,
    othersCommands, \* and how many commands
    lines,          \* how many lines the server has logged
    log,            \* latest.log
    archives,       \* the archived logs that no sync has read
    rotated,        \* is latest.log another file than the one the cursor is of?
    sync,           \* the sync under way: the archives it lists, and what it takes
                    \* the size and the day of latest.log to be
    cursor,         \* the source state of latest.log
    archiveRows,    \* player_activity_archive
    liveRows,       \* player_activity_live
    whitelist,      \* whitelist.json
    prune,          \* the prune under way: who is left, whose removal is awaited,
                    \* and whether the server has carried it out
    prunes,         \* how many rows manual_prune_history has
    pruneId,        \* the last of them, of each player
    prunedAt,       \* the time in it
    events,         \* whitelist_lifecycle_events: the returns that were noted
    seenAt,         \* history: when a player last joined or left
    emptied,        \* history: the lines of latest.log whose rows were deleted for
                    \* the rotation of another profile's log
    blind,          \* history: players with lines that a sync misread
    unrecorded      \* history: players added past the records, or removed from
                    \* another profile's whitelist

auditVars == <<now, elsewhere, othersSyncs, othersCommands, lines, log, archives, rotated, sync, cursor, archiveRows,
               liveRows, whitelist, prune, prunes, pruneId, prunedAt, events, seenAt, emptied,
               blind, unrecorded>>
activeVars == <<elsewhere, othersSyncs, othersCommands>>
indexVars == <<archives, rotated, cursor, archiveRows, liveRows, emptied, blind>>
tableVars == <<cursor, archiveRows, liveRows>>
serverVars == <<lines, log, archives, rotated, emptied, sync>>
returnVars == <<prunes, pruneId, prunedAt, events>>

Never == -1
Times == Nat \cup {Never}
Events == {"added", "removed", "seen"}
Rows == [Members -> [Events -> Times]]
NoRows == [p \in Members |-> [e \in Events |-> Never]]

Day(t) == t \div 2
Clock(t) == t % 2
TimeOf(day, clock) == 2 * day + clock

Server == 0
Line == [player : Members \cup {Server}, event : Events \cup {"boot"}, at : 0..MaxTime]
Boot == [player |-> Server, event |-> "boot", at |-> now]

\* The event of a player's return, with the time of the removal to which it belongs.
Return == [player : Members, at : Nat, of : 0..MaxTime]

AuditTypeOK ==
    /\ now \in 0..MaxTime
    /\ {elsewhere, rotated} \subseteq BOOLEAN
    /\ othersSyncs \in 0..MaxSyncs /\ othersCommands \in 0..MaxCommands
    /\ lines \in 0..MaxLines
    /\ log \in Seq(Line) /\ log # << >>
    /\ \A a \in archives : a \in Seq(Line) /\ a # << >>
    /\ sync.step \in {"none", "listed", "stat", "stale"} /\ sync.listed \subseteq archives
    /\ sync.size \in 0..MaxLines + 1 /\ sync.day \in 0..Day(MaxTime)
    /\ cursor \in [offset : 0..MaxLines + 1, date : Nat, clock : 0..1]
    /\ {archiveRows, liveRows} \subseteq Rows
    /\ whitelist \subseteq Members
    /\ prune \in [todo : SUBSET Members, sent : SUBSET Members, done : BOOLEAN]
    /\ prunes \in 0..MaxPrunes /\ pruneId \in [Members -> 0..MaxPrunes]
    /\ {prunedAt, seenAt} \subseteq [Members -> Never..MaxTime]
    /\ events \in Seq(Return)
    /\ emptied \in 0..MaxLines + 1
    /\ {blind, unrecorded} \subseteq SUBSET Members

NoPrune == [todo |-> {}, sent |-> {}, done |-> FALSE]
NoSync == [step |-> "none", listed |-> {}, size |-> 0, day |-> 0]

AuditInit ==
    /\ now = 0
    /\ elsewhere = FALSE
    /\ othersSyncs = 0 /\ othersCommands = 0
    /\ lines = 0
    /\ log = <<Boot>>
    /\ archives = {}
    /\ rotated = FALSE
    /\ sync = NoSync
    /\ cursor = [offset |-> 0, date |-> 0, clock |-> 0]
    /\ archiveRows = NoRows
    /\ liveRows = NoRows
    /\ whitelist = {}
    /\ prune = NoPrune
    /\ prunes = 0
    /\ pruneId = [p \in Members |-> 0]
    /\ prunedAt = [p \in Members |-> Never]
    /\ events = << >>
    /\ seenAt = [p \in Members |-> Never]
    /\ emptied = 0
    /\ blind = {}
    /\ unrecorded = {}

--------------------------------------------------------------------------------
(* The game server, which begins a new log when it starts and with the     *)
(* first line of a day.                                                    *)

Rotate(line) ==
    /\ log' = <<line>> /\ archives' = archives \cup {log} /\ rotated' = TRUE /\ emptied' = 0
    /\ sync' = IF sync.step = "stat" THEN [sync EXCEPT !.step = "stale"] ELSE sync

LogLine(player, event) ==
    LET line == [player |-> player, event |-> event, at |-> now]
    IN  /\ lines < MaxLines                                 \* bounds the lines
        /\ lines' = lines + 1
        /\ IF Day(now) = Day(Last(log).at)
           THEN log' = Append(log, line) /\ UNCHANGED <<archives, rotated, emptied, sync>>
           ELSE Rotate(line)

ServerRestarts ==
    /\ lines < MaxLines                                     \* bounds the lines
    /\ lines' = lines + 1
    /\ Rotate(Boot)
    /\ UNCHANGED <<now, activeVars, tableVars, whitelist, prune, returnVars, seenAt, blind, unrecorded>>

PlayerSeen ==
    /\ \E p \in whitelist : LogLine(p, "seen") /\ seenAt' = [seenAt EXCEPT ![p] = now]
    /\ UNCHANGED <<now, activeVars, tableVars, whitelist, prune, returnVars, blind, unrecorded>>

\* `whitelist add` and `whitelist remove`: without effect they are not logged
\* as such, and succeed all the same.
ServerAdds(p) ==
    IF p \in whitelist THEN UNCHANGED <<whitelist, serverVars>>
    ELSE whitelist' = whitelist \cup {p} /\ LogLine(p, "added")

ServerRemoves(p) ==
    IF p \notin whitelist THEN UNCHANGED <<whitelist, serverVars>>
    ELSE whitelist' = whitelist \ {p} /\ LogLine(p, "removed")

TimePasses ==
    /\ now < MaxTime
    /\ now' = now + 1
    /\ UNCHANGED <<activeVars, serverVars, tableVars, whitelist, prune, returnVars, seenAt, blind, unrecorded>>

--------------------------------------------------------------------------------
(* The index.                                                              *)

Latest(times) == Max(times \cup {Never})

\* The date of each line, from a date and a clock on: it advances when the clock
\* goes back.
Dates(ls, date, clock) ==
    [i \in DOMAIN ls |->
        date + Cardinality({k \in 1..i : Clock(ls[k].at) < IF k = 1 THEN clock ELSE Clock(ls[k - 1].at)})]

\* _parse_line and _update_delta: when the event last happened to p, by those dates.
Delta(p, event, ls, dates) ==
    Latest({TimeOf(dates[i], Clock(ls[i].at)) :
              i \in {k \in DOMAIN ls : ls[k].player = p /\ ls[k].event = event}})

\* _merge_deltas and _merge_activity_row keep the later time of each event.
Merged(rows, more) == [p \in Members |-> [e \in Events |-> Latest({rows[p][e], more[p][e]})]]

\* _sync_archives: an archive's lines are of the day in its name.  One whose
\* read fails after its first lines counts as processed all the same.
FromArchives(read) ==
    [p \in Members |-> [e \in Events |->
        Latest({Delta(p, e, SubSeq(a, 1, read[a]), [i \in 1..read[a] |-> Day(a[1].at)]) :
                  a \in sync.listed})]]

\* Mutant: a log that has become shorter is read on from where it was left.
RotatedUnnoticed(c) == FALSE

\* _sync_latest: a rotation is noticed by the size only.
Rotated(c) == sync.size < c.offset

\* The log may have grown since its size was taken, or have been replaced.
Start == IF Rotated(cursor) THEN 0 ELSE cursor.offset
Unread(readable) == IF readable THEN SubSeq(log, Start + 1, Len(log)) ELSE << >>

\* A log that is read from its beginning ends on the day of its last change.
StartDate == IF Start = 0 THEN sync.day ELSE cursor.date
StartClock == IF Start = 0 THEN 0 ELSE cursor.clock
Aligned(dates) ==
    IF Start = 0 /\ dates # << >> /\ Last(dates) > sync.day
    THEN [i \in DOMAIN dates |-> dates[i] - (Last(dates) - sync.day)]
    ELSE dates

PlayersIn(ls) == {p \in Members : \E i \in DOMAIN ls : ls[i].player = p}

\* What the sync just misread: new lines that could not be read, and everything
\* in a new log that has outgrown the old one unnoticed, or replaced it after its
\* size was taken: its beginning is skipped, or it is dated as the old one.
Misread(readable, read) ==
    (IF ~readable \/ rotated' THEN PlayersIn(log) ELSE {})
      \cup UNION {PlayersIn(SubSeq(a, read[a] + 1, Len(a))) : a \in sync.listed}

\* Mutant: latest.log is taken for an archive.
SyncListsAll ==
    /\ sync.step = "none" /\ ~elsewhere
    /\ sync' = [NoSync EXCEPT !.step = "listed", !.listed = archives \cup {log}]
    /\ UNCHANGED <<now, activeVars, lines, log, indexVars, whitelist, prune, returnVars, seenAt, unrecorded>>

SyncStarts ==
    /\ sync.step = "none" /\ ~elsewhere
    /\ sync' = [NoSync EXCEPT !.step = "listed", !.listed = archives]
    /\ UNCHANGED <<now, activeVars, lines, log, indexVars, whitelist, prune, returnVars, seenAt, unrecorded>>

SyncTakesSize ==
    /\ sync.step = "listed"
    /\ sync' = [sync EXCEPT !.step = "stat", !.size = Len(log), !.day = Day(Last(log).at)]
    /\ UNCHANGED <<now, activeVars, lines, log, indexVars, whitelist, prune, returnVars, seenAt, unrecorded>>

\* The archives that came since they were listed wait for the next sync.  Of the
\* lines that came since the size was taken, the next sync reads those again that
\* this one has read.  The live table is emptied when a rotation is noticed.
SyncEnds ==
    /\ sync.step \in {"stat", "stale"}
    /\ \E readable \in BOOLEAN, read \in [sync.listed -> 0..MaxLines + 1] :
          LET ls == Unread(readable)
              dates == Aligned(Dates(ls, StartDate, StartClock))
              live == [p \in Members |-> [e \in Events |-> Delta(p, e, ls, dates)]]
          IN  /\ \A a \in sync.listed : read[a] <= Len(a)
              /\ archiveRows' = Merged(archiveRows, FromArchives(read))
              /\ archives' = archives \ sync.listed
              /\ liveRows' = Merged(IF Rotated(cursor) THEN NoRows ELSE liveRows, live)
              /\ cursor' = [offset |-> sync.size,
                            date |-> IF ls = << >> THEN StartDate ELSE Last(dates),
                            clock |-> IF ls = << >> THEN StartClock ELSE Clock(Last(ls).at)]
              /\ rotated' = \/ sync.step = "stale"
                            \/ rotated /\ cursor.offset # 0 /\ sync.size >= cursor.offset
              /\ blind' = blind \cup Misread(readable, read)
    /\ sync' = NoSync
    /\ UNCHANGED <<now, activeVars, lines, log, emptied, whitelist, returnVars, seenAt, unrecorded>>

Refresh == SyncEnds /\ UNCHANGED prune

\* A sync while another profile is active reads that one's logs into the same
\* tables, and empties the live one when it notices that they have rotated, as it
\* may at any time: that profile's log may have been read before.
SyncElsewhere ==
    /\ sync.step = "none" /\ elsewhere
    /\ othersSyncs < MaxSyncs                              \* bounds the syncs
    /\ othersSyncs' = othersSyncs + 1
    /\ \E clears \in BOOLEAN, p \in Members, e \in Events, t \in Never..now :
          LET kept == IF clears THEN NoRows ELSE liveRows
              found == [NoRows EXCEPT ![p][e] = t]
          IN  /\ \/ liveRows' = Merged(kept, found) /\ UNCHANGED archiveRows
                 \/ liveRows' = kept /\ archiveRows' = Merged(archiveRows, found)
              /\ emptied' = IF clears /\ ~rotated THEN cursor.offset ELSE emptied
    /\ UNCHANGED <<now, elsewhere, othersCommands, lines, log, archives, rotated, sync, cursor, whitelist, prune,
                   returnVars, seenAt, blind, unrecorded>>

--------------------------------------------------------------------------------
(* The audit of a player, from its merged row.                             *)

Old(t) == Day(now - t) >= Inactive

\* _normalize_current_activity: what was before the current membership.
Added(row) == IF row["removed"] >= row["added"] THEN Never ELSE row["added"]
Seen(row) == IF row["seen"] <= row["removed"] \/ row["seen"] < Added(row) THEN Never ELSE row["seen"]

\* _build_entry: inactive, or never seen since a long time.
Recommended(row) ==
    IF Seen(row) # Never THEN Old(Seen(row)) ELSE Added(row) # Never /\ Old(Added(row))

\* build_manual_prune_plan syncs, and takes those that were asked for and are
\* recommended.
PlanPrune ==
    /\ prune = NoPrune
    /\ SyncEnds
    /\ \E requested \in SUBSET Members :
          prune' = [NoPrune EXCEPT !.todo =
                      {p \in (requested \cap whitelist) \ Protected :
                         Recommended(Merged(archiveRows', liveRows')[p])}]

--------------------------------------------------------------------------------
(* Commands, their records, and the prune's removals.                      *)

RecordLive(p, event) == liveRows' = [liveRows EXCEPT ![p][event] = Latest({now, @})]

\* _is_same_or_after, of times in seconds.
SameOrAfter(t, removed) == t >= removed

\* record_whitelist_add, with the event of a pruned player's return, which is
\* noted once.
RecordAdd(p) ==
    LET return == [player |-> p, at |-> now, of |-> prunedAt[p]]
    IN  /\ RecordLive(p, "added")
        /\ events' = IF prunedAt[p] # Never /\ SameOrAfter(now, prunedAt[p]) /\ return \notin Range(events)
                     THEN Append(events, return) ELSE events

\* record_whitelist_remove and record_manual_prune.
RecordPrune(p) ==
    /\ prunes < MaxPrunes                                   \* bounds the rows
    /\ RecordLive(p, "removed")
    /\ prunes' = prunes + 1
    /\ pruneId' = [pruneId EXCEPT ![p] = prunes + 1]
    /\ prunedAt' = [prunedAt EXCEPT ![p] = now]
    /\ UNCHANGED events

\* Does the application carry out a command, and on this profile's server?
BetweenSyncs == sync.step = "none"
Here == BetweenSyncs /\ ~elsewhere

\* Through the application, or in the game and past its records.
AddMember ==
    /\ \E p \in Members :
          /\ ServerAdds(p)
          /\ \/ /\ Here
                /\ RecordAdd(p)
                /\ unrecorded' = IF p \in prune.sent THEN unrecorded \cup {p} ELSE unrecorded \ {p}
             \/ /\ UNCHANGED <<liveRows, events>>
                /\ unrecorded' = unrecorded \cup {p}
    /\ UNCHANGED <<now, activeVars, cursor, archiveRows, prune, prunes, pruneId, prunedAt, seenAt, blind>>

RemoveMember ==
    /\ \E p \in Members :
          /\ ServerRemoves(p)
          /\ \/ Here /\ RecordLive(p, "removed")
             \/ UNCHANGED liveRows
    /\ UNCHANGED <<now, activeVars, cursor, archiveRows, prune, returnVars, seenAt, blind, unrecorded>>

\* The removal of the next player; it is carried out, by the server of the profile
\* that is active now, unless the command fails.
PruneSends ==
    /\ BetweenSyncs /\ prune.sent = {}
    /\ \E p \in prune.todo, done \in BOOLEAN :
          /\ prune' = [todo |-> prune.todo \ {p}, sent |-> {p}, done |-> done]
          /\ IF done /\ ~elsewhere THEN ServerRemoves(p) ELSE UNCHANGED <<whitelist, serverVars>>
          /\ unrecorded' = IF done /\ elsewhere THEN unrecorded \cup {p} ELSE unrecorded
    /\ UNCHANGED <<now, activeVars, tableVars, returnVars, seenAt, blind>>

\* The removal is recorded unless the answer is an error.
PruneAnswered ==
    /\ BetweenSyncs
    /\ \E p \in prune.sent :
          \/ prune.done /\ RecordPrune(p)
          \/ UNCHANGED <<liveRows, returnVars>>
    /\ prune' = [prune EXCEPT !.sent = {}, !.done = FALSE]
    /\ UNCHANGED <<now, activeVars, serverVars, cursor, archiveRows, whitelist, seenAt, blind, unrecorded>>

\* What is recorded of another profile's players.
CommandElsewhere ==
    /\ BetweenSyncs /\ elsewhere
    /\ othersCommands < MaxCommands                        \* bounds the commands
    /\ othersCommands' = othersCommands + 1
    /\ \E p \in Members :
          \/ RecordAdd(p) /\ UNCHANGED <<prunes, pruneId, prunedAt, unrecorded>>
          \/ RecordLive(p, "removed") /\ UNCHANGED <<returnVars, unrecorded>>
          \/ RecordPrune(p) /\ unrecorded' = unrecorded \cup {p}
    /\ UNCHANGED <<now, elsewhere, othersSyncs, serverVars, cursor, archiveRows, whitelist, prune, seenAt, blind>>

\* set_active_profile, of another profile or of this one again.
ActivateProfile ==
    /\ BetweenSyncs
    /\ elsewhere' = ~elsewhere
    /\ UNCHANGED <<now, othersSyncs, othersCommands, serverVars, tableVars, whitelist, prune, returnVars, seenAt, blind, unrecorded>>

\* The application dies: the sync's transaction is rolled back.
AuditCrash ==
    /\ prune' = NoPrune
    /\ sync' = NoSync
    /\ UNCHANGED <<now, activeVars, lines, log, indexVars, whitelist, returnVars, seenAt, unrecorded>>

AuditNext ==
    \/ ServerRestarts \/ PlayerSeen \/ TimePasses
    \/ SyncStarts \/ SyncTakesSize \/ Refresh \/ PlanPrune \/ SyncElsewhere
    \/ AddMember \/ RemoveMember \/ PruneSends \/ PruneAnswered
    \/ CommandElsewhere \/ ActivateProfile \/ AuditCrash

AuditSpec == AuditInit /\ [][AuditNext]_auditVars

--------------------------------------------------------------------------------
(* The list of returns, _load_rewhitelist_history.                         *)

\* The noted ones, of which the newest are loaded.
Noted == Range(SubSeq(events, IF Len(events) > ReturnCap THEN Len(events) - ReturnCap + 1 ELSE 1, Len(events)))

\* The players whose removals are loaded: the last ones of the last rows.
LoadedPrunes ==
    {p \in Members : pruneId[p] # 0 /\ Cardinality({q \in Members : pruneId[q] > pruneId[p]}) < PruneCap}

\* Those that the index tells of and that are not among the noted ones.
Inferred ==
    {[player |-> p, at |-> Merged(archiveRows, liveRows)[p]["added"], of |-> prunedAt[p]] :
       p \in {q \in LoadedPrunes :
                /\ SameOrAfter(Merged(archiveRows, liveRows)[q]["added"], prunedAt[q])
                /\ \A x \in Noted : x.player # q \/ x.of # prunedAt[q]}}

Returns == Noted \cup Inferred

\* Mutant: the oldest come first.
OldestFirst(x, y) == x.at < y.at

\* By time, then by name, then as they were loaded.
Precedes(x, y) ==
    \/ x.at > y.at
    \/ x.at = y.at /\ x.player > y.player
    \/ x.at = y.at /\ x.player = y.player /\ x \in Noted /\ (y \in Inferred \/ x.of > y.of)

ListedReturns == {x \in Returns : Cardinality({y \in Returns : Precedes(y, x)}) < ReturnCap}

--------------------------------------------------------------------------------
(* Properties.                                                             *)

\* A line of ls tells when p last joined or left.
TellsLast(ls, p) == \E i \in DOMAIN ls : ls[i].player = p /\ ls[i].event = "seen" /\ ls[i].at = seenAt[p]

\* What a player's last sign of life may be missing for in a sync that just ended:
\* it was misread, it is in a log that was archived while the sync ran, or its row
\* was deleted when another profile's log had rotated, and the log is still the
\* same and is not read again.
Overlooked(p) ==
    \/ p \in blind
    \/ \E a \in archives : TellsLast(a, p)
    \/ TellsLast(SubSeq(log, 1, emptied), p)

\* No player is planned to be removed that has joined or left within the
\* threshold, whatever rotations, restarts and other profiles came between the
\* syncs, and whatever the server logs in the middle of one, but for Overlooked.
NoFreshPlayerPlanned ==
    [][\A p \in prune'.todo \ prune.todo :
          seenAt[p] = Never \/ Old(seenAt[p]) \/ Overlooked(p)']_auditVars

\* So many other returns are no older that the list holds no more.
CrowdedOut(x) == Cardinality({y \in Returns : y # x /\ y.at >= x.at}) >= ReturnCap

\* A player that was pruned and is whitelisted again is listed as returned, or its
\* return was noted and the list is full of others that are no older: unless it was
\* added in the game, or while the answer to its removal was awaited, or was removed
\* from another profile's whitelist.
ReturnsAreListed ==
    \A p \in whitelist \ unrecorded : prunedAt[p] # Never =>
        \E x \in Returns \cup Range(events) :
            /\ x.player = p /\ x.of = prunedAt[p]
            /\ x \in ListedReturns \/ CrowdedOut(x)
================================================================================
