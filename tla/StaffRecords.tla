------------------------------ MODULE StaffRecords ------------------------------
(***************************************************************************)
(* The records that staff keep about players (services/warnings.py,        *)
(* watchlist.py, player_notes.py and investigation.py) and the requests    *)
(* that change them.  Each kind has a JSON file that every operation loads *)
(* and, when it changed something, writes again in place; two requests     *)
(* await the game server in between.                                       *)
(***************************************************************************)
EXTENDS Naturals

CONSTANTS
    Staff,      \* those who use the dashboard
    Admins,     \* the administrators among them
    Players,    \* the players that records are about
    Ids,        \* the identifiers of records
    MaxLog      \* bounds the commands in a session's log

ASSUME RecordsAssumption ==
    /\ Admins \subseteq Staff
    /\ MaxLog \in Nat \ {0}

Stores == {"warning", "watch", "note", "session"}

\* marks: a warning's `notified`, an edit of a note or an entry, a session's log.
Record == [store : Stores, player : Players, by : Staff, status : {"active", "closed"}, marks : 0..MaxLog]

VARIABLES
    records,    \* the records on disk, by identifier
    unreadable, \* the kinds whose file no request can read
    awaiting    \* what each member of staff awaits from the game server

recordVars == <<records, unreadable, awaiting>>

Awaitable == [what : {"told", "mtrack"}, id : Ids]

RecordsTypeOK ==
    /\ DOMAIN records \subseteq Ids
    /\ \A id \in DOMAIN records : records[id] \in Record
    /\ unreadable \subseteq Stores
    /\ awaiting \in [Staff -> {{}} \cup {{a} : a \in Awaitable}]

RecordsInit ==
    /\ records = << >>
    /\ unreadable = {}
    /\ awaiting = [s \in Staff |-> {}]

--------------------------------------------------------------------------------
(* The files.                                                              *)

Of(store) == {id \in DOMAIN records : records[id].store = store}
NewIds == Ids \ (DOMAIN records \cup UNION {{a.id : a \in awaiting[s]} : s \in Staff})

\* A save replaces the file, or cannot open it, or is cut short by a full disk or
\* a crash.  What is left then loads as an empty file, or not at all when the cut
\* splits a character: UnicodeDecodeError is not caught.  The request is answered
\* as if all had gone well.
Save(store, after) ==
    /\ store \notin unreadable
    /\ \/ records' = after /\ UNCHANGED unreadable
       \/ UNCHANGED <<records, unreadable>>
       \/ /\ records' = [id \in DOMAIN records \ Of(store) |-> records[id]]
          /\ unreadable' \in {unreadable, unreadable \cup {store}}

With(id, store, player, by) ==
    [x \in DOMAIN records \cup {id} |->
        IF x = id
        THEN [store |-> store, player |-> player, by |-> by, status |-> "active", marks |-> 0]
        ELSE records[x]]
Without(id) == [x \in DOMAIN records \ {id} |-> records[x]]
Marked(id) == [records EXCEPT ![id].marks = 1]

Continues == UNCHANGED awaiting

--------------------------------------------------------------------------------
(* Warnings.                                                               *)

Warn(s) ==
    /\ awaiting[s] = {}
    /\ \E id \in NewIds, p \in Players :
          /\ Save("warning", With(id, "warning", p, s))
          /\ awaiting' = [awaiting EXCEPT ![s] = {[what |-> "told", id |-> id]}]

WarnSilently(s) ==
    /\ \E id \in NewIds, p \in Players : Save("warning", With(id, "warning", p, s))
    /\ Continues

\* The answer to the message; the warning may have been deleted meanwhile.
Told(s) ==
    /\ \E a \in awaiting[s] :
          /\ a.what = "told"
          /\ \/ a.id \in DOMAIN records /\ Save("warning", Marked(a.id))
             \/ UNCHANGED <<records, unreadable>>
    /\ awaiting' = [awaiting EXCEPT ![s] = {}]

MayDelete(s, id) == s \in Admins \/ records[id].by = s

DeleteWarning(s) ==
    /\ \E id \in Of("warning") : MayDelete(s, id) /\ Save("warning", Without(id))
    /\ Continues

--------------------------------------------------------------------------------
(* The watchlist, which administrators keep.                               *)

ActiveOf(store) == {id \in Of(store) : records[id].status = "active"}

\* Mutant: the player's other entries are not looked at.
WatchableAgain(p) == TRUE

Watchable(p) == \A id \in ActiveOf("watch") : records[id].player # p

Watchlisted(p) == \E id \in ActiveOf("watch") : records[id].player = p

AddToWatchlist(s) ==
    /\ s \in Admins
    /\ \E id \in NewIds, p \in Players : Watchable(p) /\ Save("watch", With(id, "watch", p, s))
    /\ Continues

UpdateEntry(s) ==
    /\ s \in Admins
    /\ \E id \in Of("watch") : Save("watch", Marked(id))
    /\ Continues

\* Whatever its status is.
ResolveEntry(s) ==
    /\ s \in Admins
    /\ \E id \in Of("watch") : Save("watch", [records EXCEPT ![id].status = "closed"])
    /\ Continues

DeleteEntry(s) ==
    /\ s \in Admins
    /\ \E id \in Of("watch") : Save("watch", Without(id))
    /\ Continues

--------------------------------------------------------------------------------
(* Notes: edited by their authors, deleted by them and by administrators.  *)

AddNote(s) ==
    /\ \E id \in NewIds, p \in Players : Save("note", With(id, "note", p, s))
    /\ Continues

UpdateNote(s) ==
    /\ \E id \in Of("note") : records[id].by = s /\ Save("note", Marked(id))
    /\ Continues

DeleteNote(s) ==
    /\ \E id \in Of("note") : MayDelete(s, id) /\ Save("note", Without(id))
    /\ Continues

--------------------------------------------------------------------------------
(* Investigations.                                                         *)

ActiveSessionOf(s) == {id \in ActiveOf("session") : records[id].by = s}

MayInvestigate(s, p) == s \in Admins \/ Watchlisted(p)

StartInvestigation(s) ==
    /\ ActiveSessionOf(s) = {}
    /\ "watch" \notin unreadable
    /\ \E id \in NewIds, p \in Players :
          MayInvestigate(s, p) /\ Save("session", With(id, "session", p, s))
    /\ Continues

\* end_investigation, and abandon_investigation, which also an administrator may
\* call for the owner.
EndInvestigation(s) ==
    /\ \E id \in ActiveSessionOf(s) : Save("session", [records EXCEPT ![id].status = "closed"])
    /\ Continues

\* Mutant: whoever owns the session may add to it.
LoggableByOwner(s, id) == id \in Of("session") /\ records[id].by = s

\* log_command_execution looks at owner and status when the answer is there.
Loggable(s, id) == id \in ActiveSessionOf(s)

Logged(s, id) ==
    IF Loggable(s, id)
    THEN /\ records[id].marks < MaxLog
         /\ Save("session", [records EXCEPT ![id].marks = @ + 1])
    ELSE "session" \notin unreadable /\ UNCHANGED <<records, unreadable>>

\* The session of the requester that both commands add to, if there is one.
SessionAbout(s, p) == {id \in ActiveSessionOf(s) : records[id].player = p}

RunGrimac(s) ==
    /\ \E p \in Players :
          MayInvestigate(s, p) /\ \E id \in SessionAbout(s, p) : Logged(s, id)
    /\ Continues

RunMtrack(s) ==
    /\ awaiting[s] = {}
    /\ \E p \in Players :
          /\ MayInvestigate(s, p)
          /\ \E id \in SessionAbout(s, p) : awaiting' = [awaiting EXCEPT ![s] = {[what |-> "mtrack", id |-> id]}]
    /\ UNCHANGED <<records, unreadable>>

MtrackEnds(s) ==
    /\ \E a \in awaiting[s] :
          /\ a.what = "mtrack"
          /\ \/ Logged(s, a.id)
             \/ "session" \in unreadable /\ UNCHANGED <<records, unreadable>>
    /\ awaiting' = [awaiting EXCEPT ![s] = {}]

RecordsCrash ==
    /\ awaiting' = [s \in Staff |-> {}]
    /\ UNCHANGED <<records, unreadable>>

RecordsNext ==
    \/ \E s \in Staff :
          \/ Warn(s) \/ WarnSilently(s) \/ Told(s) \/ DeleteWarning(s)
          \/ AddToWatchlist(s) \/ UpdateEntry(s) \/ ResolveEntry(s) \/ DeleteEntry(s)
          \/ AddNote(s) \/ UpdateNote(s) \/ DeleteNote(s)
          \/ StartInvestigation(s) \/ EndInvestigation(s)
          \/ RunGrimac(s) \/ RunMtrack(s) \/ MtrackEnds(s)
    \/ RecordsCrash

RecordsSpec == RecordsInit /\ [][RecordsNext]_recordVars

--------------------------------------------------------------------------------
(* Properties.                                                             *)

\* A player has at most one active entry and a member of staff at most one active
\* session, over failed and torn saves and entries that are resolved again.
OneActive ==
    /\ \A i, j \in ActiveOf("watch") : records[i].player = records[j].player => i = j
    /\ \A i, j \in ActiveOf("session") : records[i].by = records[j].by => i = j

\* A session that has ended is evidence: while it exists nothing of it changes any
\* more, also when a command that was sent during the session is answered later.
EndedSessionsStay ==
    [][\A id \in Of("session") :
          records[id].status = "closed" /\ id \in DOMAIN records' => records'[id] = records[id]]_recordVars
================================================================================
