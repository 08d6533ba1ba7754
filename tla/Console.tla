-------------------------------- MODULE Console --------------------------------
(***************************************************************************)
(* The live console (services/minecraft_server.py, the log websockets of   *)
(* routers/admin_server.py): one task tails latest.log, which the server   *)
(* replaces when it starts and when a day begins, keeps the last lines in  *)
(* a buffer and calls the viewers, each of which has a bounded queue and   *)
(* remembers what it was sent.                                             *)
(*                                                                         *)
(* No viewer's callback suspends, so an iteration of the tailer is one     *)
(* step.  A line is a number; to the dashboard, lines of one time of day   *)
(* and one text are the same.  A line without a time, as those of a stack  *)
(* trace, gets that of its reading, so that it is another when it is read  *)
(* again.  The dashboard's own "[CORA]" lines are left out.                *)
(***************************************************************************)
EXTENDS Naturals, Sequences, SequencesExt, FiniteSets

CONSTANTS
    Viewers,        \* the connections that can be open
    MaxLogged,      \* bounds the lines that the server logs
    Noise,          \* the lines that LOG_FILTER_PATTERNS match
    Untimed,        \* the lines that do not begin with a time
    ReadTimes,      \* the times of day at which a line may be read
    BufferSize,     \* the buffer's maxlen
    RecentSize,     \* the buffered lines that a viewer is sent first
    QueueSize,      \* LOG_WS_QUEUE_SIZE
    SentSize        \* the lines that a viewer remembers at most

ASSUME ConsoleAssumption ==
    /\ {MaxLogged, BufferSize, RecentSize, QueueSize, SentSize} \subseteq Nat \ {0}
    /\ Noise \subseteq 1..MaxLogged /\ Untimed \subseteq 1..MaxLogged
    /\ ReadTimes \subseteq Nat \ {0}

VARIABLES
    process,    \* the server: still the shell that starts it, or Java
    away,       \* is another profile active, whose server does not run?
    latestLog,  \* latest.log
    logged,     \* how many lines the server has logged
    inode,      \* last_log_inode: of this file, of another, of another that had
                \* the number which this file got, or None
    position,   \* last_log_position
    logBuffer,
    tailing,    \* does the tailer run?
    viewer,     \* the connections
    accounted   \* history: lines that were handed out, or left out on purpose

consoleVars == <<process, away, latestLog, logged, inode, position, logBuffer,
                 tailing, viewer, accounted>>
fileState == <<latestLog, logged>>
tailState == <<inode, position, logBuffer, tailing, accounted>>

Lines == 1..MaxLogged

\* An entry has its line's own time, none included, or that of its reading.
OwnTime == 0
Entry == [line : Lines, time : ReadTimes \cup {OwnTime}]
Shown == {x \in Entry : x.line \notin Noise}
LinesIn(entries) == {x.line : x \in entries}

\* due, had: history, what the viewer is still to be sent and what it was sent;
\* overflown, forgot, reread, restamped: history, has its queue dropped a line, has
\* it forgotten what it was sent, has the log been read again from its start, and
\* was a line in it that had another time before?
Unconnected == [on |-> FALSE, recent |-> << >>, queue |-> << >>, sent |-> {}, due |-> << >>, had |-> {},
                overflown |-> FALSE, forgot |-> FALSE, reread |-> FALSE, restamped |-> FALSE]

ConsoleTypeOK ==
    /\ process \in {"none", "booting", "up"}
    /\ {away, tailing} \subseteq BOOLEAN
    /\ latestLog \in Seq(Lines)
    /\ logged \in 0..MaxLogged
    /\ inode \in {"none", "same", "other", "reused"}
    /\ position \in 0..MaxLogged
    /\ logBuffer \in Seq(Entry) /\ Len(logBuffer) <= BufferSize
    /\ accounted \subseteq Lines
    /\ \A v \in Viewers :
          /\ viewer[v].recent \in Seq(Entry) /\ Len(viewer[v].recent) <= RecentSize
          /\ viewer[v].queue \in Seq(Shown) /\ Len(viewer[v].queue) <= QueueSize
          /\ viewer[v].sent \subseteq Entry

ConsoleInit ==
    /\ process \in {"none", "up"}
    /\ away = FALSE
    /\ latestLog = << >>
    /\ logged = 0
    /\ inode = "none"
    /\ position = 0
    /\ logBuffer = << >>
    /\ tailing = (process = "up")
    /\ viewer = [v \in Viewers |-> Unconnected]
    /\ accounted = {}

LastOf(s, n) == SubSeq(s, IF Len(s) > n THEN Len(s) - n + 1 ELSE 1, Len(s))

--------------------------------------------------------------------------------
(* The server and its log.                                                 *)

NextLine == logged + 1

\* The new log may get the number that the old one had.
Replaces(file) ==
    /\ latestLog' = file
    /\ inode' \in IF inode = "none" THEN {"none"} ELSE {"other", "reused"}

ServerLogs ==
    /\ process = "up" /\ logged < MaxLogged
    /\ logged' = NextLine
    /\ \/ latestLog' = Append(latestLog, NextLine) /\ UNCHANGED inode
       \/ Replaces(<<NextLine>>)
    /\ UNCHANGED <<process, away, position, logBuffer, tailing, viewer, accounted>>

JavaStarts ==
    /\ process = "booting"
    /\ process' = "up"
    /\ Replaces(<< >>)
    /\ UNCHANGED <<away, logged, position, logBuffer, tailing, viewer, accounted>>

ServerExits ==
    /\ process # "none"
    /\ process' = "none"
    /\ UNCHANGED <<away, fileState, tailState, viewer>>

StartedOutside ==
    /\ process = "none"
    /\ process' = "booting"
    /\ UNCHANGED <<away, fileState, tailState, viewer>>

--------------------------------------------------------------------------------
(* The tailer.                                                             *)

Visible == process = "up" /\ ~away

\* start_server cancels the old tailer and starts from the end of the log.
StartsTailing ==
    /\ process = "none" /\ ~away
    /\ process' = "booting"
    /\ logBuffer' = << >>
    /\ position' = Len(latestLog)
    /\ inode' = IF latestLog = << >> THEN "none" ELSE "same"
    /\ accounted' = accounted \cup Range(latestLog)
    /\ tailing' = TRUE
    /\ UNCHANGED <<away, fileState, viewer>>

\* The tailer that finds no server of the active profile ends, and nothing but a
\* start of the server or of the application begins another.
TailerEnds ==
    /\ tailing /\ ~Visible
    /\ tailing' = FALSE
    /\ UNCHANGED <<process, away, fileState, inode, position, logBuffer, viewer, accounted>>

\* Mutant: only a log that is shorter is another one.
ReplacedIfShorter == inode # "none" /\ Len(latestLog) < position

\* Is latest.log known to be another file than the one last read?
LogReplaced == inode # "none" /\ (inode = "other" \/ Len(latestLog) < position)

ReadFrom == IF LogReplaced THEN 0 ELSE position

\* The lines of the log before a position.
Passed(n) == Range(SubSeq(latestLog, 1, IF n > Len(latestLog) THEN Len(latestLog) ELSE n))

\* What a position that is taken to be one of this log leaves out: lines that it
\* holds, and lines that are still to be logged.
PassedUnread ==
    Passed(ReadFrom) \cup {x \in Lines : logged < x /\ x - logged + Len(latestLog) <= ReadFrom}

\* Mutant: a viewer subscribes when it was sent the buffered lines.
SubscribedLater(r) == r.on /\ r.recent = << >>

Subscribed(r) == r.on

\* log_callback and _enqueue_latest, which makes room by dropping the oldest line.
Enqueued(r, x) ==
    IF x \in r.sent \/ ~Subscribed(r) THEN r
    ELSE [r EXCEPT !.queue = Append(IF Len(@) = QueueSize THEN Tail(@) ELSE @, x),
                   !.overflown = @ \/ Len(r.queue) = QueueSize]

\* A line is due once, whatever its times.
Called(r, x) ==
    LET known == r.had \cup Range(r.due)
        again == x.line \in LinesIn(known)
    IN  IF x.line \in Noise \/ ~r.on THEN r
        ELSE [Enqueued(r, x) EXCEPT !.due = IF again THEN @ ELSE Append(@, x),
                                    !.restamped = @ \/ (again /\ x \notin known)]

\* The entry of a line that is read at the time at[x].
Stamped(x, at) == [line |-> x, time |-> IF x \in Untimed THEN at[x] ELSE OwnTime]
NewLines == SubSeq(latestLog, ReadFrom + 1, Len(latestLog))

\* One iteration.  A log that was replaced unnoticed is read on from the old
\* position, and a position beyond its end stays.
TailerReads ==
    /\ tailing /\ Visible
    /\ position' = IF ReadFrom > Len(latestLog) THEN ReadFrom ELSE Len(latestLog)
    /\ \E at \in [Untimed -> ReadTimes] :
          LET new == [i \in DOMAIN NewLines |-> Stamped(NewLines[i], at)]
          IN  /\ logBuffer' = LastOf(logBuffer \o new, BufferSize)
              /\ viewer' = [v \in Viewers |-> FoldLeft(Called, viewer[v], new)]
    /\ inode' = "same"
    /\ accounted' = accounted \cup Range(NewLines)
          \cup IF inode \in {"none", "reused"} THEN PassedUnread ELSE {}
    /\ UNCHANGED <<process, away, fileState, tailing>>

\* reset_path_dependent_runtime_state, whenever a profile is activated, the active
\* one too, or given another directory.
RuntimeReset ==
    /\ away' \in BOOLEAN
    /\ logBuffer' = << >>
    /\ position' = 0
    /\ inode' = "none"
    /\ viewer' = [v \in Viewers |-> [viewer[v] EXCEPT !.reread = viewer[v].on]]
    /\ UNCHANGED <<process, fileState, tailing, accounted>>

\* read_latest_log leaves a line without a time without one.
FoundAtStart(s) == [i \in DOMAIN s |-> [line |-> s[i], time |-> OwnTime]]

\* The application ends and starts again: ensure_log_tailer_running.
AppComesBack ==
    /\ viewer' = [v \in Viewers |-> Unconnected]
    /\ inode' = "none"
    /\ tailing' = Visible
    /\ logBuffer' = IF Visible THEN LastOf(FoundAtStart(latestLog), BufferSize) ELSE << >>
    /\ position' = IF Visible THEN Len(latestLog) ELSE 0
    /\ accounted' = IF Visible THEN accounted \cup Range(latestLog) ELSE accounted
    /\ UNCHANGED <<process, away, fileState>>

--------------------------------------------------------------------------------
(* The viewers.                                                            *)

Filtered(s) == FoldLeft(LAMBDA kept, x : IF x.line \in Noise THEN kept ELSE Append(kept, x), << >>, s)

\* get_recent_logs; the raw websocket filters nothing here, but is called back for
\* the filtered lines only, as the other.
RecentLogs(raw) == LastOf(IF raw THEN logBuffer ELSE Filtered(logBuffer), RecentSize)

\* websocket_logs and websocket_raw_logs, up to the first send.
Connect(v) ==
    /\ ~viewer[v].on
    /\ \E raw \in BOOLEAN :
          viewer' = [viewer EXCEPT ![v] =
              [Unconnected EXCEPT !.on = TRUE, !.recent = RecentLogs(raw), !.due = RecentLogs(raw)]]
    /\ UNCHANGED <<process, away, fileState, tailState>>

\* The viewer r is sent x, and then remembers s.
Sent(r, x, s) ==
    [r EXCEPT !.sent = s, !.had = @ \cup {x}, !.forgot = @ \/ s = {},
              !.due = IF @ # << >> /\ Head(@) = x THEN Tail(@) ELSE @]

SendRecent(v) ==
    LET r == viewer[v]
    IN  /\ r.recent # << >>
        /\ viewer' = [viewer EXCEPT ![v] =
               [Sent(r, Head(r.recent), r.sent \cup {Head(r.recent)}) EXCEPT !.recent = Tail(@)]]
        /\ UNCHANGED <<process, away, fileState, tailState>>

\* The next line of the queue, unless it was sent already.
Remembering(s) == IF Cardinality(s) > SentSize THEN {} ELSE s

SendQueued(v) ==
    LET r == viewer[v]
        x == Head(r.queue)
    IN  /\ r.on /\ r.recent = << >> /\ r.queue # << >>
        /\ viewer' = [viewer EXCEPT ![v] =
               [(IF x \in r.sent THEN r ELSE Sent(r, x, Remembering(r.sent \cup {x}))) EXCEPT !.queue = Tail(@)]]
        /\ UNCHANGED <<process, away, fileState, tailState>>

Disconnected(v) ==
    /\ viewer[v].on
    /\ viewer' = [viewer EXCEPT ![v] = Unconnected]
    /\ UNCHANGED <<process, away, fileState, tailState>>

ConsoleNext ==
    \/ ServerLogs \/ JavaStarts \/ ServerExits \/ StartedOutside
    \/ StartsTailing \/ TailerEnds \/ TailerReads \/ RuntimeReset \/ AppComesBack
    \/ \E v \in Viewers : Connect(v) \/ SendRecent(v) \/ SendQueued(v) \/ Disconnected(v)

--------------------------------------------------------------------------------
(* Properties.                                                             *)

\* What will still be sent to a viewer if nothing more is logged.
Pending(r) ==
    FoldLeft(LAMBDA s, x : IF x \in r.sent \cup Range(s) THEN s ELSE Append(s, x), r.recent, r.queue)

\* A viewer is sent the buffered lines and every line that is handed out from then
\* on, each once and in order, also when the lines come while the buffered ones are
\* sent or are read again: unless its queue overflowed, or the log was read again
\* after it had forgotten what it was sent, or with other times for its lines.
EveryLineOnce ==
    \A v \in Viewers :
        LET r == viewer[v]
        IN  r.on /\ ~r.overflown /\ ~(r.reread /\ (r.forgot \/ r.restamped)) => Pending(r) = r.due

\* The tailer passes no line of the log without handing it out, whenever the log
\* was replaced, except for what was there before a start, and the beginning of
\* a log that was replaced before the first look or got the old one's number.
NoLineSkipped ==
    inode = "same" => Passed(position) \subseteq accounted
================================================================================
