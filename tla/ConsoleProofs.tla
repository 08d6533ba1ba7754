------------------------------ MODULE ConsoleProofs ------------------------------
(***************************************************************************)
(* Proofs about the console: its tailer passes no line over, and a viewer  *)
(* is sent every line that is due to it once and in the log's order, for   *)
(* any number of lines and viewers and any sizes of the buffer and of the  *)
(* queues.                                                                 *)
(***************************************************************************)
EXTENDS Console, DashboardProofs

\* The lines of a log up to a position, one by one.
Upto(s, n) == IF n > Len(s) THEN Len(s) ELSE n

\* All of its lines.
LEMMA LinesAll ==
    ASSUME NEW S, NEW s \in Seq(S)
    PROVE  Range(s) = {s[i] : i \in 1..Len(s)}
  <1>1. DOMAIN s = 1..Len(s)
    OBVIOUS
  <1>2. Range(s) = {s[i] : i \in DOMAIN s}
    BY DEF Range
  <1> QED
    BY <1>1, <1>2

LEMMA LinesUpto ==
    ASSUME NEW s \in Seq(Lines), NEW n \in Nat
    PROVE  Range(SubSeq(s, 1, Upto(s, n))) = {s[i] : i \in 1..Upto(s, n)}
  <1> DEFINE k == Upto(s, n)
             passed == SubSeq(s, 1, k)
  <1>1. k \in Nat /\ k <= Len(s)
    BY DEF Upto
  <1> HIDE DEF k
  <1>2. DOMAIN passed = 1..k /\ \A i \in 1..k : passed[i] = s[i]
    BY <1>1
  <1> HIDE DEF passed
  <1>3. Range(passed) = {passed[i] : i \in DOMAIN passed}
    BY DEF Range
  <1>4. Range(passed) = {s[i] : i \in 1..k}
    BY <1>2, <1>3
  <1> QED
    BY <1>4 DEF passed, k

LEMMA PassedLines ==
    ASSUME NEW n \in Nat, latestLog \in Seq(Lines)
    PROVE  Passed(n) = {latestLog[i] : i \in 1..Upto(latestLog, n)}
  BY LinesUpto DEF Passed, Upto

--------------------------------------------------------------------------------
(* The console's tailer.                                                   *)

\* Lines still to be logged that a position beyond the log's end leaves out.
Ahead(n) == {x \in Lines : logged < x /\ x - logged + Len(latestLog) <= n}

\* What a log that is followed was passed by is accounted for.
Followed == inode = "same" => Passed(position) \cup Ahead(position) \subseteq accounted

ConsoleInv ==
    /\ latestLog \in Seq(Lines)
    /\ logged \in 0..MaxLogged
    /\ position \in Nat
    /\ inode \in {"none", "same", "other", "reused"}
    /\ Followed

\* What is read and what was passed before make up the log.
LEMMA ReadRest ==
    ASSUME NEW n \in Nat, latestLog \in Seq(Lines), n <= Len(latestLog)
    PROVE  Range(latestLog) \subseteq Passed(n) \cup Range(SubSeq(latestLog, n + 1, Len(latestLog)))
  <1> DEFINE new == SubSeq(latestLog, n + 1, Len(latestLog))
  <1>1. Len(latestLog) \in Nat
    OBVIOUS
  <1>2. DOMAIN new = 1..(Len(latestLog) - n) /\ \A i \in 1..(Len(latestLog) - n) : new[i] = latestLog[n + i]
    BY <1>1
  <1> HIDE DEF new
  <1>3. Range(latestLog) = {latestLog[i] : i \in 1..Len(latestLog)}
    BY LinesAll
  <1>4. \A i \in DOMAIN new : new[i] \in Range(new)
    BY Zenon DEF Range
  <1>5. Passed(n) = {latestLog[i] : i \in 1..n}
    BY <1>1, PassedLines DEF Upto
  <1>6. ASSUME NEW i \in 1..Len(latestLog) PROVE latestLog[i] \in Passed(n) \cup Range(new)
    <2>1. CASE i <= n
      BY <1>5, <2>1
    <2>2. CASE i > n
      <3>1. i - n \in 1..(Len(latestLog) - n) /\ n + (i - n) = i
        BY <1>1, <2>2
      <3>2. new[i - n] = latestLog[i]
        BY <1>2, <3>1
      <3> QED
        BY <1>2, <1>4, <3>1, <3>2
    <2> QED
      BY <2>1, <2>2
  <1> QED
    BY <1>3, <1>6 DEF new

\* A line is added to the log that is followed.
LEMMA LineAdded ==
    ASSUME ConsoleInv, logged < MaxLogged, logged' = NextLine, latestLog' = Append(latestLog, NextLine),
           UNCHANGED <<position, accounted>>, UNCHANGED inode
    PROVE  ConsoleInv'
  <1>1. NextLine \in Lines /\ logged' \in 0..MaxLogged /\ logged \in Nat /\ MaxLogged \in Nat
    BY ConsoleAssumption DEF ConsoleInv, NextLine, Lines
  <1>2. /\ latestLog' \in Seq(Lines) /\ Len(latestLog') = Len(latestLog) + 1 /\ Len(latestLog) \in Nat
        /\ \A i \in 1..Len(latestLog) : latestLog'[i] = latestLog[i]
        /\ latestLog'[Len(latestLog) + 1] = NextLine
    BY <1>1 DEF ConsoleInv
  <1>3. ASSUME inode = "same", NEW x \in Passed(position)' PROVE x \in accounted
    <2>1. Passed(position) = {latestLog[i] : i \in 1..Upto(latestLog, position)}
      BY PassedLines DEF ConsoleInv
    <2>2. Passed(position)' = {latestLog'[i] : i \in 1..Upto(latestLog', position')}
      <3>1. position' \in Nat
        BY DEF ConsoleInv
      <3>2. Range(SubSeq(latestLog', 1, Upto(latestLog', position')))
              = {latestLog'[i] : i \in 1..Upto(latestLog', position')}
        BY <1>2, <3>1, LinesUpto
      <3> QED
        BY <3>2 DEF Passed, Upto
    <2>3. position \in Nat /\ position' = position
      BY DEF ConsoleInv
    <2>4. PICK i \in 1..Upto(latestLog', position) : x = latestLog'[i]
      BY <1>3, <2>2, <2>3
    <2>5. CASE i <= Len(latestLog)
      <3>1. x \in Passed(position)
        BY <1>2, <2>1, <2>3, <2>4, <2>5 DEF Upto
      <3> QED
        BY <1>3, <3>1 DEF ConsoleInv, Followed
    <2>6. CASE i = Len(latestLog) + 1
      <3>1. x = NextLine /\ Len(latestLog) + 1 <= position
        BY <1>2, <2>3, <2>4, <2>6 DEF Upto
      <3>2. x \in Ahead(position)
        BY <1>1, <1>2, <3>1 DEF Ahead, NextLine, Lines
      <3> QED
        BY <1>3, <3>2 DEF ConsoleInv, Followed
    <2> QED
      BY <1>2, <2>3, <2>4, <2>5, <2>6 DEF Upto
  <1>4. ASSUME inode = "same", NEW x \in Ahead(position)' PROVE x \in accounted
    <2>1. x \in Ahead(position)
      BY <1>1, <1>2, <1>4 DEF Ahead, NextLine, Lines
    <2> QED
      BY <1>4, <2>1 DEF ConsoleInv, Followed
  <1>5. Followed'
    BY <1>3, <1>4 DEF Followed
  <1> QED
    BY <1>1, <1>2, <1>5 DEF ConsoleInv

\* The log is replaced, so that it is no longer the one that was read last.
LEMMA LogReplacedKeeps ==
    ASSUME ConsoleInv, logged' \in 0..MaxLogged, NEW file \in Seq(Lines), Replaces(file), UNCHANGED position
    PROVE  ConsoleInv'
  BY DEF ConsoleInv, Followed, Replaces

\* The log is not looked at, or only by a reader who forgot which one he read.
LEMMA Unfollowed ==
    ASSUME ConsoleInv, UNCHANGED fileState, position' \in Nat, inode' = "none"
    PROVE  ConsoleInv'
  BY DEF ConsoleInv, Followed, fileState

LEMMA ConsoleQuiet ==
    ASSUME ConsoleInv, UNCHANGED <<fileState, position, inode, accounted>>
    PROVE  ConsoleInv'
  BY DEF ConsoleInv, Followed, fileState, Passed, Ahead

\* The whole log is accounted for, and the next line to be read is the next to be
\* logged.
LEMMA AtTheEnd ==
    ASSUME ConsoleInv, UNCHANGED fileState, position' = Len(latestLog), Range(latestLog) \subseteq accounted',
           inode' \in {"none", "same"}
    PROVE  ConsoleInv'
  <1>1. position' \in Nat /\ latestLog' = latestLog /\ logged' = logged /\ Len(latestLog) \in Nat
    BY DEF ConsoleInv, fileState
  <1>2. Passed(position)' \subseteq accounted'
    <2>1. Passed(position)' = Passed(Len(latestLog))
      BY <1>1 DEF Passed
    <2>2. Passed(Len(latestLog)) = Range(latestLog)
      BY <1>1, PassedLines, LinesAll DEF ConsoleInv, Upto
    <2> QED
      BY <2>1, <2>2
  <1>3. Ahead(position)' = {}
    BY <1>1 DEF Ahead, Lines, ConsoleInv
  <1> QED
    BY <1>1, <1>2, <1>3 DEF ConsoleInv, Followed

\* The tailer reads: a position within the log is one whose beginning is accounted
\* for, and one beyond its end leaves out what the reader cannot know of.
LEMMA TailerReadsKeeps ==
    ASSUME ConsoleInv, TailerReads
    PROVE  ConsoleInv'
  <1> DEFINE new == SubSeq(latestLog, ReadFrom + 1, Len(latestLog))
             unread == IF inode \in {"none", "reused"} THEN PassedUnread ELSE {}
  <1>1. /\ UNCHANGED fileState /\ inode' = "same"
        /\ position' = IF ReadFrom > Len(latestLog) THEN ReadFrom ELSE Len(latestLog)
        /\ accounted' = accounted \cup Range(new) \cup unread
    BY DEF TailerReads, NewLines
  <1>2. /\ latestLog \in Seq(Lines) /\ Len(latestLog) \in Nat /\ position \in Nat
        /\ inode \in {"none", "same", "other", "reused"}
    BY DEF ConsoleInv
  <1>3. ReadFrom \in Nat
    BY <1>2 DEF ReadFrom
  <1>4. ASSUME ReadFrom <= Len(latestLog), Passed(ReadFrom) \subseteq accounted' PROVE ConsoleInv'
    <2>1. Range(latestLog) \subseteq Passed(ReadFrom) \cup Range(new)
      BY <1>2, <1>3, <1>4, ReadRest
    <2>2. Range(latestLog) \subseteq accounted'
      BY <1>1, <1>4, <2>1
    <2>3. position' = Len(latestLog)
      BY <1>1, <1>2, <1>3, <1>4
    <2> QED
      BY <1>1, <2>2, <2>3, AtTheEnd
  <1>5. CASE LogReplaced
    <2>1. ReadFrom = 0 /\ 0 <= Len(latestLog)
      BY <1>2, <1>5 DEF ReadFrom
    <2>2. Passed(0) = {latestLog[i] : i \in 1..Upto(latestLog, 0)}
      BY <1>2, PassedLines
    <2>3. Passed(ReadFrom) = {}
      BY <1>2, <2>1, <2>2 DEF Upto
    <2> QED
      BY <1>4, <2>1, <2>3
  <1>6. CASE ~LogReplaced /\ inode = "same"
    <2>1. ReadFrom = position /\ position <= Len(latestLog)
      BY <1>2, <1>6 DEF LogReplaced, ReadFrom
    <2>2. Passed(ReadFrom) \subseteq accounted
      BY <1>6, <2>1 DEF ConsoleInv, Followed
    <2> QED
      BY <1>1, <1>4, <2>1, <2>2
  <1>7. CASE ~LogReplaced /\ inode \in {"none", "reused"}
    <2>1. ReadFrom = position
      BY <1>7 DEF ReadFrom
    <2>2. Passed(position) \cup Ahead(position) \subseteq accounted'
      BY <1>1, <1>7, <2>1 DEF PassedUnread, Ahead
    <2>3. CASE position <= Len(latestLog)
      BY <1>4, <2>1, <2>2, <2>3
    <2>4. CASE position > Len(latestLog)
      <3>1. position' = position
        BY <1>1, <2>1, <2>4
      <3>2. latestLog' = latestLog /\ logged' = logged
        BY <1>1 DEF fileState
      <3>3. Passed(position)' = Passed(position) /\ Ahead(position)' = Ahead(position)
        BY <3>1, <3>2 DEF Passed, Ahead
      <3> QED
        BY <1>1, <2>2, <3>1, <3>2, <3>3 DEF ConsoleInv, Followed
    <2> QED
      BY <1>2, <2>3, <2>4
  <1> QED
    BY <1>2, <1>5, <1>6, <1>7 DEF LogReplaced

LEMMA ConsoleStep ==
    ASSUME ConsoleInv, [ConsoleNext]_consoleVars
    PROVE  ConsoleInv'
  <1>1. CASE ServerLogs
    <2>1. CASE latestLog' = Append(latestLog, NextLine) /\ UNCHANGED inode
      BY <1>1, <2>1, LineAdded DEF ServerLogs
    <2>2. CASE Replaces(<<NextLine>>)
      <3>1. NextLine \in Lines /\ logged' \in 0..MaxLogged
        BY <1>1, ConsoleAssumption DEF ServerLogs, NextLine, Lines, ConsoleInv
      <3>2. <<NextLine>> \in Seq(Lines)
        BY <3>1
      <3> QED
        BY <1>1, <2>2, <3>1, <3>2, LogReplacedKeeps DEF ServerLogs
    <2> QED
      BY <1>1, <2>1, <2>2 DEF ServerLogs
  <1>2. CASE JavaStarts
    <2>1. logged' \in 0..MaxLogged /\ << >> \in Seq(Lines)
      BY <1>2 DEF JavaStarts, ConsoleInv
    <2> QED
      BY <1>2, <2>1, LogReplacedKeeps DEF JavaStarts
  <1>3. CASE StartsTailing
    BY <1>3, AtTheEnd DEF StartsTailing
  <1>4. CASE TailerReads
    BY <1>4, TailerReadsKeeps
  <1>5. CASE RuntimeReset
    BY <1>5, Unfollowed DEF RuntimeReset
  <1>6. CASE AppComesBack
    <2>1. position' \in Nat
      BY <1>6 DEF AppComesBack, ConsoleInv
    <2> QED
      BY <1>6, <2>1, Unfollowed DEF AppComesBack
  <1>7. CASE ServerExits \/ StartedOutside \/ TailerEnds \/ UNCHANGED consoleVars
    BY <1>7, ConsoleQuiet DEF ServerExits, StartedOutside, TailerEnds, consoleVars, fileState, tailState
  <1>8. ASSUME NEW v \in Viewers, Connect(v) \/ SendRecent(v) \/ SendQueued(v) \/ Disconnected(v)
        PROVE  ConsoleInv'
    <2>1. UNCHANGED <<fileState, tailState>>
      <3>1. CASE Connect(v)
        BY <3>1 DEF Connect
      <3>2. CASE SendRecent(v)
        BY <3>2 DEF SendRecent
      <3>3. CASE SendQueued(v)
        BY <3>3 DEF SendQueued
      <3>4. CASE Disconnected(v)
        BY <3>4 DEF Disconnected
      <3> QED
        BY <1>8, <3>1, <3>2, <3>3, <3>4
    <2> QED
      BY <2>1, ConsoleQuiet DEF tailState
  <1> QED
    BY <1>1, <1>2, <1>3, <1>4, <1>5, <1>6, <1>7, <1>8 DEF ConsoleNext

LEMMA ConsoleStart == ConsoleInit => ConsoleInv
  BY ConsoleAssumption DEF ConsoleInit, ConsoleInv, Followed

--------------------------------------------------------------------------------
(* What is still to be sent to a viewer.                                   *)

\* What a viewer that was sent some lines will be sent of a queue, after s.
WithLine(sent, s, x) == IF x \in sent \cup Range(s) THEN s ELSE Append(s, x)

MergedQueue(sent, base, queue) ==
    FoldLeft(LAMBDA s, x : IF x \in sent \cup Range(s) THEN s ELSE Append(s, x), base, queue)

LEMMA PendingMerged == \A r : Pending(r) = MergedQueue(r.sent, r.recent, r.queue)
  BY Zenon DEF Pending, MergedQueue

LEMMA AddedLine ==
    ASSUME NEW sent, NEW s \in Seq(Entry), NEW x \in Entry
    PROVE  WithLine(sent, s, x) \in Seq(Entry)
  BY DEF WithLine

\* The merge, line by line.
Merges(t, sent, queue, n) == t \in [0..n -> Seq(Entry)] /\ \A k \in 1..n : t[k] = WithLine(sent, t[k - 1], queue[k])

MergedThrough(sent, base, queue, n) ==
    \E t : Merges(t, sent, queue, n) /\ t[0] = base /\ MergedQueue(sent, base, queue) = t[n]

LEMMA MergeSteps ==
    ASSUME NEW sent, NEW base \in Seq(Entry), NEW queue \in Seq(Entry)
    PROVE  MergedThrough(sent, base, queue, Len(queue))
  <1> DEFINE n == Len(queue)
             F == [p \in Seq(Entry) \X (1..n) |-> WithLine(sent, p[1], queue[p[2]])]
             Equation(it) == it = [s \in SUBSET (DOMAIN queue) |->
                                     IF s = {} THEN base ELSE WithLine(sent, it[s \ {Max(s)}], queue[Max(s)])]
             chosen == CHOOSE it : Equation(it)
  <1>n. n \in Nat /\ DOMAIN queue = 1..n /\ \A i \in 1..n : queue[i] \in Entry
    OBVIOUS
  <1>1. F \in [Seq(Entry) \X (1..n) -> Seq(Entry)]
    BY <1>n, AddedLine
  <1>2. PICK it \in [SUBSET (1..n) -> Seq(Entry)] : Iterates(it, n, base, F)
    <2> HIDE DEF F, n
    <2> QED
      BY <1>n, <1>1, IterationExists DEF Iterable
  <1>3. Equation(it)
    <2>1. \A s \in SUBSET (1..n) : s # {} => Max(s) \in 1..n /\ it[s \ {Max(s)}] \in Seq(Entry)
      <3> HIDE DEF n
      <3> QED
        BY <1>n, Largest
    <2>2. \A s \in SUBSET (1..n) :
             s # {} => F[<<it[s \ {Max(s)}], Max(s)>>] = WithLine(sent, it[s \ {Max(s)}], queue[Max(s)])
      BY <2>1
    <2> HIDE DEF F, n
    <2> QED
      BY <1>n, <1>2, <2>2 DEF Iterates
  <1>4. Equation(chosen)
    BY <1>3, Zenon
  <1>5. MergedQueue(sent, base, queue) = chosen[DOMAIN queue]
    BY Zenon DEF MergedQueue, WithLine, FoldLeft, MapThenFoldSet
  <1> HIDE DEF chosen, n
  <1>6. /\ chosen[1..0] = base
        /\ \A k \in 1..n : chosen[1..k] = WithLine(sent, chosen[1..(k - 1)], queue[k])
    <2>1. \A s \in SUBSET (1..n) :
             chosen[s] = IF s = {} THEN base ELSE WithLine(sent, chosen[s \ {Max(s)}], queue[Max(s)])
      BY <1>n, <1>4
    <2>2. chosen[1..0] = base
      <3>1. 1..0 = {} /\ {} \in SUBSET (1..n)
        OBVIOUS
      <3> QED
        BY <2>1, <3>1
    <2>3. ASSUME NEW k \in 1..n PROVE chosen[1..k] = WithLine(sent, chosen[1..(k - 1)], queue[k])
      <3>1. 1..k \in SUBSET (1..n) /\ 1..k # {} /\ Max(1..k) = k /\ (1..k) \ {k} = 1..(k - 1)
        BY <1>n, Prefix
      <3> QED
        BY <2>1, <3>1
    <2> QED
      BY <2>2, <2>3
  <1>7. \A k \in Nat : k <= n => chosen[1..k] \in Seq(Entry)
    <2> DEFINE S == {j \in Nat : j <= n => chosen[1..j] \in Seq(Entry)}
    <2>1. 0 \in S
      BY <1>6
    <2>2. ASSUME NEW k \in Nat, k \in S PROVE k + 1 \in S
      <3> SUFFICES ASSUME k + 1 <= n PROVE chosen[1..(k + 1)] \in Seq(Entry)
        OBVIOUS
      <3>1. k + 1 \in 1..n /\ k + 1 - 1 = k /\ chosen[1..k] \in Seq(Entry)
        BY <1>n, <2>2
      <3>2. chosen[1..(k + 1)] = WithLine(sent, chosen[1..k], queue[k + 1])
        BY <1>6, <3>1
      <3> QED
        BY <1>n, <3>1, <3>2, AddedLine
    <2> HIDE DEF S
    <2>3. \A k \in Nat : k \in S
      BY <2>1, <2>2, Induction
    <2> QED
      BY <2>3 DEF S
  <1> DEFINE t == [k \in 0..n |-> chosen[1..k]]
  <1>8. t \in [0..n -> Seq(Entry)]
    BY <1>n, <1>7
  <1>9. t[0] = base /\ \A k \in 1..n : t[k] = WithLine(sent, t[k - 1], queue[k])
    BY <1>n, <1>6
  <1>10. MergedQueue(sent, base, queue) = t[n]
    BY <1>n, <1>5
  <1> HIDE DEF t
  <1> QED
    BY <1>8, <1>9, <1>10 DEF MergedThrough, Merges, n

LEMMA MergedLines ==
    ASSUME NEW sent, NEW base \in Seq(Entry), NEW queue \in Seq(Entry)
    PROVE  MergedQueue(sent, base, queue) \in Seq(Entry)
  <1>1. PICK t : Merges(t, sent, queue, Len(queue)) /\ MergedQueue(sent, base, queue) = t[Len(queue)]
    BY MergeSteps DEF MergedThrough
  <1>2. Len(queue) \in 0..Len(queue)
    OBVIOUS
  <1> QED
    BY <1>1, <1>2 DEF Merges

\* There is one way to merge.
LEMMA MergeValue ==
    ASSUME NEW sent, NEW queue \in Seq(Entry), NEW t, Merges(t, sent, queue, Len(queue))
    PROVE  MergedQueue(sent, t[0], queue) = t[Len(queue)]
  <1> DEFINE n == Len(queue)
  <1>1. n \in Nat /\ t[0] \in Seq(Entry)
    BY DEF Merges
  <1>2. PICK u : Merges(u, sent, queue, n) /\ u[0] = t[0] /\ MergedQueue(sent, t[0], queue) = u[n]
    BY <1>1, MergeSteps DEF MergedThrough
  <1> DEFINE S == {k \in Nat : k <= n => u[k] = t[k]}
  <1>3. 0 \in S
    BY <1>2
  <1>4. ASSUME NEW k \in Nat, k \in S PROVE k + 1 \in S
    <2> SUFFICES ASSUME k + 1 <= n PROVE u[k + 1] = t[k + 1]
      OBVIOUS
    <2> HIDE DEF n
    <2>1. k + 1 \in 1..n /\ k + 1 - 1 = k /\ u[k] = t[k]
      BY <1>1, <1>4
    <2>2. u[k + 1] = WithLine(sent, u[k], queue[k + 1]) /\ t[k + 1] = WithLine(sent, t[k], queue[k + 1])
      BY <1>2, <2>1 DEF Merges, n
    <2> QED
      BY <2>1, <2>2
  <1>5. n \in S
    <2> HIDE DEF S, n
    <2> QED
      BY <1>1, <1>3, <1>4, Induction
  <1> QED
    BY <1>1, <1>2, <1>5

\* Nothing is queued.
LEMMA MergeNothing ==
    ASSUME NEW sent, NEW base \in Seq(Entry)
    PROVE  MergedQueue(sent, base, << >>) = base
  <1> DEFINE t == [k \in 0..0 |-> base]
  <1>1. << >> \in Seq(Entry) /\ Len(<< >>) = 0
    OBVIOUS
  <1>2. Merges(t, sent, << >>, 0) /\ t[0] = base
    BY DEF Merges
  <1> HIDE DEF t
  <1>3. MergedQueue(sent, t[0], << >>) = t[0]
    <2>1. Merges(t, sent, << >>, Len(<< >>))
      BY <1>1, <1>2
    <2> QED
      BY <1>1, <2>1, MergeValue
  <1> QED
    BY <1>2, <1>3

\* One more line is queued.
LEMMA MergeOneMore ==
    ASSUME NEW sent, NEW base \in Seq(Entry), NEW queue \in Seq(Entry), NEW x \in Entry
    PROVE  MergedQueue(sent, base, Append(queue, x)) = WithLine(sent, MergedQueue(sent, base, queue), x)
  <1> DEFINE n == Len(queue)
             longer == Append(queue, x)
  <1>1. /\ n \in Nat /\ longer \in Seq(Entry) /\ Len(longer) = n + 1
        /\ longer[n + 1] = x /\ \A i \in 1..n : longer[i] = queue[i]
    OBVIOUS
  <1>2. PICK t : Merges(t, sent, queue, n) /\ t[0] = base /\ MergedQueue(sent, base, queue) = t[n]
    BY MergeSteps DEF MergedThrough
  <1>3. t \in [0..n -> Seq(Entry)] /\ t[n] \in Seq(Entry)
    BY <1>1, <1>2 DEF Merges
  <1> HIDE DEF n, longer
  <1> DEFINE u == [k \in 0..(n + 1) |-> IF k = n + 1 THEN WithLine(sent, t[n], x) ELSE t[k]]
  <1>4. u \in [0..(n + 1) -> Seq(Entry)] /\ u[0] = base /\ u[n + 1] = WithLine(sent, t[n], x)
    <2>1. \A k \in 0..(n + 1) : k # n + 1 => k \in 0..n
      BY <1>1
    <2> QED
      BY <1>1, <1>2, <1>3, <2>1, AddedLine
  <1>5. ASSUME NEW k \in 1..(n + 1) PROVE u[k] = WithLine(sent, u[k - 1], longer[k])
    <2>1. CASE k = n + 1
      BY <1>1, <2>1
    <2>2. CASE k # n + 1
      <3>1. k \in 1..n /\ k - 1 \in 0..n
        BY <1>1, <2>2
      <3>2. t[k] = WithLine(sent, t[k - 1], queue[k])
        BY <1>2, <3>1 DEF Merges
      <3>3. u[k] = t[k] /\ u[k - 1] = t[k - 1] /\ longer[k] = queue[k]
        BY <1>1, <3>1
      <3> QED
        BY <3>2, <3>3
    <2> QED
      BY <2>1, <2>2
  <1> HIDE DEF u
  <1>6. Merges(u, sent, longer, Len(longer))
    BY <1>1, <1>4, <1>5 DEF Merges
  <1>7. MergedQueue(sent, u[0], longer) = u[Len(longer)]
    BY <1>1, <1>6, MergeValue
  <1> QED
    BY <1>1, <1>2, <1>3, <1>4, <1>7 DEF longer

\* The first queued line is merged first.
LEMMA MergeFirst ==
    ASSUME NEW sent, NEW base \in Seq(Entry), NEW queue \in Seq(Entry), queue # << >>
    PROVE  MergedQueue(sent, base, queue) = MergedQueue(sent, WithLine(sent, base, Head(queue)), Tail(queue))
  <1> DEFINE n == Len(Tail(queue))
             rest == Tail(queue)
             x == Head(queue)
  <1>1. /\ n \in Nat /\ rest \in Seq(Entry) /\ Len(queue) = n + 1 /\ x \in Entry
        /\ x = queue[1] /\ \A i \in 1..n : rest[i] = queue[i + 1]
    OBVIOUS
  <1>0. n = Len(rest)
    OBVIOUS
  <1> HIDE DEF n, rest, x
  <1> DEFINE b == WithLine(sent, base, x)
  <1>2. b \in Seq(Entry)
    BY <1>1, AddedLine
  <1> HIDE DEF b
  <1>m. PICK t : Merges(t, sent, rest, n) /\ t[0] = b /\ MergedQueue(sent, b, rest) = t[n]
    BY <1>0, <1>1, <1>2, MergeSteps DEF MergedThrough
  <1>3. /\ Merges(t, sent, rest, n) /\ t[0] = WithLine(sent, base, x)
        /\ MergedQueue(sent, WithLine(sent, base, x), rest) = t[n]
    BY <1>m DEF b
  <1>4. t \in [0..n -> Seq(Entry)]
    BY <1>3 DEF Merges
  <1> DEFINE u == [k \in 0..(n + 1) |-> IF k = 0 THEN base ELSE t[k - 1]]
  <1>5. u \in [0..(n + 1) -> Seq(Entry)] /\ u[0] = base /\ u[n + 1] = t[n]
    BY <1>1, <1>4
  <1>6. ASSUME NEW k \in 1..(n + 1) PROVE u[k] = WithLine(sent, u[k - 1], queue[k])
    <2>1. CASE k = 1
      <3>1. u[1] = t[0] /\ u[0] = base
        BY <1>1
      <3> QED
        BY <1>1, <1>3, <2>1, <3>1
    <2>2. CASE k # 1
      <3>1. k - 1 \in 1..n /\ k - 1 + 1 = k
        BY <1>1, <2>2
      <3>2. t[k - 1] = WithLine(sent, t[k - 1 - 1], rest[k - 1])
        BY <1>3, <3>1 DEF Merges
      <3>3. u[k] = t[k - 1] /\ u[k - 1] = t[k - 1 - 1] /\ rest[k - 1] = queue[k]
        BY <1>1, <3>1
      <3> QED
        BY <3>2, <3>3
    <2> QED
      BY <2>1, <2>2
  <1> HIDE DEF u
  <1>7. Merges(u, sent, queue, Len(queue))
    BY <1>1, <1>5, <1>6 DEF Merges
  <1>8. MergedQueue(sent, u[0], queue) = u[Len(queue)]
    BY <1>7, MergeValue
  <1> QED
    BY <1>1, <1>3, <1>5, <1>8 DEF rest, x

\* What is sent first is left out of the rest.
LEMMA AddedAfter ==
    ASSUME NEW sent, NEW h \in Entry, NEW s \in Seq(Entry), NEW x \in Entry
    PROVE  WithLine(sent, <<h>> \o s, x) = <<h>> \o WithLine(sent \cup {h}, s, x)
  <1> DEFINE hs == <<h>> \o s
  <1>1. <<h>> \in Seq(Entry) /\ hs \in Seq(Entry) /\ Append(hs, x) = <<h>> \o Append(s, x)
    OBVIOUS
  <1>2. Range(hs) = {h} \cup Range(s)
    <2>1. Range(hs) = {hs[i] : i \in 1..Len(hs)} /\ Range(s) = {s[i] : i \in 1..Len(s)}
      BY <1>1, LinesAll
    <2>2. Len(hs) = Len(s) + 1 /\ hs[1] = h /\ \A i \in 1..Len(s) : hs[i + 1] = s[i]
      OBVIOUS
    <2>3. \A i \in 1..Len(hs) : i = 1 \/ (i - 1 \in 1..Len(s) /\ i - 1 + 1 = i)
      BY <2>2
    <2>4. \A i \in 1..Len(s) : i + 1 \in 1..Len(hs)
      BY <2>2
    <2> HIDE DEF hs
    <2>5. 1 \in 1..Len(hs)
      BY <2>2
    <2>6. ASSUME NEW i \in 1..Len(hs) PROVE hs[i] \in {h} \cup Range(s)
      <3>1. CASE i = 1
        BY <2>2, <3>1
      <3>2. CASE i # 1
        <4>1. i - 1 \in 1..Len(s) /\ i - 1 + 1 = i
          BY <2>3, <3>2
        <4>2. hs[i] = s[i - 1]
          BY <2>2, <4>1
        <4> QED
          BY <2>1, <4>1, <4>2
      <3> QED
        BY <3>1, <3>2
    <2>7. h \in Range(hs)
      BY <2>1, <2>2, <2>5
    <2>8. ASSUME NEW i \in 1..Len(s) PROVE s[i] \in Range(hs)
      BY <2>1, <2>2, <2>4
    <2> QED
      BY <2>1, <2>6, <2>7, <2>8
  <1> HIDE DEF hs
  <1>3. x \in sent \cup Range(hs) <=> x \in (sent \cup {h}) \cup Range(s)
    BY <1>2
  <1> QED
    BY <1>1, <1>3 DEF WithLine, hs

LEMMA MergeHead ==
    ASSUME NEW sent, NEW h \in Entry, NEW s \in Seq(Entry), NEW queue \in Seq(Entry)
    PROVE  MergedQueue(sent, <<h>> \o s, queue) = <<h>> \o MergedQueue(sent \cup {h}, s, queue)
  <1> DEFINE n == Len(queue)
             later == sent \cup {h}
  <1>1. n \in Nat /\ \A k \in 1..n : queue[k] \in Entry
    OBVIOUS
  <1>2. PICK t : Merges(t, later, queue, n) /\ t[0] = s /\ MergedQueue(later, s, queue) = t[n]
    BY MergeSteps DEF MergedThrough
  <1>3. t \in [0..n -> Seq(Entry)] /\ t[n] \in Seq(Entry)
    BY <1>1, <1>2 DEF Merges
  <1> HIDE DEF n
  <1> DEFINE u == [k \in 0..n |-> <<h>> \o t[k]]
  <1>4. u \in [0..n -> Seq(Entry)] /\ u[0] = <<h>> \o s /\ u[n] = <<h>> \o t[n]
    BY <1>1, <1>2, <1>3
  <1>5. ASSUME NEW k \in 1..n PROVE u[k] = WithLine(sent, u[k - 1], queue[k])
    <2>1. k \in 0..n /\ k - 1 \in 0..n /\ t[k - 1] \in Seq(Entry) /\ queue[k] \in Entry
      BY <1>1, <1>3
    <2>2. t[k] = WithLine(later, t[k - 1], queue[k])
      BY <1>2 DEF Merges
    <2>3. \A y \in Seq(Entry), x \in Entry : WithLine(sent, <<h>> \o y, x) = <<h>> \o WithLine(later, y, x)
      BY AddedAfter
    <2> QED
      BY <2>1, <2>2, <2>3
  <1> HIDE DEF u
  <1>6. Merges(u, sent, queue, Len(queue))
    BY <1>4, <1>5 DEF Merges, n
  <1>7. MergedQueue(sent, u[0], queue) = u[Len(queue)]
    BY <1>6, MergeValue
  <1> QED
    BY <1>2, <1>3, <1>4, <1>7 DEF n

\* Lines that were logged one after the other.
Increasing(s) == \A i, j \in 1..Len(s) : i < j => s[i].line < s[j].line

LEMMA LineNumbers ==
    /\ MaxLogged \in Nat /\ Lines \subseteq Nat /\ \A x \in Entry : x.line \in Lines /\ x.line \in Nat
    /\ \A s \in Seq(Entry) : \A i \in 1..Len(s) : s[i] \in Entry
  <1>1. MaxLogged \in Nat /\ Lines \subseteq Nat
    BY ConsoleAssumption DEF Lines
  <1>2. \A x \in Entry : x.line \in Lines
    BY DEF Entry
  <1>3. ASSUME NEW s \in Seq(Entry), NEW i \in 1..Len(s) PROVE s[i] \in Entry
    OBVIOUS
  <1>4. \A x \in Entry : x.line \in Nat
    BY <1>1, <1>2
  <1> QED
    BY <1>1, <1>2, <1>3, <1>4

LEMMA OtherLine ==
    ASSUME NEW x \in Entry, NEW y \in Entry, x.line < y.line
    PROVE  x # y
  <1>1. x.line \in Nat /\ y.line \in Nat
    BY LineNumbers
  <1>2. x.line # y.line
    BY <1>1
  <1> QED
    BY <1>2, Zenon

LEMMA ShownEntries == Shown \subseteq Entry /\ \A x \in Entry : x.line \notin Noise <=> x \in Shown
  BY DEF Shown

\* A queue of lines that are all new is sent as it is.
LEMMA MergeFresh ==
    ASSUME NEW sent, NEW base \in Seq(Entry), NEW queue \in Seq(Entry), Increasing(queue),
           \A i \in 1..Len(base), j \in 1..Len(queue) : base[i].line < queue[j].line,
           \A j \in 1..Len(queue) : queue[j] \notin sent
    PROVE  MergedQueue(sent, base, queue) = base \o queue
  <1> DEFINE n == Len(queue)
             m == Len(base)
             u == [k \in 0..n |-> base \o SubSeq(queue, 1, k)]
  <1>1. n \in Nat /\ m \in Nat /\ \A k \in 1..n : queue[k] \in Entry
    OBVIOUS
  <1>2. \A k \in 0..n : /\ SubSeq(queue, 1, k) \in Seq(Entry) /\ Len(SubSeq(queue, 1, k)) = k
                        /\ \A i \in 1..k : SubSeq(queue, 1, k)[i] = queue[i]
    BY <1>1
  <1>3. \A k \in 0..n : /\ u[k] \in Seq(Entry) /\ Len(u[k]) = m + k
                        /\ \A i \in 1..m : u[k][i] = base[i]
                        /\ \A i \in 1..k : u[k][m + i] = queue[i]
    <2> SUFFICES ASSUME NEW k \in 0..n
                 PROVE  /\ u[k] \in Seq(Entry) /\ Len(u[k]) = m + k
                        /\ \A i \in 1..m : u[k][i] = base[i]
                        /\ \A i \in 1..k : u[k][m + i] = queue[i]
      OBVIOUS
    <2> DEFINE part == SubSeq(queue, 1, k)
    <2>1. part \in Seq(Entry) /\ Len(part) = k /\ \A i \in 1..k : part[i] = queue[i]
      BY <1>2
    <2>2. u[k] = base \o part
      OBVIOUS
    <2> HIDE DEF part, u
    <2>3. base \o part \in Seq(Entry) /\ Len(base \o part) = m + k
      BY <1>1, <2>1
    <2>4. \A i \in 1..m : (base \o part)[i] = base[i]
      BY <1>1, <2>1
    <2>5. ASSUME NEW i \in 1..k PROVE (base \o part)[m + i] = queue[i]
      <3>1. m + i \in 1..(m + k) /\ m + i > m /\ m + i - m = i /\ part[i] = queue[i]
        BY <1>1, <2>1
      <3>2. (base \o part)[m + i] = part[m + i - m]
        BY <1>1, <2>1, <3>1
      <3> QED
        BY <3>1, <3>2
    <2> QED
      BY <2>2, <2>3, <2>4, <2>5
  <1>4. u[0] = base /\ u[n] = base \o queue
    <2>1. SubSeq(queue, 1, 0) = << >> /\ SubSeq(queue, 1, n) = queue /\ 0 \in 0..n /\ n \in 0..n
      BY <1>1
    <2> QED
      BY <2>1
  <1>5. u = [k \in 0..n |-> u[k]]
    OBVIOUS
  <1> HIDE DEF u, n
  <1>6. ASSUME NEW k \in 1..n PROVE u[k] = WithLine(sent, u[k - 1], queue[k])
    <2>1. k - 1 \in 0..n /\ k \in 0..n /\ k - 1 + 1 = k
      BY <1>1
    <2>2. u[k - 1] \in Seq(Entry) /\ Len(u[k - 1]) = m + (k - 1)
      BY <1>3, <2>1
    <2>3. queue[k] \notin Range(u[k - 1])
      <3>1. Range(u[k - 1]) = {u[k - 1][i] : i \in 1..Len(u[k - 1])}
        BY <2>2, LinesAll
      <3>2. ASSUME NEW i \in 1..(m + (k - 1)) PROVE u[k - 1][i] # queue[k]
        <4>1. CASE i <= m
          <5>1. i \in 1..m /\ u[k - 1][i] = base[i]
            BY <1>1, <1>3, <2>1, <4>1
          <5>2. base[i].line < queue[k].line /\ base[i] \in Entry /\ queue[k] \in Entry
            BY <1>1, <5>1, LineNumbers DEF n, m
          <5> QED
            BY <5>1, <5>2, OtherLine, Zenon
        <4>2. CASE i > m
          <5>1. i - m \in 1..(k - 1) /\ m + (i - m) = i
            BY <1>1, <4>2
          <5>2. u[k - 1][i] = queue[i - m]
            BY <1>3, <2>1, <5>1
          <5>3. i - m \in 1..n /\ i - m < k
            BY <1>1, <5>1
          <5>4. queue[i - m].line < queue[k].line /\ queue[i - m] \in Entry /\ queue[k] \in Entry
            BY <1>1, <5>3, LineNumbers DEF Increasing, n
          <5> QED
            BY <5>2, <5>4, OtherLine, Zenon
        <4> QED
          BY <1>1, <4>1, <4>2
      <3> QED
        BY <2>2, <3>1, <3>2
    <2>4. queue[k] \notin sent
      BY DEF n
    <2>5. WithLine(sent, u[k - 1], queue[k]) = Append(u[k - 1], queue[k])
      BY <2>3, <2>4 DEF WithLine
    <2>6. u[k] = Append(u[k - 1], queue[k])
      <3> DEFINE a == u[k]
                 b == Append(u[k - 1], queue[k])
      <3>1. a \in Seq(Entry) /\ Len(a) = m + k /\ b \in Seq(Entry) /\ Len(b) = m + k
        BY <1>1, <1>3, <2>1, <2>2
      <3>2. ASSUME NEW i \in 1..(m + k) PROVE a[i] = b[i]
        <4>1. CASE i <= m
          <5>1. i \in 1..m /\ i \in 1..(m + (k - 1))
            BY <1>1, <2>1, <4>1
          <5>2. a[i] = base[i] /\ u[k - 1][i] = base[i]
            BY <1>3, <2>1, <5>1
          <5>3. b[i] = u[k - 1][i]
            BY <2>2, <5>1
          <5> QED
            BY <5>2, <5>3
        <4>2. CASE i > m /\ i # m + k
          <5>1. i - m \in 1..k /\ i - m \in 1..(k - 1) /\ m + (i - m) = i /\ i \in 1..(m + (k - 1))
            BY <1>1, <4>2
          <5>2. a[i] = queue[i - m] /\ u[k - 1][i] = queue[i - m]
            BY <1>3, <2>1, <5>1
          <5>3. b[i] = u[k - 1][i]
            BY <2>2, <5>1
          <5> QED
            BY <5>2, <5>3
        <4>3. CASE i = m + k
          <5>1. k \in 1..k /\ a[m + k] = queue[k]
            BY <1>3, <2>1
          <5>2. b[m + k] = queue[k]
            BY <1>1, <2>2
          <5> QED
            BY <4>3, <5>1, <5>2
        <4> HIDE DEF a, b
        <4> QED
          BY <1>1, <4>1, <4>2, <4>3
      <3> HIDE DEF a, b
      <3>3. a = b
        BY <3>1, <3>2, SeqEqual
      <3> QED
        BY <3>3 DEF a, b
    <2> QED
      BY <2>5, <2>6
  <1>7. u \in [0..n -> Seq(Entry)]
    BY <1>3, <1>5
  <1>8. Merges(u, sent, queue, Len(queue))
    BY <1>6, <1>7 DEF Merges, n
  <1>9. MergedQueue(sent, u[0], queue) = u[Len(queue)]
    BY <1>8, MergeValue
  <1> QED
    BY <1>4, <1>9 DEF n

\* The last lines of a log, in its order.
LEMMA LastLines ==
    ASSUME NEW s \in Seq(Entry), NEW n \in Nat \ {0}
    PROVE  /\ LastOf(s, n) \in Seq(Entry) /\ Len(LastOf(s, n)) <= n
           /\ Range(LastOf(s, n)) \subseteq Range(s)
           /\ Increasing(s) => Increasing(LastOf(s, n))
  <1> DEFINE m == IF Len(s) > n THEN Len(s) - n ELSE 0
             last == LastOf(s, n)
  <1>1. /\ m \in Nat /\ Len(s) \in Nat /\ m <= Len(s)
        /\ last = SubSeq(s, m + 1, Len(s))
    <2>1. Len(s) \in Nat
      OBVIOUS
    <2> QED
      BY <2>1 DEF LastOf
  <1>2. Len(s) - m <= n
    BY <1>1
  <1> HIDE DEF m, last
  <1>3. /\ last \in Seq(Entry) /\ Len(last) = Len(s) - m
        /\ \A i \in 1..(Len(s) - m) : m + i \in 1..Len(s) /\ last[i] = s[m + i]
    <2>1. \A i \in 1..(Len(s) - m) : m + i \in 1..Len(s)
      BY <1>1
    <2> QED
      BY <1>1, <2>1
  <1>4. Range(last) \subseteq Range(s)
    <2>1. Range(s) = {s[i] : i \in 1..Len(s)} /\ Range(last) = {last[i] : i \in 1..Len(last)}
      BY <1>3, LinesAll
    <2> QED
      BY <1>3, <2>1
  <1>5. ASSUME Increasing(s) PROVE Increasing(last)
    <2> SUFFICES ASSUME NEW i \in 1..Len(last), NEW j \in 1..Len(last), i < j PROVE last[i].line < last[j].line
      BY DEF Increasing
    <2>1. m + i \in 1..Len(s) /\ m + j \in 1..Len(s) /\ m + i < m + j
      BY <1>1, <1>3
    <2>2. s[m + i].line < s[m + j].line
      BY <1>5, <2>1 DEF Increasing
    <2> QED
      BY <1>3, <2>2
  <1> QED
    BY <1>1, <1>2, <1>3, <1>4, <1>5 DEF last

--------------------------------------------------------------------------------
(* The lines that a viewer is sent first.                                  *)

Sifted(s, x) == IF x.line \in Noise THEN s ELSE Append(s, x)

LEMMA SiftedLine ==
    ASSUME NEW s \in Seq(Entry), NEW x \in Entry
    PROVE  Sifted(s, x) \in Seq(Entry)
  BY DEF Sifted

FilteredThrough(lines, n) ==
    \E t \in [0..n -> Seq(Entry)] :
        t[0] = << >> /\ (\A k \in 1..n : t[k] = Sifted(t[k - 1], lines[k])) /\ Filtered(lines) = t[n]

LEMMA FilterSteps ==
    ASSUME NEW logs \in Seq(Entry)
    PROVE  FilteredThrough(logs, Len(logs))
  <1> DEFINE n == Len(logs)
             F == [p \in Seq(Entry) \X (1..n) |-> Sifted(p[1], logs[p[2]])]
             Equation(it) == it = [s \in SUBSET (DOMAIN logs) |->
                                     IF s = {} THEN << >> ELSE Sifted(it[s \ {Max(s)}], logs[Max(s)])]
             chosen == CHOOSE it : Equation(it)
  <1>n. n \in Nat /\ DOMAIN logs = 1..n /\ << >> \in Seq(Entry) /\ \A i \in 1..n : logs[i] \in Entry
    OBVIOUS
  <1>1. F \in [Seq(Entry) \X (1..n) -> Seq(Entry)]
    BY <1>n, SiftedLine
  <1>2. PICK it \in [SUBSET (1..n) -> Seq(Entry)] : Iterates(it, n, << >>, F)
    <2> HIDE DEF F, n
    <2> QED
      BY <1>n, <1>1, IterationExists DEF Iterable
  <1>3. Equation(it)
    <2>1. \A s \in SUBSET (1..n) : s # {} => Max(s) \in 1..n /\ it[s \ {Max(s)}] \in Seq(Entry)
      <3> HIDE DEF n
      <3> QED
        BY <1>n, Largest
    <2>2. \A s \in SUBSET (1..n) :
             s # {} => F[<<it[s \ {Max(s)}], Max(s)>>] = Sifted(it[s \ {Max(s)}], logs[Max(s)])
      BY <2>1
    <2> HIDE DEF F, n
    <2> QED
      BY <1>n, <1>2, <2>2 DEF Iterates
  <1>4. Equation(chosen)
    BY <1>3, Zenon
  <1>5. Filtered(logs) = chosen[DOMAIN logs]
    BY Zenon DEF Filtered, Sifted, FoldLeft, MapThenFoldSet
  <1> HIDE DEF chosen, n
  <1>6. /\ chosen[1..0] = << >>
        /\ \A k \in 1..n : chosen[1..k] = Sifted(chosen[1..(k - 1)], logs[k])
    <2>1. \A s \in SUBSET (1..n) :
             chosen[s] = IF s = {} THEN << >> ELSE Sifted(chosen[s \ {Max(s)}], logs[Max(s)])
      BY <1>n, <1>4
    <2>2. chosen[1..0] = << >>
      <3>1. 1..0 = {} /\ {} \in SUBSET (1..n)
        OBVIOUS
      <3> QED
        BY <2>1, <3>1
    <2>3. ASSUME NEW k \in 1..n PROVE chosen[1..k] = Sifted(chosen[1..(k - 1)], logs[k])
      <3>1. 1..k \in SUBSET (1..n) /\ 1..k # {} /\ Max(1..k) = k /\ (1..k) \ {k} = 1..(k - 1)
        BY <1>n, Prefix
      <3> QED
        BY <2>1, <3>1
    <2> QED
      BY <2>2, <2>3
  <1>7. \A k \in Nat : k <= n => chosen[1..k] \in Seq(Entry)
    <2> DEFINE S == {j \in Nat : j <= n => chosen[1..j] \in Seq(Entry)}
    <2>1. 0 \in S
      BY <1>n, <1>6
    <2>2. ASSUME NEW k \in Nat, k \in S PROVE k + 1 \in S
      <3> SUFFICES ASSUME k + 1 <= n PROVE chosen[1..(k + 1)] \in Seq(Entry)
        OBVIOUS
      <3>1. k + 1 \in 1..n /\ k + 1 - 1 = k /\ chosen[1..k] \in Seq(Entry)
        BY <1>n, <2>2
      <3>2. chosen[1..(k + 1)] = Sifted(chosen[1..k], logs[k + 1])
        BY <1>6, <3>1
      <3> QED
        BY <1>n, <3>1, <3>2, SiftedLine
    <2> HIDE DEF S
    <2>3. \A k \in Nat : k \in S
      BY <2>1, <2>2, Induction
    <2> QED
      BY <2>3 DEF S
  <1> DEFINE t == [k \in 0..n |-> chosen[1..k]]
  <1>8. t \in [0..n -> Seq(Entry)]
    BY <1>n, <1>7
  <1>9. t[0] = << >> /\ \A k \in 1..n : t[k] = Sifted(t[k - 1], logs[k])
    BY <1>n, <1>6
  <1>10. Filtered(logs) = t[n]
    BY <1>n, <1>5
  <1> HIDE DEF t
  <1> QED
    BY <1>8, <1>9, <1>10 DEF FilteredThrough, n

\* The filter keeps the order and adds nothing.
LEMMA FilteredLines ==
    ASSUME NEW logs \in Seq(Entry), Increasing(logs)
    PROVE  /\ Filtered(logs) \in Seq(Entry) /\ Increasing(Filtered(logs))
           /\ Range(Filtered(logs)) \subseteq Range(logs)
  <1> DEFINE n == Len(logs)
             Sifts(s, k) == Increasing(s) /\ \A i \in 1..Len(s) : \E j \in 1..k : s[i] = logs[j]
  <1>1. n \in Nat /\ \A i \in 1..n : logs[i] \in Entry /\ logs[i].line \in Nat
    <2>1. n \in Nat /\ \A i \in 1..n : logs[i] \in Entry
      OBVIOUS
    <2> QED
      BY <2>1, LineNumbers
  <1>2. PICK t \in [0..n -> Seq(Entry)] :
            t[0] = << >> /\ (\A k \in 1..n : t[k] = Sifted(t[k - 1], logs[k])) /\ Filtered(logs) = t[n]
    BY FilterSteps DEF FilteredThrough
  <1>5. \A j, k \in 1..n : j < k => logs[j].line < logs[k].line
    BY DEF Increasing
  <1> HIDE DEF n
  <1> DEFINE S == {k \in Nat : k <= n => Sifts(t[k], k)}
  <1>3. 0 \in S
    BY <1>1, <1>2 DEF Increasing
  <1>4. ASSUME NEW k \in Nat, k \in S PROVE k + 1 \in S
    <2> SUFFICES ASSUME k + 1 <= n PROVE Sifts(t[k + 1], k + 1)
      OBVIOUS
    <2> DEFINE s == t[k]
               x == logs[k + 1]
    <2>1. k + 1 \in 1..n /\ k + 1 - 1 = k /\ k \in 0..n
      BY <1>1
    <2>2. s \in Seq(Entry) /\ x \in Entry /\ x.line \in Nat /\ Sifts(s, k) /\ t[k + 1] = Sifted(s, x)
      BY <1>1, <1>2, <1>4, <2>1
    <2>3. \A j \in 1..k : logs[j].line < x.line /\ j \in 1..(k + 1)
      <3> TAKE j \in 1..k
      <3>1. j \in 1..n /\ j < k + 1 /\ j \in 1..(k + 1)
        BY <1>1, <2>1
      <3> QED
        BY <1>5, <2>1, <3>1
    <2> HIDE DEF s
    <2>4. CASE x.line \in Noise
      BY <2>2, <2>4 DEF Sifted
    <2>5. CASE x.line \notin Noise
      <3> DEFINE longer == Append(s, x)
      <3>1. t[k + 1] = longer
        BY <2>2, <2>5 DEF Sifted
      <3>2. /\ Len(s) \in Nat /\ Len(longer) = Len(s) + 1 /\ longer[Len(s) + 1] = x
            /\ \A i \in 1..Len(s) : longer[i] = s[i]
        BY <2>2
      <3>3. \A i \in 1..Len(s) : s[i].line < x.line
        <4> TAKE i \in 1..Len(s)
        <4>1. PICK j \in 1..k : s[i] = logs[j]
          BY <2>2
        <4> QED
          BY <2>3, <4>1
      <3> HIDE DEF longer, x
      <3>4. ASSUME NEW i \in 1..Len(longer), NEW j \in 1..Len(longer), i < j PROVE longer[i].line < longer[j].line
        <4>0. Len(s) \in Nat /\ Len(longer) = Len(s) + 1
          BY <3>2
        <4>1. i \in 1..Len(s) /\ (j \in 1..Len(s) \/ j = Len(s) + 1)
          BY <3>4, <4>0
        <4>2. CASE j \in 1..Len(s)
          BY <2>2, <3>2, <3>4, <4>1, <4>2 DEF Increasing
        <4> QED
          BY <3>2, <3>3, <4>1, <4>2
      <3>5. ASSUME NEW i \in 1..Len(longer) PROVE \E j \in 1..(k + 1) : longer[i] = logs[j]
        <4>1. CASE i \in 1..Len(s)
          <5>1. PICK j \in 1..k : s[i] = logs[j]
            BY <2>2, <4>1
          <5> QED
            BY <2>3, <3>2, <4>1, <5>1
        <4>2. CASE i = Len(s) + 1
          BY <2>1, <3>2, <4>2 DEF x
        <4> QED
          BY <3>2, <4>1, <4>2
      <3> QED
        BY <3>1, <3>4, <3>5 DEF Increasing
    <2> QED
      BY <2>4, <2>5
  <1>6. n \in S
    <2> HIDE DEF S
    <2> QED
      BY <1>1, <1>3, <1>4, Induction
  <1>7. Filtered(logs) \in Seq(Entry) /\ Sifts(Filtered(logs), n)
    BY <1>1, <1>2, <1>6
  <1>8. /\ Range(logs) = {logs[i] : i \in 1..n}
        /\ Range(Filtered(logs)) = {Filtered(logs)[i] : i \in 1..Len(Filtered(logs))}
    BY <1>7, LinesAll DEF n
  <1>9. Range(Filtered(logs)) \subseteq Range(logs)
    BY <1>7, <1>8
  <1> QED
    BY <1>7, <1>9

\* get_recent_logs: some of the buffer's lines.
LEMMA RecentLines ==
    ASSUME logBuffer \in Seq(Entry), Increasing(logBuffer), NEW raw \in BOOLEAN
    PROVE  /\ RecentLogs(raw) \in Seq(Entry) /\ Len(RecentLogs(raw)) <= RecentSize
           /\ Increasing(RecentLogs(raw)) /\ Range(RecentLogs(raw)) \subseteq Range(logBuffer)
  <1> DEFINE shown == IF raw THEN logBuffer ELSE Filtered(logBuffer)
  <1>1. shown \in Seq(Entry) /\ Increasing(shown) /\ Range(shown) \subseteq Range(logBuffer)
    BY FilteredLines
  <1>2. RecentSize \in Nat \ {0} /\ RecentLogs(raw) = LastOf(shown, RecentSize)
    BY ConsoleAssumption DEF RecentLogs
  <1> HIDE DEF shown
  <1>3. /\ LastOf(shown, RecentSize) \in Seq(Entry) /\ Len(LastOf(shown, RecentSize)) <= RecentSize
        /\ Range(LastOf(shown, RecentSize)) \subseteq Range(shown) /\ Increasing(LastOf(shown, RecentSize))
    BY <1>1, <1>2, LastLines
  <1> QED
    BY <1>1, <1>2, <1>3

--------------------------------------------------------------------------------
(* The calls of the viewers.                                               *)

Viewings == [on : BOOLEAN, recent : Seq(Entry), queue : Seq(Shown), sent : SUBSET Entry,
             due : Seq(Entry), had : SUBSET Entry, overflown : BOOLEAN, forgot : BOOLEAN, reread : BOOLEAN, restamped : BOOLEAN]

Overflows(r) == Len(r.queue) = QueueSize

LEMMA EnqueuedFields ==
    ASSUME NEW r \in Viewings, NEW x \in Entry, x.line \notin Noise, r.on
    PROVE  LET e == Enqueued(r, x)
           IN  /\ e \in Viewings
               /\ e.on = r.on /\ e.recent = r.recent /\ e.sent = r.sent /\ e.had = r.had
               /\ e.due = r.due /\ e.forgot = r.forgot /\ e.reread = r.reread /\ e.restamped = r.restamped
               /\ x \in r.sent => e = r
               /\ x \notin r.sent =>
                     /\ e.queue = Append(IF Overflows(r) THEN Tail(r.queue) ELSE r.queue, x)
                     /\ e.overflown = (r.overflown \/ Overflows(r))
  <1>1. CASE x \in r.sent
    BY <1>1 DEF Enqueued
  <1>2. CASE x \notin r.sent
    <2> DEFINE q == Append(IF Len(r.queue) = QueueSize THEN Tail(r.queue) ELSE r.queue, x)
               o == r.overflown \/ Len(r.queue) = QueueSize
    <2>1. Enqueued(r, x) = [r EXCEPT !.queue = q, !.overflown = o]
      BY <1>2 DEF Enqueued, Subscribed
    <2>2. q \in Seq(Shown)
      <3>1. r.queue \in Seq(Shown) /\ QueueSize \in Nat \ {0}
        BY ConsoleAssumption DEF Viewings
      <3>2. Len(r.queue) = QueueSize => r.queue # << >>
        BY <3>1
      <3> QED
        BY <3>1, <3>2, ShownEntries
    <2>3. o \in BOOLEAN
      BY DEF Viewings
    <2>4. q = Append(IF Overflows(r) THEN Tail(r.queue) ELSE r.queue, x) /\ o = (r.overflown \/ Overflows(r))
      BY DEF Overflows
    <2> HIDE DEF q, o
    <2>5. [r EXCEPT !.queue = q, !.overflown = o] \in Viewings
      BY <2>2, <2>3 DEF Viewings
    <2>6. /\ [r EXCEPT !.queue = q, !.overflown = o].queue = q
          /\ [r EXCEPT !.queue = q, !.overflown = o].overflown = o
          /\ [r EXCEPT !.queue = q, !.overflown = o].on = r.on
          /\ [r EXCEPT !.queue = q, !.overflown = o].recent = r.recent
          /\ [r EXCEPT !.queue = q, !.overflown = o].sent = r.sent
          /\ [r EXCEPT !.queue = q, !.overflown = o].had = r.had
          /\ [r EXCEPT !.queue = q, !.overflown = o].due = r.due
          /\ [r EXCEPT !.queue = q, !.overflown = o].forgot = r.forgot
          /\ [r EXCEPT !.queue = q, !.overflown = o].reread = r.reread
          /\ [r EXCEPT !.queue = q, !.overflown = o].restamped = r.restamped
      BY DEF Viewings
    <2> QED
      BY <1>2, <2>1, <2>4, <2>5, <2>6
  <1> QED
    BY <1>1, <1>2

HadOrDue(r) == r.had \cup Range(r.due)
KnownLine(r, x) == x.line \in LinesIn(HadOrDue(r))

\* A line that is known with this time, or that is not, is due as any other.
DueAfter(r, x, c) ==
    /\ c.due \in {r.due, Append(r.due, x)} /\ (r.restamped => c.restamped)
    /\ ~c.restamped => c.due = WithLine(r.had, r.due, x)
    /\ x \in HadOrDue(r) => c.due = r.due /\ c.restamped = r.restamped
    /\ ~KnownLine(r, x) => c.due = Append(r.due, x) /\ c.restamped = r.restamped

LEMMA CalledFields ==
    ASSUME NEW r \in Viewings, NEW x \in Entry
    PROVE  LET c == Called(r, x)
           IN  /\ c \in Viewings
               /\ c.on = r.on /\ c.recent = r.recent /\ c.sent = r.sent /\ c.had = r.had
               /\ c.forgot = r.forgot /\ c.reread = r.reread
               /\ x.line \in Noise \/ ~r.on => c = r
               /\ x.line \notin Noise /\ r.on =>
                     /\ DueAfter(r, x, c)
                     /\ x \in r.sent => c.queue = r.queue /\ c.overflown = r.overflown
                     /\ x \notin r.sent =>
                           /\ c.queue = Append(IF Overflows(r) THEN Tail(r.queue) ELSE r.queue, x)
                           /\ c.overflown = (r.overflown \/ Overflows(r))
  <1>1. CASE x.line \in Noise \/ ~r.on
    BY <1>1 DEF Called
  <1>2. CASE x.line \notin Noise /\ r.on
    <2> DEFINE e == Enqueued(r, x)
               d == IF KnownLine(r, x) THEN r.due ELSE Append(r.due, x)
               p == r.restamped \/ (KnownLine(r, x) /\ x \notin HadOrDue(r))
               c == [e EXCEPT !.due = d, !.restamped = p]
    <2>1. /\ e \in Viewings
          /\ e.on = r.on /\ e.recent = r.recent /\ e.sent = r.sent /\ e.had = r.had
          /\ e.due = r.due /\ e.forgot = r.forgot /\ e.reread = r.reread /\ e.restamped = r.restamped
          /\ x \in r.sent => e = r
          /\ x \notin r.sent =>
                /\ e.queue = Append(IF Overflows(r) THEN Tail(r.queue) ELSE r.queue, x)
                /\ e.overflown = (r.overflown \/ Overflows(r))
      BY <1>2, EnqueuedFields
    <2>2. Called(r, x) = [e EXCEPT !.due = IF KnownLine(r, x) THEN @ ELSE Append(@, x),
                                   !.restamped = @ \/ (KnownLine(r, x) /\ x \notin HadOrDue(r))]
      BY <1>2 DEF Called, KnownLine, HadOrDue
    <2> HIDE DEF e
    <2>3. Called(r, x) = c
      BY <2>1, <2>2 DEF Viewings
    <2>4. d \in Seq(Entry) /\ p \in BOOLEAN
      BY DEF Viewings
    <2>5. x \in HadOrDue(r) => KnownLine(r, x)
      BY DEF KnownLine, LinesIn
    <2>6. /\ d \in {r.due, Append(r.due, x)} /\ (r.restamped => p)
          /\ ~p => d = WithLine(r.had, r.due, x)
          /\ x \in HadOrDue(r) => d = r.due /\ p = r.restamped
          /\ ~KnownLine(r, x) => d = Append(r.due, x) /\ p = r.restamped
      <3>1. r.restamped \in BOOLEAN
        BY DEF Viewings
      <3>2. ~p => (KnownLine(r, x) <=> x \in HadOrDue(r))
        BY <2>5
      <3> QED
        BY <2>5, <3>1, <3>2 DEF WithLine, HadOrDue
    <2> HIDE DEF d, p
    <2>7. /\ c \in Viewings
          /\ c.due = d /\ c.restamped = p /\ c.queue = e.queue /\ c.overflown = e.overflown
          /\ c.on = e.on /\ c.recent = e.recent /\ c.sent = e.sent /\ c.had = e.had
          /\ c.forgot = e.forgot /\ c.reread = e.reread
      BY <2>1, <2>4 DEF Viewings
    <2> HIDE DEF c
    <2>8. DueAfter(r, x, c)
      BY <2>6, <2>7 DEF DueAfter
    <2> QED
      BY <1>2, <2>1, <2>3, <2>7, <2>8
  <1> QED
    BY <1>1, <1>2

\* A line after all others, and all lines but the first.
LEMMA LineAfter ==
    ASSUME NEW s \in Seq(Entry), NEW x \in Entry
    PROVE  /\ Append(s, x) \in Seq(Entry) /\ Len(Append(s, x)) = Len(s) + 1
           /\ Range(Append(s, x)) = Range(s) \cup {x}
           /\ Increasing(s) /\ (\A y \in Range(s) : y.line < x.line) => Increasing(Append(s, x))
  <1> DEFINE longer == Append(s, x)
             n == Len(s)
  <1>1. /\ longer \in Seq(Entry) /\ Len(longer) = n + 1 /\ n \in Nat /\ longer[n + 1] = x
        /\ \A i \in 1..n : longer[i] = s[i] /\ i \in 1..(n + 1)
    OBVIOUS
  <1>2. Range(longer) = {longer[i] : i \in 1..(n + 1)} /\ Range(s) = {s[i] : i \in 1..n}
    BY <1>1, LinesAll
  <1> HIDE DEF longer, n
  <1>3. \A i \in 1..(n + 1) : i \in 1..n \/ i = n + 1
    BY <1>1
  <1>4. Range(longer) \subseteq Range(s) \cup {x}
    <2>1. ASSUME NEW i \in 1..(n + 1) PROVE longer[i] \in Range(s) \cup {x}
      BY <1>1, <1>2, <1>3
    <2> QED
      BY <1>2, <2>1
  <1>5. Range(s) \cup {x} \subseteq Range(longer)
    <2>1. n + 1 \in 1..(n + 1)
      BY <1>1
    <2> QED
      BY <1>1, <1>2, <2>1
  <1>6. ASSUME Increasing(s), \A y \in Range(s) : y.line < x.line PROVE Increasing(longer)
    <2> SUFFICES ASSUME NEW i \in 1..(n + 1), NEW j \in 1..(n + 1), i < j PROVE longer[i].line < longer[j].line
      BY <1>1 DEF Increasing
    <2>1. i \in 1..n
      BY <1>1
    <2>2. CASE j \in 1..n
      <3>1. s[i].line < s[j].line
        BY <1>6, <2>1, <2>2 DEF Increasing, n
      <3> QED
        BY <1>1, <2>1, <2>2, <3>1
    <2>3. CASE j = n + 1
      BY <1>1, <1>2, <1>6, <2>1, <2>3
    <2> QED
      BY <1>3, <2>2, <2>3
  <1> QED
    BY <1>1, <1>4, <1>5, <1>6 DEF longer, n

LEMMA LinesAfter ==
    ASSUME NEW s \in Seq(Entry), s # << >>
    PROVE  /\ Tail(s) \in Seq(Entry) /\ Len(Tail(s)) = Len(s) - 1 /\ Head(s) \in Entry
           /\ s = <<Head(s)>> \o Tail(s)
           /\ Range(s) = {Head(s)} \cup Range(Tail(s))
           /\ Increasing(s) => Increasing(Tail(s)) /\ \A y \in Range(Tail(s)) : Head(s).line < y.line
  <1> DEFINE rest == Tail(s)
             n == Len(rest)
             h == Head(s)
  <1>1. /\ rest \in Seq(Entry) /\ n \in Nat /\ Len(s) = n + 1 /\ s[1] = h /\ h \in Entry
        /\ \A i \in 1..n : rest[i] = s[i + 1] /\ i + 1 \in 1..(n + 1)
    OBVIOUS
  <1>2. s = <<h>> \o rest
    OBVIOUS
  <1>3. Range(s) = {s[i] : i \in 1..(n + 1)} /\ Range(rest) = {rest[i] : i \in 1..n}
    BY <1>1, LinesAll
  <1>7. 1 \in 1..(n + 1)
    BY <1>1
  <1> HIDE DEF rest, n, h
  <1>4. Range(s) \subseteq {h} \cup Range(rest)
    <2>1. ASSUME NEW i \in 1..(n + 1) PROVE s[i] \in {h} \cup Range(rest)
      <3>1. CASE i = 1
        BY <1>1, <3>1
      <3>2. CASE i # 1
        <4>1. i - 1 \in 1..n /\ i - 1 + 1 = i
          BY <1>1, <3>2
        <4>2. rest[i - 1] = s[i]
          BY <1>1, <4>1
        <4> QED
          BY <1>3, <4>1, <4>2
      <3> QED
        BY <3>1, <3>2
    <2> QED
      BY <1>3, <2>1
  <1>5. {h} \cup Range(rest) \subseteq Range(s)
    BY <1>1, <1>3, <1>7
  <1>6. ASSUME Increasing(s) PROVE Increasing(rest) /\ \A y \in Range(rest) : h.line < y.line
    <2>1. ASSUME NEW i \in 1..n, NEW j \in 1..n, i < j PROVE rest[i].line < rest[j].line
      <3>1. i + 1 < j + 1 /\ i + 1 \in 1..(n + 1) /\ j + 1 \in 1..(n + 1)
        BY <1>1, <2>1
      <3>2. s[i + 1].line < s[j + 1].line
        BY <1>1, <1>6, <3>1 DEF Increasing
      <3> QED
        BY <1>1, <3>2
    <2>2. ASSUME NEW i \in 1..n PROVE h.line < rest[i].line
      <3>1. 1 < i + 1 /\ i + 1 \in 1..(n + 1)
        BY <1>1
      <3>2. s[1].line < s[i + 1].line
        BY <1>1, <1>6, <1>7, <3>1 DEF Increasing
      <3> QED
        BY <1>1, <3>2
    <2> QED
      BY <1>3, <2>1, <2>2 DEF Increasing, n
  <1> QED
    BY <1>1, <1>2, <1>4, <1>5, <1>6 DEF rest, n, h

\* What a viewer was sent comes before what it will be sent, each in order.
Ordered(r) ==
    /\ Increasing(r.recent) /\ Increasing(r.queue)
    /\ \A x \in Range(r.recent), y \in Range(r.queue) : x.line < y.line
    /\ \A x \in r.had, y \in Range(r.recent) \cup Range(r.queue) : x.line < y.line

\* It remembers what it was sent, unless it has forgotten it all.
Remembers(r) == r.sent \subseteq r.had /\ (~r.forgot => r.sent = r.had)

OwedExact(r) == r.on /\ ~r.overflown /\ ~(r.reread /\ (r.forgot \/ r.restamped)) => Pending(r) = r.due

LinesOf(r) == Range(r.recent) \cup Range(r.queue) \cup r.had

Viewing(r) ==
    /\ Len(r.recent) <= RecentSize /\ Len(r.queue) <= QueueSize
    /\ Remembers(r) /\ OwedExact(r)
    /\ ~r.on => r = Unconnected

LEMMA QueuedLines ==
    ASSUME NEW r \in Viewings
    PROVE  /\ r.queue \in Seq(Entry) /\ r.recent \in Seq(Entry) /\ r.due \in Seq(Entry)
           /\ LinesOf(r) \subseteq Entry
  <1>1. r.queue \in Seq(Shown) /\ r.recent \in Seq(Entry) /\ r.due \in Seq(Entry) /\ r.had \subseteq Entry
    BY DEF Viewings
  <1>2. r.queue \in Seq(Entry)
    BY <1>1, ShownEntries
  <1>3. Range(r.recent) \subseteq Entry /\ Range(r.queue) \subseteq Entry
    <2>1. /\ Range(r.recent) = {r.recent[i] : i \in 1..Len(r.recent)}
          /\ Range(r.queue) = {r.queue[i] : i \in 1..Len(r.queue)}
      BY <1>1, <1>2, LinesAll
    <2> QED
      BY <1>1, <1>2, <2>1
  <1> QED
    BY <1>1, <1>2, <1>3 DEF LinesOf

\* A viewer whose lines were not read again is sent what is there.
LEMMA PendingFresh ==
    ASSUME NEW r \in Viewings, Ordered(r), Remembers(r)
    PROVE  Pending(r) = r.recent \o r.queue
  <1> DEFINE a == r.recent
             q == r.queue
  <1>1. a \in Seq(Entry) /\ q \in Seq(Entry) /\ r.sent \subseteq r.had /\ r.had \subseteq Entry
    BY QueuedLines DEF Remembers, Viewings
  <1>2. Range(a) = {a[i] : i \in 1..Len(a)} /\ Range(q) = {q[i] : i \in 1..Len(q)}
    BY <1>1, LinesAll
  <1>3. Increasing(q) /\ \A i \in 1..Len(a), j \in 1..Len(q) : a[i].line < q[j].line
    BY <1>2 DEF Ordered
  <1>4. ASSUME NEW j \in 1..Len(q) PROVE q[j] \notin r.sent
    <2>1. \A x \in r.had : x.line < q[j].line /\ x.line \in Nat /\ q[j].line \in Nat
      BY <1>1, <1>2, LineNumbers DEF Ordered
    <2> QED
      BY <1>1, <2>1
  <1> HIDE DEF a, q
  <1>5. MergedQueue(r.sent, a, q) = a \o q
    BY <1>1, <1>3, <1>4, MergeFresh
  <1> QED
    BY <1>5, PendingMerged DEF a, q

LEMMA JoinedLines ==
    ASSUME NEW s \in Seq(Entry), NEW t \in Seq(Entry)
    PROVE  s \o t \in Seq(Entry) /\ Range(s \o t) = Range(s) \cup Range(t)
  <1> DEFINE n == Len(s)
             m == Len(t)
             joined == s \o t
  <1>1. /\ joined \in Seq(Entry) /\ Len(joined) = n + m /\ n \in Nat /\ m \in Nat
        /\ \A i \in 1..n : joined[i] = s[i] /\ i \in 1..n + m
        /\ \A i \in 1..m : joined[n + i] = t[i] /\ n + i \in 1..n + m
    OBVIOUS
  <1>2. /\ Range(joined) = {joined[i] : i \in 1..Len(joined)}
        /\ Range(s) = {s[i] : i \in 1..n} /\ Range(t) = {t[i] : i \in 1..m}
    BY <1>1, LinesAll
  <1> HIDE DEF joined, n, m
  <1>3. ASSUME NEW i \in 1..n + m PROVE joined[i] \in Range(s) \cup Range(t)
    <2>1. CASE i <= n
      <3>1. i \in 1..n
        BY <1>1, <2>1
      <3> QED
        BY <1>1, <1>2, <3>1
    <2>2. CASE i > n
      <3>1. i - n \in 1..m /\ n + (i - n) = i
        BY <1>1, <2>2
      <3>2. joined[i] = t[i - n]
        BY <1>1, <3>1
      <3> QED
        BY <1>2, <3>1, <3>2
    <2> QED
      BY <1>1, <2>1, <2>2
  <1>4. Range(s) \cup Range(t) \subseteq Range(joined)
    BY <1>1, <1>2
  <1>5. Range(joined) \subseteq Range(s) \cup Range(t)
    BY <1>1, <1>2, <1>3
  <1>6. joined \in Seq(Entry) /\ Range(joined) = Range(s) \cup Range(t)
    BY <1>1, <1>4, <1>5
  <1> QED
    BY <1>6 DEF joined

\* A viewer is called with a line that it was not called with since it last read
\* the log from its start.
LEMMA CalledKeeps ==
    ASSUME NEW r \in Viewings, NEW x \in Entry, Viewing(r),
           ~r.reread => Ordered(r) /\ \A y \in LinesOf(r) : y.line < x.line
    PROVE  LET c == Called(r, x)
           IN  /\ c \in Viewings /\ Viewing(c) /\ c.reread = r.reread
               /\ ~r.reread => Ordered(c) /\ LinesOf(c) \subseteq LinesOf(r) \cup {x}
  <1> DEFINE c == Called(r, x)
  <1>1. /\ c \in Viewings
        /\ c.on = r.on /\ c.recent = r.recent /\ c.sent = r.sent /\ c.had = r.had
        /\ c.forgot = r.forgot /\ c.reread = r.reread
        /\ x.line \in Noise \/ ~r.on => c = r
        /\ x.line \notin Noise /\ r.on =>
              /\ DueAfter(r, x, c)
              /\ x \in r.sent => c.queue = r.queue /\ c.overflown = r.overflown
              /\ x \notin r.sent =>
                    /\ c.queue = Append(IF Overflows(r) THEN Tail(r.queue) ELSE r.queue, x)
                    /\ c.overflown = (r.overflown \/ Overflows(r))
    BY CalledFields
  <1> HIDE DEF c
  <1>2. CASE x.line \in Noise \/ ~r.on
    BY <1>1, <1>2 DEF c
  <1>3. CASE x.line \notin Noise /\ r.on /\ x \in r.sent
    <2>1. c.queue = r.queue /\ c.overflown = r.overflown /\ c.due = r.due /\ c.restamped = r.restamped
      BY <1>1, <1>3 DEF DueAfter, HadOrDue, Viewing, Remembers
    <2>2. Pending(c) = Pending(r)
      BY <1>1, <2>1, PendingMerged
    <2>3. Viewing(c)
      BY <1>1, <1>3, <2>1, <2>2 DEF Viewing, Remembers, OwedExact
    <2>4. ~r.reread => Ordered(c) /\ LinesOf(c) \subseteq LinesOf(r) \cup {x}
      BY <1>1, <2>1 DEF Ordered, LinesOf
    <2> QED
      BY <1>1, <2>3, <2>4 DEF c
  <1>4. CASE x.line \notin Noise /\ r.on /\ x \notin r.sent
    <2> DEFINE q == IF Overflows(r) THEN Tail(r.queue) ELSE r.queue
    <2>1. /\ r.queue \in Seq(Entry) /\ r.recent \in Seq(Entry) /\ r.due \in Seq(Entry)
          /\ LinesOf(r) \subseteq Entry /\ QueueSize \in Nat \ {0} /\ Len(r.queue) <= QueueSize
      BY QueuedLines, ConsoleAssumption DEF Viewing
    <2>2. /\ q \in Seq(Entry) /\ Len(q) + 1 <= QueueSize /\ Range(q) \subseteq Range(r.queue)
          /\ Increasing(r.queue) => Increasing(q)
      <3>1. CASE Overflows(r)
        <4>1. r.queue # << >> /\ q = Tail(r.queue)
          BY <2>1, <3>1 DEF Overflows
        <4>2. /\ Tail(r.queue) \in Seq(Entry) /\ Len(Tail(r.queue)) = Len(r.queue) - 1
              /\ Range(r.queue) = {Head(r.queue)} \cup Range(Tail(r.queue))
              /\ Increasing(r.queue) => Increasing(Tail(r.queue))
          BY <2>1, <4>1, LinesAfter
        <4>3. Len(Tail(r.queue)) + 1 <= QueueSize
          <5>1. Len(r.queue) \in Nat
            BY <2>1
          <5> HIDE DEF q
          <5> QED
            BY <2>1, <4>2, <5>1
        <4> QED
          BY <2>1, <4>1, <4>2, <4>3
      <3>2. CASE ~Overflows(r)
        <4>1. Len(r.queue) # QueueSize /\ Len(r.queue) \in Nat
          BY <2>1, <3>2 DEF Overflows
        <4> QED
          BY <2>1, <3>2, <4>1
      <3> QED
        BY <3>1, <3>2
    <2>3. /\ c.queue = Append(q, x) /\ c.overflown = (r.overflown \/ Overflows(r))
          /\ DueAfter(r, x, c)
      BY <1>1, <1>4
    <2>8. ~Overflows(r) => q = r.queue
      OBVIOUS
    <2> HIDE DEF q
    <2>4. /\ Len(c.queue) <= QueueSize /\ Range(c.queue) = Range(q) \cup {x}
          /\ Increasing(q) /\ (\A y \in Range(q) : y.line < x.line) => Increasing(c.queue)
      BY <2>2, <2>3, LineAfter
    <2>5. ASSUME ~r.reread PROVE Ordered(c) /\ LinesOf(c) \subseteq LinesOf(r) \cup {x}
      <3>1. Ordered(r) /\ \A y \in LinesOf(r) : y.line < x.line
        BY <2>5
      <3>2. Increasing(c.queue)
        BY <2>2, <2>4, <3>1 DEF Ordered, LinesOf
      <3>3. \A y \in Range(r.recent), z \in Range(c.queue) : y.line < z.line
        BY <2>2, <2>4, <3>1 DEF Ordered, LinesOf
      <3>4. \A y \in r.had, z \in Range(r.recent) \cup Range(c.queue) : y.line < z.line
        BY <2>2, <2>4, <3>1 DEF Ordered, LinesOf
      <3>5. LinesOf(c) \subseteq LinesOf(r) \cup {x}
        BY <1>1, <2>2, <2>4 DEF LinesOf
      <3> QED
        BY <1>1, <3>1, <3>2, <3>3, <3>4, <3>5 DEF Ordered
    <2>6. ASSUME c.on, ~c.overflown, ~(c.reread /\ (c.forgot \/ c.restamped)) PROVE Pending(c) = c.due
      <3>1. /\ ~Overflows(r) /\ ~r.overflown /\ ~(r.reread /\ (r.forgot \/ r.restamped))
            /\ c.queue = Append(r.queue, x)
        BY <1>1, <2>3, <2>6, <2>8 DEF DueAfter
      <3>2. Pending(r) = r.due
        BY <1>4, <3>1 DEF Viewing, OwedExact
      <3>3. MergedQueue(r.sent, r.recent, Append(r.queue, x)) = WithLine(r.sent, MergedQueue(r.sent, r.recent, r.queue), x)
        BY <2>1, MergeOneMore
      <3>4. Pending(c) = WithLine(r.sent, r.due, x)
        BY <1>1, <3>1, <3>2, <3>3, PendingMerged
      <3>5. CASE r.reread
        <4>1. x \notin r.had
          BY <1>4, <3>1, <3>5 DEF Viewing, Remembers
        <4>2. c.due = WithLine(r.had, r.due, x)
          BY <1>1, <2>3, <2>6, <3>5 DEF DueAfter
        <4> QED
          BY <1>4, <3>4, <4>1, <4>2 DEF WithLine
      <3>6. CASE ~r.reread
        <4>1. r.due = r.recent \o r.queue
          BY <3>2, <3>6, PendingFresh DEF Viewing
        <4>2. \A y \in Range(r.due) : y \in LinesOf(r)
          BY <2>1, <4>1, JoinedLines DEF LinesOf
        <4>3. \A y \in HadOrDue(r) : y.line < x.line
          BY <3>6, <4>2 DEF HadOrDue, LinesOf
        <4>4. \A y \in HadOrDue(r) : y.line # x.line
          <5>1. HadOrDue(r) \subseteq Entry
            BY <2>1, <4>2 DEF HadOrDue, LinesOf
          <5> QED
            BY <4>3, <5>1, LineNumbers
        <4>5. ~KnownLine(r, x) /\ x \notin Range(r.due)
          BY <4>4 DEF KnownLine, LinesIn, HadOrDue
        <4> QED
          BY <1>4, <2>3, <3>4, <4>5 DEF DueAfter, WithLine
      <3> QED
        BY <3>5, <3>6
    <2>7. Viewing(c)
      BY <1>1, <1>4, <2>4, <2>6 DEF Viewing, Remembers, OwedExact
    <2> QED
      BY <1>1, <2>5, <2>7 DEF c
  <1> QED
    BY <1>2, <1>3, <1>4

CalledThrough(r, new, n) ==
    \E t \in [0..n -> Viewings] :
        t[0] = r /\ (\A k \in 1..n : t[k] = Called(t[k - 1], new[k])) /\ FoldLeft(Called, r, new) = t[n]

LEMMA CallSteps ==
    ASSUME NEW r \in Viewings, NEW new \in Seq(Entry)
    PROVE  CalledThrough(r, new, Len(new))
  <1> DEFINE n == Len(new)
             F == [p \in Viewings \X (1..n) |-> Called(p[1], new[p[2]])]
             Equation(it) == it = [s \in SUBSET (DOMAIN new) |->
                                     IF s = {} THEN r ELSE Called(it[s \ {Max(s)}], new[Max(s)])]
             chosen == CHOOSE it : Equation(it)
  <1>n. n \in Nat /\ DOMAIN new = 1..n /\ \A i \in 1..n : new[i] \in Entry
    OBVIOUS
  <1>c. \A g \in Viewings, x \in Entry : Called(g, x) \in Viewings
    BY CalledFields
  <1>1. F \in [Viewings \X (1..n) -> Viewings]
    BY <1>n, <1>c
  <1>2. PICK it \in [SUBSET (1..n) -> Viewings] : Iterates(it, n, r, F)
    <2> HIDE DEF F, n
    <2> QED
      BY <1>n, <1>1, IterationExists DEF Iterable
  <1>3. Equation(it)
    <2>1. \A s \in SUBSET (1..n) : s # {} => Max(s) \in 1..n /\ it[s \ {Max(s)}] \in Viewings
      <3> HIDE DEF n
      <3> QED
        BY <1>n, Largest
    <2>2. \A s \in SUBSET (1..n) :
             s # {} => F[<<it[s \ {Max(s)}], Max(s)>>] = Called(it[s \ {Max(s)}], new[Max(s)])
      BY <2>1
    <2> HIDE DEF F, n
    <2> QED
      BY <1>n, <1>2, <2>2 DEF Iterates
  <1>4. Equation(chosen)
    BY <1>3, Zenon
  <1>5. FoldLeft(Called, r, new) = chosen[DOMAIN new]
    BY Zenon DEF FoldLeft, MapThenFoldSet
  <1> HIDE DEF chosen, n
  <1>6. /\ chosen[1..0] = r
        /\ \A k \in 1..n : chosen[1..k] = Called(chosen[1..(k - 1)], new[k])
    <2>1. \A s \in SUBSET (1..n) :
             chosen[s] = IF s = {} THEN r ELSE Called(chosen[s \ {Max(s)}], new[Max(s)])
      BY <1>n, <1>4
    <2>2. chosen[1..0] = r
      <3>1. 1..0 = {} /\ {} \in SUBSET (1..n)
        OBVIOUS
      <3> QED
        BY <2>1, <3>1
    <2>3. ASSUME NEW k \in 1..n PROVE chosen[1..k] = Called(chosen[1..(k - 1)], new[k])
      <3>1. 1..k \in SUBSET (1..n) /\ 1..k # {} /\ Max(1..k) = k /\ (1..k) \ {k} = 1..(k - 1)
        BY <1>n, Prefix
      <3> QED
        BY <2>1, <3>1
    <2> QED
      BY <2>2, <2>3
  <1>7. \A k \in Nat : k <= n => chosen[1..k] \in Viewings
    <2> DEFINE S == {j \in Nat : j <= n => chosen[1..j] \in Viewings}
    <2>1. 0 \in S
      BY <1>6
    <2>2. ASSUME NEW k \in Nat, k \in S PROVE k + 1 \in S
      <3> SUFFICES ASSUME k + 1 <= n PROVE chosen[1..(k + 1)] \in Viewings
        OBVIOUS
      <3>1. k + 1 \in 1..n /\ k + 1 - 1 = k /\ chosen[1..k] \in Viewings
        BY <1>n, <2>2
      <3>2. chosen[1..(k + 1)] = Called(chosen[1..k], new[k + 1])
        BY <1>6, <3>1
      <3> QED
        BY <1>n, <1>c, <3>1, <3>2
    <2> HIDE DEF S
    <2>3. \A k \in Nat : k \in S
      BY <2>1, <2>2, Induction
    <2> QED
      BY <2>3 DEF S
  <1> DEFINE t == [k \in 0..n |-> chosen[1..k]]
  <1>8. t \in [0..n -> Viewings]
    BY <1>n, <1>7
  <1>9. t[0] = r /\ \A k \in 1..n : t[k] = Called(t[k - 1], new[k])
    BY <1>n, <1>6
  <1>10. FoldLeft(Called, r, new) = t[n]
    BY <1>n, <1>5
  <1> HIDE DEF t
  <1> QED
    BY <1>8, <1>9, <1>10 DEF CalledThrough, n

\* A viewer is called with new lines, one after the other.
LEMMA CallsKeep ==
    ASSUME NEW r \in Viewings, NEW new \in Seq(Entry), Increasing(new), Viewing(r),
           ~r.reread => Ordered(r) /\ \A y \in LinesOf(r), z \in Range(new) : y.line < z.line
    PROVE  LET c == FoldLeft(Called, r, new)
           IN  /\ c \in Viewings /\ Viewing(c) /\ c.reread = r.reread
               /\ ~r.reread => Ordered(c) /\ LinesOf(c) \subseteq LinesOf(r) \cup Range(new)
  <1> DEFINE n == Len(new)
             AfterCalls(c, k) == /\ c \in Viewings /\ Viewing(c) /\ c.reread = r.reread
                                 /\ ~r.reread =>
                                       /\ Ordered(c)
                                       /\ \A y \in LinesOf(c) : y \in LinesOf(r) \/ \E j \in 1..k : y = new[j]
  <1>1. n \in Nat /\ Range(new) = {new[i] : i \in 1..n} /\ \A i \in 1..n : new[i] \in Entry
    <2>1. Range(new) = {new[i] : i \in 1..n}
      BY LinesAll
    <2> QED
      BY <2>1
  <1>2. PICK t \in [0..n -> Viewings] :
            t[0] = r /\ (\A k \in 1..n : t[k] = Called(t[k - 1], new[k])) /\ FoldLeft(Called, r, new) = t[n]
    BY CallSteps DEF CalledThrough
  <1>3. \A j, k \in 1..n : j < k => new[j].line < new[k].line
    BY DEF Increasing
  <1> HIDE DEF n
  <1> DEFINE S == {k \in Nat : k <= n => AfterCalls(t[k], k)}
  <1>4. 0 \in S
    BY <1>1, <1>2
  <1>5. ASSUME NEW k \in Nat, k \in S PROVE k + 1 \in S
    <2> SUFFICES ASSUME k + 1 <= n PROVE AfterCalls(t[k + 1], k + 1)
      OBVIOUS
    <2> DEFINE g == t[k]
               x == new[k + 1]
               c == Called(g, x)
    <2>1. k + 1 \in 1..n /\ k + 1 - 1 = k /\ x \in Entry /\ \A j \in 1..k : j \in 1..n /\ j \in 1..(k + 1) /\ j < k + 1
      BY <1>1
    <2>2. AfterCalls(g, k) /\ t[k + 1] = c
      BY <1>1, <1>2, <1>5, <2>1
    <2>3. \A j \in 1..k : new[j].line < x.line
      BY <1>3, <2>1
    <2>4. \A y \in LinesOf(r) : ~r.reread => y.line < x.line
      BY <1>1, <2>1
    <2>7. x = new[k + 1]
      OBVIOUS
    <2> HIDE DEF g, x
    <2>5. ~g.reread => Ordered(g) /\ \A y \in LinesOf(g) : y.line < x.line
      BY <2>2, <2>3, <2>4
    <2>6. /\ c \in Viewings /\ Viewing(c) /\ c.reread = g.reread
          /\ ~g.reread => Ordered(c) /\ LinesOf(c) \subseteq LinesOf(g) \cup {x}
      BY <2>1, <2>2, <2>5, CalledKeeps
    <2> HIDE DEF c
    <2>8. AfterCalls(c, k + 1)
      BY <2>1, <2>2, <2>6, <2>7
    <2> QED
      BY <2>2, <2>8
  <1>6. n \in S
    <2> HIDE DEF S
    <2> QED
      BY <1>1, <1>4, <1>5, Induction
  <1>7. AfterCalls(t[n], n)
    BY <1>1, <1>6
  <1> QED
    BY <1>1, <1>2, <1>7

--------------------------------------------------------------------------------
(* The viewers are sent their lines.                                       *)

SentTo(c, r, x, s) ==
    /\ c \in Viewings /\ c.on = r.on /\ c.recent = r.recent /\ c.queue = r.queue
    /\ c.overflown = r.overflown /\ c.reread = r.reread /\ c.restamped = r.restamped
    /\ c.sent = s /\ c.had = r.had \cup {x} /\ c.forgot = (r.forgot \/ s = {})
    /\ c.due = IF r.due # << >> /\ Head(r.due) = x THEN Tail(r.due) ELSE r.due

LEMMA SentFields ==
    ASSUME NEW r \in Viewings, NEW x \in Entry, NEW s \in SUBSET Entry
    PROVE  SentTo(Sent(r, x, s), r, x, s)
  <1> DEFINE h == r.had \cup {x}
             f == r.forgot \/ s = {}
             d == IF r.due # << >> /\ Head(r.due) = x THEN Tail(r.due) ELSE r.due
             c == [r EXCEPT !.sent = s, !.had = h, !.forgot = f, !.due = d]
  <1>1. Sent(r, x, s) = c
    BY DEF Sent, Viewings
  <1>2. h \in SUBSET Entry /\ f \in BOOLEAN
    BY DEF Viewings
  <1>3. d \in Seq(Entry)
    BY DEF Viewings
  <1>4. h = r.had \cup {x} /\ f = (r.forgot \/ s = {})
        /\ d = IF r.due # << >> /\ Head(r.due) = x THEN Tail(r.due) ELSE r.due
    OBVIOUS
  <1> HIDE DEF h, f, d
  <1>5. /\ c \in Viewings /\ c.on = r.on /\ c.recent = r.recent /\ c.queue = r.queue
        /\ c.overflown = r.overflown /\ c.reread = r.reread /\ c.restamped = r.restamped
        /\ c.sent = s /\ c.had = h /\ c.forgot = f /\ c.due = d
    BY <1>2, <1>3 DEF Viewings
  <1> HIDE DEF c
  <1> QED
    BY <1>1, <1>4, <1>5 DEF SentTo

\* The rest of the buffered lines, or of the queue.
LEMMA LessRecent ==
    ASSUME NEW r \in Viewings, r.recent # << >>
    PROVE  LET c == [r EXCEPT !.recent = Tail(@)]
           IN  /\ c \in Viewings /\ c.on = r.on /\ c.recent = Tail(r.recent) /\ c.queue = r.queue
               /\ c.overflown = r.overflown /\ c.reread = r.reread /\ c.restamped = r.restamped
               /\ c.sent = r.sent /\ c.had = r.had /\ c.forgot = r.forgot /\ c.due = r.due
  <1>1. Tail(r.recent) \in Seq(Entry)
    BY DEF Viewings
  <1> DEFINE q == Tail(r.recent)
             c == [r EXCEPT !.recent = q]
  <1>2. [r EXCEPT !.recent = Tail(@)] = c /\ q = Tail(r.recent)
    BY DEF Viewings
  <1> HIDE DEF q
  <1>3. /\ c \in Viewings /\ c.on = r.on /\ c.recent = q /\ c.queue = r.queue
        /\ c.overflown = r.overflown /\ c.reread = r.reread /\ c.restamped = r.restamped
        /\ c.sent = r.sent /\ c.had = r.had /\ c.forgot = r.forgot /\ c.due = r.due
    BY <1>1, <1>2 DEF Viewings
  <1> QED
    BY <1>2, <1>3

LEMMA LessQueue ==
    ASSUME NEW r \in Viewings, r.queue # << >>
    PROVE  LET c == [r EXCEPT !.queue = Tail(@)]
           IN  /\ c \in Viewings /\ c.on = r.on /\ c.queue = Tail(r.queue) /\ c.recent = r.recent
               /\ c.overflown = r.overflown /\ c.reread = r.reread /\ c.restamped = r.restamped
               /\ c.sent = r.sent /\ c.had = r.had /\ c.forgot = r.forgot /\ c.due = r.due
  <1>1. Tail(r.queue) \in Seq(Shown)
    BY DEF Viewings
  <1> DEFINE q == Tail(r.queue)
             c == [r EXCEPT !.queue = q]
  <1>2. [r EXCEPT !.queue = Tail(@)] = c /\ q = Tail(r.queue)
    BY DEF Viewings
  <1> HIDE DEF q
  <1>3. /\ c \in Viewings /\ c.on = r.on /\ c.queue = q /\ c.recent = r.recent
        /\ c.overflown = r.overflown /\ c.reread = r.reread /\ c.restamped = r.restamped
        /\ c.sent = r.sent /\ c.had = r.had /\ c.forgot = r.forgot /\ c.due = r.due
    BY <1>1, <1>2 DEF Viewings
  <1> QED
    BY <1>2, <1>3

LEMMA RecentSent ==
    ASSUME NEW r \in Viewings, Viewing(r), r.recent # << >>, ~r.reread => Ordered(r)
    PROVE  LET c == [Sent(r, Head(r.recent), r.sent \cup {Head(r.recent)}) EXCEPT !.recent = Tail(@)]
           IN  /\ c \in Viewings /\ Viewing(c) /\ c.reread = r.reread
               /\ ~r.reread => Ordered(c) /\ LinesOf(c) \subseteq LinesOf(r)
  <1> DEFINE h == Head(r.recent)
             rest == Tail(r.recent)
             s == r.sent \cup {h}
             m == Sent(r, h, s)
             c == [m EXCEPT !.recent = Tail(@)]
             later == MergedQueue(s, rest, r.queue)
  <1>1. /\ r.recent \in Seq(Entry) /\ r.queue \in Seq(Entry) /\ r.due \in Seq(Entry)
        /\ rest \in Seq(Entry) /\ Len(rest) = Len(r.recent) - 1 /\ h \in Entry
        /\ r.recent = <<h>> \o rest
        /\ Range(r.recent) = {h} \cup Range(rest)
        /\ Increasing(r.recent) => Increasing(rest) /\ \A y \in Range(rest) : h.line < y.line
    <2>1. r.recent \in Seq(Entry) /\ r.queue \in Seq(Entry) /\ r.due \in Seq(Entry)
      BY QueuedLines
    <2> QED
      BY <2>1, LinesAfter
  <1>2. r.on
    BY DEF Viewing, Unconnected
  <1>3. s \in SUBSET Entry /\ s # {} /\ s = r.sent \cup {h}
    BY <1>1 DEF Viewings
  <1>4. later \in Seq(Entry) /\ Pending(r) = <<h>> \o later
    <2> HIDE DEF h, rest
    <2>1. \A e : MergedQueue(e, rest, r.queue) \in Seq(Entry)
      BY <1>1, MergedLines
    <2>4. h \in Entry /\ rest \in Seq(Entry) /\ r.queue \in Seq(Entry)
      BY <1>1
    <2>2. MergedQueue(r.sent, <<h>> \o rest, r.queue) = <<h>> \o MergedQueue(r.sent \cup {h}, rest, r.queue)
      <3>1. \A e : \A t, q \in Seq(Entry) : MergedQueue(e, <<h>> \o t, q) = <<h>> \o MergedQueue(e \cup {h}, t, q)
        BY <2>4, MergeHead, Zenon
      <3> QED
        BY <2>4, <3>1
    <2>3. Pending(r) = MergedQueue(r.sent, <<h>> \o rest, r.queue)
      BY <1>1, PendingMerged
    <2> QED
      BY <2>1, <2>2, <2>3
  <1>5. Len(rest) <= RecentSize
    BY <1>1, ConsoleAssumption DEF Viewing
  <1> HIDE DEF h, rest, s, later
  <1>6. /\ m \in Viewings /\ m.on = r.on /\ m.recent = r.recent /\ m.queue = r.queue
        /\ m.overflown = r.overflown /\ m.reread = r.reread /\ m.restamped = r.restamped
        /\ m.sent = s /\ m.had = r.had \cup {h} /\ m.forgot = (r.forgot \/ s = {})
        /\ m.due = IF r.due # << >> /\ Head(r.due) = h THEN Tail(r.due) ELSE r.due
    <2>1. SentTo(m, r, h, s)
      BY <1>1, <1>3, SentFields
    <2> HIDE DEF m
    <2> QED
      BY <2>1 DEF SentTo
  <1> HIDE DEF m
  <1>7. /\ c \in Viewings /\ c.on = r.on /\ c.recent = rest /\ c.queue = r.queue
        /\ c.overflown = r.overflown /\ c.reread = r.reread /\ c.restamped = r.restamped
        /\ c.sent = s /\ c.had = r.had \cup {h} /\ c.forgot = r.forgot /\ c.due = m.due
    <2>1. r.forgot \in BOOLEAN
      BY DEF Viewings
    <2> QED
      BY <1>3, <1>6, <2>1, LessRecent DEF rest
  <1> HIDE DEF c
  <1>8. Remembers(c)
    BY <1>3, <1>7 DEF Viewing, Remembers
  <1>9. ASSUME c.on, ~c.overflown, ~(c.reread /\ (c.forgot \/ c.restamped)) PROVE Pending(c) = c.due
    <2>1. r.due = <<h>> \o later
      BY <1>4, <1>7, <1>9 DEF Viewing, OwedExact
    <2>2. r.due # << >> /\ Head(r.due) = h /\ Tail(r.due) = later
      BY <1>1, <1>4, <2>1
    <2>3. c.due = later
      BY <1>6, <1>7, <2>2
    <2>4. Pending(c) = MergedQueue(s, rest, r.queue)
      BY <1>7, PendingMerged
    <2> QED
      BY <2>3, <2>4 DEF later
  <1>10. Viewing(c)
    BY <1>2, <1>5, <1>7, <1>8, <1>9 DEF Viewing, OwedExact
  <1>11. ASSUME ~r.reread PROVE Ordered(c) /\ LinesOf(c) \subseteq LinesOf(r)
    <2>1. Ordered(r)
      BY <1>11
    <2>2. Increasing(rest) /\ (\A y \in Range(rest) : h.line < y.line) /\ Increasing(r.queue)
      BY <1>1, <2>1 DEF Ordered
    <2>3. \A x \in Range(rest), y \in Range(r.queue) : x.line < y.line
      BY <1>1, <2>1 DEF Ordered
    <2>4. \A x \in r.had \cup {h}, y \in Range(rest) \cup Range(r.queue) : x.line < y.line
      BY <1>1, <2>1, <2>2 DEF Ordered
    <2>5. LinesOf(c) \subseteq LinesOf(r)
      BY <1>1, <1>7 DEF LinesOf
    <2> QED
      BY <1>7, <2>2, <2>3, <2>4, <2>5 DEF Ordered
  <1> QED
    BY <1>7, <1>10, <1>11 DEF c, m, s, h

LEMMA FirstOfLines ==
    ASSUME NEW x \in Entry, NEW t \in Seq(Entry)
    PROVE  <<x>> \o t # << >> /\ Head(<<x>> \o t) = x /\ Tail(<<x>> \o t) = t
  <1> DEFINE d == <<x>> \o t
             n == Len(t)
  <1>1. n \in Nat /\ d \in Seq(Entry) /\ Len(d) = n + 1 /\ d[1] = x /\ \A i \in 1..n : d[i + 1] = t[i]
    OBVIOUS
  <1> HIDE DEF d
  <1>2. d # << >>
    BY <1>1
  <1>3. Head(d) = x
    BY <1>1, <1>2
  <1>4. Tail(d) \in Seq(Entry) /\ Len(Tail(d)) = n
    BY <1>1, <1>2
  <1>5. \A i \in 1..n : Tail(d)[i] = t[i]
    BY <1>1, <1>2
  <1>6. Tail(d) = t
    BY <1>4, <1>5, SeqEqual
  <1> QED
    BY <1>2, <1>3, <1>6 DEF d

LEMMA QueuedSent ==
    ASSUME NEW r \in Viewings, Viewing(r), r.on, r.recent = << >>, r.queue # << >>, ~r.reread => Ordered(r)
    PROVE  LET x == Head(r.queue)
               c == [(IF x \in r.sent THEN r ELSE Sent(r, x, Remembering(r.sent \cup {x}))) EXCEPT !.queue = Tail(@)]
           IN  /\ c \in Viewings /\ Viewing(c) /\ c.reread = r.reread
               /\ ~r.reread => Ordered(c) /\ LinesOf(c) \subseteq LinesOf(r)
  <1> DEFINE x == Head(r.queue)
             rest == Tail(r.queue)
             s == Remembering(r.sent \cup {x})
             m == IF x \in r.sent THEN r ELSE Sent(r, x, s)
             c == [m EXCEPT !.queue = Tail(@)]
  <1>1. /\ r.recent \in Seq(Entry) /\ r.queue \in Seq(Entry) /\ r.due \in Seq(Entry)
        /\ rest \in Seq(Entry) /\ Len(rest) = Len(r.queue) - 1 /\ x \in Entry
        /\ r.queue = <<x>> \o rest
        /\ Range(r.queue) = {x} \cup Range(rest)
        /\ Increasing(r.queue) => Increasing(rest) /\ \A y \in Range(rest) : x.line < y.line
    <2>1. r.recent \in Seq(Entry) /\ r.queue \in Seq(Entry) /\ r.due \in Seq(Entry)
      BY QueuedLines
    <2> QED
      BY <2>1, LinesAfter
  <1>2. s \in SUBSET Entry /\ (s = {} \/ s = r.sent \cup {x})
    BY <1>1 DEF Remembering, Viewings
  <1>3. Pending(r) = MergedQueue(r.sent, WithLine(r.sent, << >>, x), rest)
    <2>1. << >> \in Seq(Entry)
      OBVIOUS
    <2>2. MergedQueue(r.sent, << >>, r.queue) = MergedQueue(r.sent, WithLine(r.sent, << >>, Head(r.queue)), Tail(r.queue))
      BY <1>1, <2>1, MergeFirst
    <2> QED
      BY <2>2, PendingMerged
  <1>4. Range(<< >>) = {}
    <2>1. << >> \in Seq(Entry) /\ Len(<< >>) = 0
      OBVIOUS
    <2>2. Range(<< >>) = {<< >>[i] : i \in 1..Len(<< >>)}
      BY <2>1, LinesAll
    <2> QED
      BY <2>1, <2>2
  <1>5. Len(rest) <= QueueSize
    BY <1>1, ConsoleAssumption DEF Viewing
  <1>0. /\ x = Head(r.queue) /\ rest = Tail(r.queue) /\ s = Remembering(r.sent \cup {x})
        /\ c = [(IF x \in r.sent THEN r ELSE Sent(r, x, s)) EXCEPT !.queue = Tail(@)]
    OBVIOUS
  <1> SUFFICES /\ c \in Viewings /\ Viewing(c) /\ c.reread = r.reread
               /\ ~r.reread => Ordered(c) /\ LinesOf(c) \subseteq LinesOf(r)
    OBVIOUS
  <1> HIDE DEF x, rest, s
  <1>6. CASE x \in r.sent
    <2>1. /\ c \in Viewings /\ c.on = r.on /\ c.queue = rest /\ c.recent = r.recent
          /\ c.overflown = r.overflown /\ c.reread = r.reread /\ c.restamped = r.restamped
          /\ c.sent = r.sent /\ c.had = r.had /\ c.forgot = r.forgot /\ c.due = r.due
      BY <1>0, <1>6, LessQueue
    <2> HIDE DEF c
    <2>2. Pending(c) = Pending(r)
      <3>1. WithLine(r.sent, << >>, x) = << >>
        BY <1>6 DEF WithLine
      <3> QED
        BY <1>3, <2>1, <3>1, PendingMerged
    <2>3. Viewing(c)
      BY <1>5, <2>1, <2>2 DEF Viewing, OwedExact, Remembers
    <2>4. ASSUME ~r.reread PROVE Ordered(c) /\ LinesOf(c) \subseteq LinesOf(r)
      <3>1. Ordered(r)
        BY <2>4
      <3>2. Increasing(rest) /\ Range(rest) \subseteq Range(r.queue)
        BY <1>1, <3>1 DEF Ordered
      <3> QED
        BY <2>1, <3>1, <3>2 DEF Ordered, LinesOf
    <2> QED
      BY <2>1, <2>3, <2>4
  <1>7. CASE x \notin r.sent
    <2>1. /\ m \in Viewings /\ m.on = r.on /\ m.recent = r.recent /\ m.queue = r.queue
          /\ m.overflown = r.overflown /\ m.reread = r.reread /\ m.restamped = r.restamped
          /\ m.sent = s /\ m.had = r.had \cup {x} /\ m.forgot = (r.forgot \/ s = {})
          /\ m.due = IF r.due # << >> /\ Head(r.due) = x THEN Tail(r.due) ELSE r.due
      <3>1. SentTo(m, r, x, s)
        BY <1>1, <1>2, <1>7, SentFields
      <3> HIDE DEF m
      <3> QED
        BY <3>1 DEF SentTo
    <2> HIDE DEF m
    <2>2. /\ c \in Viewings /\ c.on = r.on /\ c.recent = r.recent /\ c.queue = rest
          /\ c.overflown = r.overflown /\ c.reread = r.reread /\ c.restamped = r.restamped
          /\ c.sent = s /\ c.had = r.had \cup {x} /\ c.forgot = m.forgot /\ c.due = m.due
      BY <1>0, <2>1, LessQueue
    <2> HIDE DEF c
    <2>3. Remembers(c)
      <3>1. c.sent \subseteq c.had
        BY <1>2, <2>2 DEF Viewing, Remembers
      <3>2. ASSUME ~c.forgot PROVE c.sent = c.had
        BY <1>2, <2>1, <2>2, <3>2 DEF Viewing, Remembers
      <3> QED
        BY <3>1, <3>2 DEF Remembers
    <2>4. ASSUME ~r.reread PROVE Ordered(c) /\ LinesOf(c) \subseteq LinesOf(r)
      <3>1. Ordered(r)
        BY <2>4
      <3>2. Increasing(rest) /\ (\A y \in Range(rest) : x.line < y.line) /\ Increasing(r.recent)
        BY <1>1, <3>1 DEF Ordered
      <3>3. \A y \in Range(r.recent), z \in Range(rest) : y.line < z.line
        BY <1>1, <3>1 DEF Ordered
      <3>4. \A y \in r.had \cup {x}, z \in Range(r.recent) \cup Range(rest) : y.line < z.line
        BY <1>1, <1>4, <3>1, <3>2 DEF Ordered
      <3>5. LinesOf(c) \subseteq LinesOf(r)
        BY <1>1, <2>2 DEF LinesOf
      <3> QED
        BY <2>2, <3>2, <3>3, <3>4, <3>5 DEF Ordered
    <2>5. ASSUME c.on, ~c.overflown, ~(c.reread /\ (c.forgot \/ c.restamped)) PROVE Pending(c) = c.due
      <3>1. Pending(r) = r.due
        BY <2>1, <2>2, <2>5 DEF Viewing, OwedExact
      <3>2. CASE s = {}
        <4>1. ~r.reread
          BY <2>1, <2>2, <2>5, <3>2
        <4>2. Pending(r) = r.recent \o r.queue
          BY <4>1, PendingFresh DEF Viewing
        <4>3. r.due = r.queue
          BY <1>1, <3>1, <4>2
        <4>4. c.due = rest
          <5>1. r.due # << >> /\ Head(r.due) = x /\ Tail(r.due) = rest
            BY <1>0, <4>3
          <5> QED
            BY <2>1, <2>2, <5>1
        <4>5. Pending(c) = c.recent \o c.queue
          BY <2>2, <2>3, <2>4, <4>1, PendingFresh
        <4>6. c.recent = << >>
          BY <2>2
        <4> QED
          BY <1>1, <2>2, <4>4, <4>5, <4>6
      <3>3. CASE s = r.sent \cup {x}
        <4> DEFINE later == MergedQueue(s, << >>, rest)
        <4>1. << >> \in Seq(Entry) /\ Append(<< >>, x) = <<x>> \o << >>
          BY <1>1
        <4>2. WithLine(r.sent, << >>, x) = <<x>> \o << >>
          BY <1>4, <1>7, <4>1 DEF WithLine
        <4>3. /\ MergedQueue(r.sent \cup {x}, << >>, rest) \in Seq(Entry)
              /\ MergedQueue(r.sent, <<x>> \o << >>, rest) = <<x>> \o MergedQueue(r.sent \cup {x}, << >>, rest)
          <5>1. \A e : \A t \in Seq(Entry) : MergedQueue(e, t, rest) \in Seq(Entry)
            BY <1>1, MergedLines
          <5>3. x \in Entry /\ rest \in Seq(Entry)
            BY <1>1
          <5>2. \A e : \A t \in Seq(Entry) : MergedQueue(e, <<x>> \o t, rest) = <<x>> \o MergedQueue(e \cup {x}, t, rest)
            BY <5>3, MergeHead, Zenon
          <5> QED
            BY <4>1, <5>1, <5>2
        <4>4. later \in Seq(Entry) /\ r.due = <<x>> \o later
          BY <1>3, <3>1, <3>3, <4>2, <4>3
        <4>5. Pending(c) = later
          BY <2>2, PendingMerged
        <4> HIDE DEF later
        <4>6. r.due # << >> /\ Head(r.due) = x /\ Tail(r.due) = later
          BY <1>1, <4>4, FirstOfLines
        <4> QED
          BY <2>1, <2>2, <4>5, <4>6
      <3> QED
        BY <1>2, <3>2, <3>3
    <2>6. Viewing(c)
      BY <1>5, <2>2, <2>3, <2>5 DEF Viewing, OwedExact
    <2> QED
      BY <2>2, <2>4, <2>6
  <1> QED
    BY <1>6, <1>7

\* A new viewer is owed the buffered lines.
LEMMA Connected ==
    ASSUME NEW logs \in Seq(Entry), Increasing(logs), Len(logs) <= RecentSize
    PROVE  LET c == [Unconnected EXCEPT !.on = TRUE, !.recent = logs, !.due = logs]
           IN  c \in Viewings /\ Viewing(c) /\ Ordered(c) /\ LinesOf(c) = Range(logs)
  <1> DEFINE c == [Unconnected EXCEPT !.on = TRUE, !.recent = logs, !.due = logs]
  <1>1. /\ c.on = TRUE /\ c.recent = logs /\ c.due = logs /\ c.queue = << >> /\ c.sent = {} /\ c.had = {}
        /\ c.overflown = FALSE /\ c.forgot = FALSE /\ c.reread = FALSE /\ c.restamped = FALSE
    BY DEF Unconnected
  <1>2. << >> \in Seq(Shown) /\ Len(<< >>) = 0 /\ << >> \in Seq(Entry)
    OBVIOUS
  <1>3. c \in Viewings
    BY <1>2 DEF Unconnected, Viewings
  <1>4. Range(<< >>) = {}
    <2>1. Range(<< >>) = {<< >>[i] : i \in 1..Len(<< >>)}
      BY <1>2, LinesAll
    <2> QED
      BY <1>2, <2>1
  <1> HIDE DEF c
  <1>5. Pending(c) = c.due
    BY <1>1, MergeNothing, PendingMerged
  <1>6. Viewing(c)
    BY <1>1, <1>2, <1>5, ConsoleAssumption DEF Viewing, Remembers, OwedExact
  <1>7. Ordered(c) /\ LinesOf(c) = Range(logs)
    BY <1>1, <1>2, <1>4 DEF Ordered, LinesOf, Increasing
  <1> QED
    BY <1>3, <1>6, <1>7 DEF c

--------------------------------------------------------------------------------
(* The lines of the log, of the buffer and of the viewers.                 *)

\* The lines that come before everything that the tailer will still read.
Past ==
    {y \in Entry : /\ y.line <= logged
                   /\ \A i \in 1..Len(latestLog) :
                         i > ReadFrom \/ position > Len(latestLog) => y.line < latestLog[i]}

\* Numbers of lines that were logged one after the other.
Ascending(s) == \A i, j \in 1..Len(s) : i < j => s[i] < s[j]

\* The log and the buffer are in order, and the buffer holds what was read.
LinesInv ==
    /\ latestLog \in Seq(Lines) /\ Ascending(latestLog)
    /\ Len(latestLog) <= logged /\ \A i \in 1..Len(latestLog) : latestLog[i] <= logged
    /\ logged \in 0..MaxLogged /\ position \in 0..MaxLogged
    /\ inode \in {"none", "same", "other", "reused"}
    /\ logBuffer \in Seq(Entry) /\ Increasing(logBuffer) /\ Len(logBuffer) <= BufferSize
    /\ Range(logBuffer) \subseteq Past

\* A viewer whose lines were not read again has only lines from before the rest.
Behind(r, lines) == ~r.reread => Ordered(r) /\ LinesOf(r) \subseteq lines

ViewersInv ==
    /\ viewer \in [Viewers -> Viewings]
    /\ \A v \in Viewers : Viewing(viewer[v]) /\ Behind(viewer[v], Past)

LEMMA LineAddedPast ==
    ASSUME LinesInv, logged < MaxLogged, logged' = NextLine, latestLog' = Append(latestLog, NextLine),
           UNCHANGED inode, UNCHANGED <<position, logBuffer>>
    PROVE  LinesInv' /\ Past \subseteq Past'
  <1>1. NextLine \in Lines /\ NextLine = logged + 1 /\ logged' \in 0..MaxLogged /\ logged \in Nat /\ MaxLogged \in Nat
        /\ position \in Nat
    BY ConsoleAssumption DEF LinesInv, NextLine, Lines
  <1> DEFINE n == Len(latestLog)
  <1>2. /\ latestLog' \in Seq(Lines) /\ Len(latestLog') = n + 1 /\ n \in Nat
        /\ \A i \in 1..n : latestLog'[i] = latestLog[i] /\ latestLog[i] \in Lines
        /\ latestLog'[n + 1] = NextLine
    BY <1>1 DEF LinesInv
  <1>3. n <= logged /\ \A i \in 1..n : latestLog[i] <= logged /\ latestLog[i] \in Nat
    BY <1>2, LineNumbers DEF LinesInv
  <1>4. \A i, j \in 1..n : i < j => latestLog[i] < latestLog[j]
    BY DEF LinesInv, Ascending, Increasing
  <1>p. ASSUME NEW y \in Past PROVE y \in Past'
    <2>1. y \in Entry /\ y.line \in Nat /\ y.line <= logged
      BY LineNumbers DEF Past
    <2>2. ASSUME NEW i \in 1..(n + 1), i > ReadFrom' \/ position > n + 1 PROVE y.line < latestLog'[i]
      <3>1. CASE i = n + 1
        BY <1>1, <1>2, <2>1, <3>1
      <3>2. CASE i # n + 1
        <4>1. i \in 1..n
          BY <1>2, <3>2
        <4>2. i > ReadFrom \/ position > n
          BY <1>1, <1>2, <2>2, <3>2 DEF ReadFrom, LogReplaced
        <4>3. y.line < latestLog[i]
          BY <4>1, <4>2 DEF Past
        <4> QED
          BY <1>2, <4>1, <4>3
      <3> QED
        BY <3>1, <3>2
    <2>3. \A i \in 1..Len(latestLog') : i > ReadFrom' \/ position' > Len(latestLog') => y.line < latestLog'[i]
      BY <1>2, <2>2
    <2> QED
      BY <1>1, <2>1, <2>3 DEF Past
  <1> HIDE DEF n
  <1>5. \A i \in 1..(n + 1) : latestLog'[i] <= logged'
    <2>1. \A i \in 1..(n + 1) : i \in 1..n \/ i = n + 1
      BY <1>2
    <2> QED
      BY <1>1, <1>2, <1>3, <2>1
  <1>6. \A i, j \in 1..(n + 1) : i < j => latestLog'[i] < latestLog'[j]
    <2> SUFFICES ASSUME NEW i \in 1..(n + 1), NEW j \in 1..(n + 1), i < j PROVE latestLog'[i] < latestLog'[j]
      OBVIOUS
    <2>1. i \in 1..n
      BY <1>2
    <2>2. CASE j \in 1..n
      BY <1>2, <1>4, <2>1, <2>2
    <2>3. CASE j = n + 1
      BY <1>1, <1>2, <1>3, <2>1, <2>3
    <2> QED
      BY <1>2, <2>2, <2>3
  <1>7. Ascending(latestLog)'
    BY <1>2, <1>6 DEF Ascending
  <1>8. Len(latestLog') <= logged'
    BY <1>1, <1>2, <1>3
  <1>9. Range(logBuffer)' \subseteq Past'
    BY <1>p DEF LinesInv
  <1> QED
    BY <1>p, <1>1, <1>2, <1>5, <1>7, <1>8, <1>9 DEF LinesInv, Ascending, Increasing

LEMMA LogReplacedPast ==
    ASSUME LinesInv, NEW file \in Seq(Lines), Replaces(file), UNCHANGED <<position, logBuffer>>,
           \/ file = << >> /\ logged' = logged
           \/ file = <<NextLine>> /\ logged' = NextLine /\ logged < MaxLogged
    PROVE  LinesInv' /\ Past \subseteq Past'
  <1>1. /\ logged' \in 0..MaxLogged /\ logged \in Nat /\ logged <= logged' /\ latestLog' = file
        /\ inode' \in {"none", "same", "other", "reused"}
    BY ConsoleAssumption DEF LinesInv, NextLine, Replaces
  <1>2. /\ Len(file) <= logged' /\ Len(file) \in {0, 1}
        /\ \A i \in 1..Len(file) : file[i] = logged + 1 /\ logged' = logged + 1
    <2>1. CASE file = << >>
      <3>1. Len(file) = 0
        BY <2>1
      <3> QED
        BY <1>1, <3>1
    <2>2. CASE file = <<NextLine>> /\ logged' = NextLine
      <3>1. Len(file) = 1 /\ file[1] = NextLine /\ NextLine = logged + 1
        BY <2>2 DEF NextLine
      <3> QED
        BY <1>1, <2>2, <3>1
    <2> QED
      BY <2>1, <2>2
  <1>3. Ascending(file) /\ \A i \in 1..Len(file) : file[i] <= logged'
    BY <1>1, <1>2 DEF Ascending
  <1>4. ASSUME NEW y \in Past PROVE y \in Past'
    <2>1. y \in Entry /\ y.line \in Nat /\ y.line <= logged
      BY LineNumbers DEF Past
    <2>2. \A i \in 1..Len(file) : y.line < file[i]
      BY <1>1, <1>2, <2>1
    <2>3. y.line <= logged'
      BY <1>1, <2>1
    <2> QED
      BY <1>1, <2>1, <2>2, <2>3 DEF Past
  <1>5. Range(logBuffer)' \subseteq Past'
    BY <1>4 DEF LinesInv
  <1> QED
    BY <1>1, <1>2, <1>3, <1>4, <1>5 DEF LinesInv, Ascending, Increasing

\* A tailer at the end of the log has read everything.
LEMMA AllPast ==
    ASSUME LinesInv, UNCHANGED fileState, position' = Len(latestLog), inode' \in {"none", "same"}
    PROVE  /\ \A y \in Entry : y.line <= logged => y \in Past'
           /\ position' \in 0..MaxLogged
  <1>1. /\ latestLog' = latestLog /\ logged' = logged /\ Len(latestLog) \in Nat
        /\ Len(latestLog) <= logged /\ logged \in 0..MaxLogged /\ MaxLogged \in Nat
    BY ConsoleAssumption DEF LinesInv, fileState
  <1>2. ~LogReplaced'
    BY <1>1 DEF LogReplaced
  <1>3. ReadFrom' = Len(latestLog)
    BY <1>2 DEF ReadFrom
  <1>4. \A i \in 1..Len(latestLog') : ~(i > ReadFrom' \/ position' > Len(latestLog'))
    BY <1>1, <1>3
  <1>5. position' \in 0..MaxLogged
    BY <1>1
  <1> QED
    BY <1>1, <1>4, <1>5 DEF Past

LEMMA PastUnchanged ==
    ASSUME LinesInv, UNCHANGED <<fileState, inode, position, logBuffer>>
    PROVE  LinesInv' /\ Past' = Past
  <1>1. Past' = Past
    BY DEF Past, ReadFrom, LogReplaced, fileState
  <1> QED
    BY <1>1 DEF LinesInv, fileState, Increasing

\* The tailer reads lines that come after all that are past.
LEMMA ReadsNew ==
    ASSUME LinesInv, TailerReads
    PROVE  /\ NewLines \in Seq(Lines) /\ Ascending(NewLines)
           /\ \A y \in Past, z \in Range(NewLines) : y.line < z
           /\ \A y \in Entry : y \in Past \/ y.line \in Range(NewLines) => y \in Past'
           /\ position' \in 0..MaxLogged
  <1> DEFINE new == NewLines
             n == Len(latestLog)
             m == ReadFrom
  <1>1. /\ latestLog' = latestLog /\ logged' = logged /\ inode' = "same"
        /\ position' = IF m > n THEN m ELSE n
    BY DEF TailerReads, fileState
  <1>2. /\ latestLog \in Seq(Lines) /\ n \in Nat /\ m \in Nat /\ position \in 0..MaxLogged /\ logged \in 0..MaxLogged
        /\ n <= logged /\ m <= position /\ MaxLogged \in Nat
        /\ \A i \in 1..n : latestLog[i] \in Lines /\ latestLog[i] <= logged
        /\ \A i, j \in 1..n : i < j => latestLog[i] < latestLog[j]
    BY LineNumbers DEF LinesInv, ReadFrom, Ascending
  <1>9. m > n => m = position /\ position > n
    BY <1>2 DEF ReadFrom
  <1>10. \A y \in Past : /\ y \in Entry /\ y.line <= logged
                         /\ \A i \in 1..n : i > m \/ position > n => y.line < latestLog[i]
    BY DEF Past
  <1>0. new = SubSeq(latestLog, m + 1, n)
    BY DEF NewLines
  <1>p. position' \in 0..MaxLogged
    BY <1>1, <1>2
  <1> HIDE DEF new, m
  <1>3. new \in Seq(Lines) /\ DOMAIN new = 1..Len(new)
    <2>1. \A i \in (m + 1)..n : i \in 1..n
      BY <1>2
    <2> QED
      BY <1>0, <1>2, <2>1
  <1>4. \A i \in 1..Len(new) : m + i \in 1..n /\ m + i > m /\ new[i] = latestLog[m + i]
    BY <1>0, <1>2
  <1>5. Ascending(new)
    <2> SUFFICES ASSUME NEW i \in 1..Len(new), NEW j \in 1..Len(new), i < j PROVE new[i] < new[j]
      BY DEF Ascending
    <2>1. m + i \in 1..n /\ m + j \in 1..n /\ m + i < m + j
      BY <1>2, <1>4
    <2>2. latestLog[m + i] < latestLog[m + j]
      BY <1>2, <2>1
    <2> QED
      BY <1>4, <2>2
  <1>6. Range(new) = {new[i] : i \in 1..Len(new)}
    BY <1>3, LinesAll
  <1>7. \A y \in Past, z \in Range(new) : y.line < z
    <2> TAKE y \in Past, z \in Range(new)
    <2>1. PICK i \in 1..Len(new) : z = new[i]
      BY <1>6
    <2>2. m + i \in 1..n /\ m + i > m /\ z = latestLog[m + i]
      BY <1>4, <2>1
    <2> QED
      BY <1>10, <2>2
  <1>8. ASSUME NEW y \in Entry, y \in Past \/ y.line \in Range(new) PROVE y \in Past'
    <2>1. y.line <= logged
      <3>1. CASE y \in Past
        BY <1>10, <3>1
      <3>2. CASE y.line \in Range(new)
        BY <1>2, <1>4, <1>6, <3>2
      <3> QED
        BY <1>8, <3>1, <3>2
    <2>2. CASE m <= n
      <3>1. position' = Len(latestLog) /\ inode' \in {"none", "same"} /\ UNCHANGED fileState
        BY <1>1, <1>2, <2>2 DEF fileState
      <3> QED
        BY <2>1, <3>1, AllPast
    <2>3. CASE m > n
      <3>1. m = position /\ position > n
        BY <1>9, <2>3
      <3>2. Range(new) = {}
        <4>1. \A i \in 1..Len(new) : FALSE
          BY <1>2, <1>4, <2>3
        <4> QED
          BY <1>6, <4>1
      <3>3. \A i \in 1..n : y.line < latestLog[i]
        BY <1>8, <1>10, <3>1, <3>2
      <3> QED
        BY <1>1, <2>1, <3>3 DEF Past
    <2> QED
      BY <1>2, <2>2, <2>3
  <1> QED
    BY <1>p, <1>3, <1>5, <1>7, <1>8 DEF new, m

\* Lines with their times.
LEMMA TimedLines ==
    ASSUME NEW s \in Seq(Lines), NEW e \in [DOMAIN s -> Entry], \A i \in DOMAIN s : e[i].line = s[i]
    PROVE  /\ e \in Seq(Entry) /\ (Ascending(s) => Increasing(e))
           /\ \A y \in Range(e) : y \in Entry /\ y.line \in Range(s)
  <1>1. DOMAIN s = 1..Len(s) /\ Len(s) \in Nat
    OBVIOUS
  <1>2. e \in Seq(Entry) /\ Len(e) = Len(s)
    BY <1>1
  <1>3. Range(e) = {e[i] : i \in 1..Len(s)} /\ Range(s) = {s[i] : i \in 1..Len(s)}
    BY <1>1, <1>2, LinesAll
  <1>4. Ascending(s) => Increasing(e)
    BY <1>1, <1>2 DEF Ascending, Increasing
  <1> QED
    BY <1>1, <1>2, <1>3, <1>4

LEMMA StampedLines ==
    ASSUME NEW s \in Seq(Lines), NEW at \in [Untimed -> ReadTimes]
    PROVE  LET e == [i \in DOMAIN s |-> Stamped(s[i], at)]
           IN  /\ e \in Seq(Entry) /\ (Ascending(s) => Increasing(e))
               /\ \A y \in Range(e) : y \in Entry /\ y.line \in Range(s)
  <1> DEFINE e == [i \in DOMAIN s |-> Stamped(s[i], at)]
  <1>1. \A x \in Lines : Stamped(x, at) \in Entry /\ Stamped(x, at).line = x
    BY DEF Stamped, Entry
  <1>2. \A i \in DOMAIN s : s[i] \in Lines
    OBVIOUS
  <1>3. e \in [DOMAIN s -> Entry] /\ \A i \in DOMAIN s : e[i].line = s[i]
    BY <1>1, <1>2
  <1> HIDE DEF e
  <1>4. /\ e \in Seq(Entry) /\ (Ascending(s) => Increasing(e))
        /\ \A y \in Range(e) : y \in Entry /\ y.line \in Range(s)
    BY <1>3, TimedLines
  <1> QED
    BY <1>4 DEF e

LEMMA FoundLines ==
    ASSUME NEW s \in Seq(Lines)
    PROVE  /\ FoundAtStart(s) \in Seq(Entry) /\ (Ascending(s) => Increasing(FoundAtStart(s)))
           /\ \A y \in Range(FoundAtStart(s)) : y \in Entry /\ y.line \in Range(s)
  <1> DEFINE e == FoundAtStart(s)
  <1>1. \A i \in DOMAIN s : s[i] \in Lines
    OBVIOUS
  <1>2. e \in [DOMAIN s -> Entry] /\ \A i \in DOMAIN s : e[i].line = s[i]
    BY <1>1 DEF FoundAtStart, Entry
  <1> HIDE DEF e
  <1>3. /\ e \in Seq(Entry) /\ (Ascending(s) => Increasing(e))
        /\ \A y \in Range(e) : y \in Entry /\ y.line \in Range(s)
    BY <1>2, TimedLines
  <1> QED
    BY <1>3 DEF e

\* The tailer calls the viewers with what it reads.
LEMMA TailerCalls ==
    ASSUME LinesInv, ViewersInv, TailerReads
    PROVE  LinesInv' /\ ViewersInv'
  <1>0. PICK at \in [Untimed -> ReadTimes] :
           LET e == [i \in DOMAIN NewLines |-> Stamped(NewLines[i], at)]
           IN  /\ logBuffer' = LastOf(logBuffer \o e, BufferSize)
               /\ viewer' = [v \in Viewers |-> FoldLeft(Called, viewer[v], e)]
    BY DEF TailerReads
  <1> DEFINE new == [i \in DOMAIN NewLines |-> Stamped(NewLines[i], at)]
             joined == logBuffer \o new
  <1>1. /\ new \in Seq(Entry) /\ Increasing(new)
        /\ \A y \in Past, z \in Range(new) : y.line < z.line
        /\ Past \cup Range(new) \subseteq Past'
        /\ position' \in 0..MaxLogged
    <2>1. /\ NewLines \in Seq(Lines) /\ Ascending(NewLines)
          /\ \A y \in Past, z \in Range(NewLines) : y.line < z
          /\ \A y \in Entry : y \in Past \/ y.line \in Range(NewLines) => y \in Past'
          /\ position' \in 0..MaxLogged
      BY ReadsNew
    <2>2. /\ new \in Seq(Entry) /\ Increasing(new)
          /\ \A y \in Range(new) : y \in Entry /\ y.line \in Range(NewLines)
      BY <2>1, StampedLines
    <2> HIDE DEF new
    <2>3. Past \subseteq Entry
      BY DEF Past
    <2>4. Past \cup Range(new) \subseteq Past'
      BY <2>1, <2>2, <2>3
    <2> QED
      BY <2>1, <2>2, <2>4
  <1>2. /\ latestLog' = latestLog /\ logged' = logged /\ inode' = "same"
        /\ logBuffer' = LastOf(joined, BufferSize)
        /\ viewer' = [v \in Viewers |-> FoldLeft(Called, viewer[v], new)]
    BY <1>0 DEF TailerReads, fileState
  <1> HIDE DEF new
  <1>3. joined \in Seq(Entry) /\ Increasing(joined) /\ Range(joined) \subseteq Past'
    <2> DEFINE n == Len(logBuffer)
    <2>1. logBuffer \in Seq(Entry) /\ Increasing(logBuffer) /\ Range(logBuffer) \subseteq Past /\ n \in Nat
      BY DEF LinesInv
    <2>2. /\ joined \in Seq(Entry) /\ Len(joined) = n + Len(new) /\ Len(new) \in Nat
          /\ \A i \in 1..n : joined[i] = logBuffer[i]
      BY <1>1, <2>1
    <2>3. \A i \in 1..Len(joined) : i > n => i - n \in 1..Len(new) /\ joined[i] = new[i - n]
      BY <1>1, <2>1, <2>2
    <2>4. /\ Range(logBuffer) = {logBuffer[i] : i \in 1..n} /\ Range(new) = {new[i] : i \in 1..Len(new)}
          /\ Range(joined) = {joined[i] : i \in 1..Len(joined)}
      BY <1>1, <2>1, <2>2, LinesAll
    <2> HIDE DEF n, joined
    <2>5. \A i \in 1..Len(joined) : i <= n => i \in 1..n /\ joined[i] \in Range(logBuffer)
      BY <2>1, <2>2, <2>4
    <2>6. \A i \in 1..Len(joined) : i > n => joined[i] \in Range(new)
      BY <2>3, <2>4
    <2>7. ASSUME NEW i \in 1..Len(joined), NEW j \in 1..Len(joined), i < j PROVE joined[i].line < joined[j].line
      <3>1. CASE j <= n
        <4>1. i \in 1..n /\ j \in 1..n
          BY <2>1, <2>2, <2>7, <3>1
        <4>2. logBuffer[i].line < logBuffer[j].line
          BY <2>1, <2>7, <4>1 DEF Increasing, n
        <4> QED
          BY <2>2, <4>1, <4>2
      <3>2. CASE i <= n /\ j > n
        BY <1>1, <2>1, <2>5, <2>6, <3>2
      <3>3. CASE i > n
        <4>1. i - n \in 1..Len(new) /\ j - n \in 1..Len(new) /\ i - n < j - n /\ j > n
          BY <2>1, <2>2, <2>3, <2>7, <3>3
        <4>2. new[i - n].line < new[j - n].line
          BY <1>1, <4>1 DEF Increasing
        <4> QED
          BY <2>3, <3>3, <4>1, <4>2
      <3> QED
        BY <2>1, <2>2, <3>1, <3>2, <3>3
    <2>8. ASSUME NEW i \in 1..Len(joined) PROVE joined[i] \in Past'
      BY <1>1, <2>1, <2>2, <2>5, <2>6
    <2> QED
      BY <2>2, <2>4, <2>7, <2>8 DEF Increasing
  <1> HIDE DEF joined
  <1>4. /\ logBuffer' \in Seq(Entry) /\ Len(logBuffer') <= BufferSize
        /\ Range(logBuffer') \subseteq Range(joined) /\ Increasing(logBuffer')
    <2>1. BufferSize \in Nat \ {0}
      BY ConsoleAssumption
    <2> QED
      BY <1>2, <1>3, <2>1, LastLines
  <1>5. LinesInv'
    <2>1. Range(logBuffer)' \subseteq Past'
      <3>1. Range(logBuffer') \subseteq Past'
        BY <1>3, <1>4
      <3> QED
        BY <3>1
    <2> QED
      BY <1>1, <1>2, <1>4, <2>1 DEF LinesInv, Ascending, Increasing
  <1>6. ASSUME NEW v \in Viewers
        PROVE  /\ viewer'[v] \in Viewings /\ Viewing(viewer'[v]) /\ Behind(viewer'[v], Past')
    <2> DEFINE r == viewer[v]
               c == FoldLeft(Called, r, new)
    <2>1. r \in Viewings /\ Viewing(r) /\ (~r.reread => Ordered(r) /\ LinesOf(r) \subseteq Past)
      BY DEF ViewersInv, Behind
    <2>2. viewer'[v] = c
      BY <1>2
    <2> HIDE DEF r
    <2>3. ~r.reread => Ordered(r) /\ \A y \in LinesOf(r), z \in Range(new) : y.line < z.line
      BY <1>1, <2>1
    <2>4. /\ c \in Viewings /\ Viewing(c) /\ c.reread = r.reread
          /\ ~r.reread => Ordered(c) /\ LinesOf(c) \subseteq LinesOf(r) \cup Range(new)
      BY <1>1, <2>1, <2>3, CallsKeep
    <2> HIDE DEF c
    <2>5. Behind(c, Past')
      BY <1>1, <2>1, <2>4 DEF Behind
    <2> QED
      BY <2>2, <2>4, <2>5
  <1>7. viewer' \in [Viewers -> Viewings]
    <2>1. viewer' = [v \in Viewers |-> viewer'[v]]
      BY <1>2, Zenon
    <2> QED
      BY <1>6, <2>1
  <1>8. ViewersInv'
    BY <1>6, <1>7 DEF ViewersInv
  <1> QED
    BY <1>5, <1>8

\* The viewers stay, and what is past stays so.
LEMMA ViewersStay ==
    ASSUME ViewersInv, UNCHANGED viewer, Past \subseteq Past'
    PROVE  ViewersInv'
  <1>1. ASSUME NEW v \in Viewers PROVE Viewing(viewer[v]) /\ Behind(viewer[v], Past')
    BY DEF ViewersInv, Behind
  <1> QED
    BY <1>1 DEF ViewersInv

\* One viewer changes.
LEMMA ViewerChanges ==
    ASSUME LinesInv, ViewersInv, UNCHANGED <<fileState, tailState>>, NEW v \in Viewers, NEW c \in Viewings,
           viewer' = [viewer EXCEPT ![v] = c], Viewing(c), Behind(c, Past)
    PROVE  LinesInv' /\ ViewersInv'
  <1>1. LinesInv' /\ Past' = Past
    BY PastUnchanged DEF tailState
  <1>2. viewer' \in [Viewers -> Viewings]
    BY DEF ViewersInv
  <1>3. ASSUME NEW w \in Viewers PROVE Viewing(viewer'[w]) /\ Behind(viewer'[w], Past')
    <2>1. CASE w = v
      BY <1>1, <2>1 DEF ViewersInv
    <2>2. CASE w # v
      <3>1. viewer'[w] = viewer[w]
        BY <2>2 DEF ViewersInv
      <3> QED
        BY <1>1, <3>1 DEF ViewersInv
    <2> QED
      BY <2>1, <2>2
  <1> QED
    BY <1>1, <1>2, <1>3 DEF ViewersInv

LEMMA UnconnectedViewing == Unconnected \in Viewings /\ Viewing(Unconnected) /\ \A s : Behind(Unconnected, s)
  <1>1. << >> \in Seq(Shown) /\ Len(<< >>) = 0 /\ << >> \in Seq(Entry)
    OBVIOUS
  <1>2. Unconnected \in Viewings
    BY <1>1 DEF Unconnected, Viewings
  <1>3. Range(<< >>) = {}
    <2>1. Range(<< >>) = {<< >>[i] : i \in 1..Len(<< >>)}
      BY <1>1, LinesAll
    <2> QED
      BY <1>1, <2>1
  <1>4. Viewing(Unconnected)
    BY <1>1, ConsoleAssumption DEF Unconnected, Viewing, Remembers, OwedExact
  <1>5. Ordered(Unconnected) /\ LinesOf(Unconnected) = {}
    BY <1>1, <1>3 DEF Unconnected, Ordered, LinesOf, Increasing
  <1> QED
    BY <1>2, <1>4, <1>5 DEF Behind

LEMMA ResetKeeps ==
    ASSUME LinesInv, ViewersInv, RuntimeReset
    PROVE  LinesInv' /\ ViewersInv'
  <1>1. /\ logBuffer' = << >> /\ position' = 0 /\ inode' = "none" /\ latestLog' = latestLog /\ logged' = logged
        /\ viewer' = [v \in Viewers |-> [viewer[v] EXCEPT !.reread = viewer[v].on]]
    BY DEF RuntimeReset, fileState
  <1>2. << >> \in Seq(Entry) /\ Len(<< >>) = 0
    OBVIOUS
  <1>3. Range(<< >>) = {}
    <2>1. Range(<< >>) = {<< >>[i] : i \in 1..Len(<< >>)}
      BY <1>2, LinesAll
    <2> QED
      BY <1>2, <2>1
  <1>4. LinesInv'
    <2>1. Range(logBuffer)' \subseteq Past'
      BY <1>1, <1>3
    <2>2. Increasing(logBuffer)' /\ Len(logBuffer') <= BufferSize
      BY <1>1, <1>2, ConsoleAssumption DEF Increasing
    <2>3. 0 \in 0..MaxLogged
      BY ConsoleAssumption
    <2> QED
      BY <1>1, <1>2, <2>1, <2>2, <2>3 DEF LinesInv, Ascending, Increasing
  <1>5. ASSUME NEW v \in Viewers
        PROVE  viewer'[v] \in Viewings /\ Viewing(viewer'[v]) /\ Behind(viewer'[v], Past')
    <2> DEFINE r == viewer[v]
               c == [r EXCEPT !.reread = r.on]
    <2>1. r \in Viewings /\ Viewing(r) /\ viewer'[v] = c
      BY <1>1 DEF ViewersInv
    <2> HIDE DEF r
    <2>2. /\ c \in Viewings /\ c.on = r.on /\ c.recent = r.recent /\ c.queue = r.queue
          /\ c.overflown = r.overflown /\ c.reread = r.on /\ c.restamped = r.restamped
          /\ c.sent = r.sent /\ c.had = r.had /\ c.forgot = r.forgot /\ c.due = r.due
      BY <2>1 DEF Viewings
    <2>3. CASE ~r.on
      <3>1. r = Unconnected
        BY <2>1, <2>3 DEF Viewing
      <3>2. c = Unconnected
        <4>1. Unconnected.on = FALSE /\ Unconnected.reread = FALSE
          BY DEF Unconnected
        <4>2. [r EXCEPT !.reread = r.reread] = r
          BY <2>1 DEF Viewings
        <4> QED
          BY <3>1, <4>1, <4>2
      <3> QED
        BY <2>1, <3>2, UnconnectedViewing
    <2>4. CASE r.on
      <3> HIDE DEF c
      <3>1. Pending(c) = Pending(r)
        BY <2>2, PendingMerged
      <3>2. ASSUME ~c.overflown, ~(c.reread /\ (c.forgot \/ c.restamped)) PROVE Pending(c) = c.due
        <4>1. ~r.overflown /\ ~r.forgot /\ ~r.restamped
          BY <2>2, <2>4, <3>2
        <4> QED
          BY <2>1, <2>2, <2>4, <3>1, <4>1 DEF Viewing, OwedExact
      <3>3. Viewing(c)
        BY <2>1, <2>2, <2>4, <3>2 DEF Viewing, Remembers, OwedExact
      <3>4. Behind(c, Past')
        BY <2>2, <2>4 DEF Behind
      <3> QED
        BY <2>1, <2>2, <3>3, <3>4
    <2> QED
      BY <2>3, <2>4
  <1>6. viewer' \in [Viewers -> Viewings]
    <2>1. viewer' = [v \in Viewers |-> viewer'[v]]
      BY <1>1, Zenon
    <2> QED
      BY <1>5, <2>1
  <1>7. ViewersInv'
    BY <1>5, <1>6 DEF ViewersInv
  <1> QED
    BY <1>4, <1>7

LEMMA ComesBackKeeps ==
    ASSUME LinesInv, ViewersInv, AppComesBack
    PROVE  LinesInv' /\ ViewersInv'
  <1>1. /\ inode' = "none" /\ latestLog' = latestLog /\ logged' = logged
        /\ viewer' = [v \in Viewers |-> Unconnected]
        /\ logBuffer' = IF Visible THEN LastOf(FoundAtStart(latestLog), BufferSize) ELSE << >>
        /\ position' = IF Visible THEN Len(latestLog) ELSE 0
    BY DEF AppComesBack, fileState
  <1>2. << >> \in Seq(Entry) /\ Len(<< >>) = 0 /\ BufferSize \in Nat \ {0} /\ 0 \in 0..MaxLogged
    BY ConsoleAssumption
  <1>3. Range(<< >>) = {}
    <2>1. Range(<< >>) = {<< >>[i] : i \in 1..Len(<< >>)}
      BY <1>2, LinesAll
    <2> QED
      BY <1>2, <2>1
  <1>4. LinesInv'
    <2>1. CASE Visible
      <3> DEFINE found == FoundAtStart(latestLog)
      <3>1. position' = Len(latestLog) /\ logBuffer' = LastOf(found, BufferSize) /\ UNCHANGED fileState
        BY <1>1, <2>1 DEF fileState
      <3>2. (\A y \in Entry : y.line <= logged => y \in Past') /\ position' \in 0..MaxLogged
        BY <1>1, <3>1, AllPast
      <3>3. /\ latestLog \in Seq(Lines) /\ Ascending(latestLog)
            /\ \A i \in 1..Len(latestLog) : latestLog[i] <= logged
            /\ Range(latestLog) = {latestLog[i] : i \in 1..Len(latestLog)}
        <4>1. latestLog \in Seq(Lines)
          BY DEF LinesInv
        <4> QED
          BY <4>1, LinesAll DEF LinesInv
      <3>7. /\ found \in Seq(Entry) /\ Increasing(found)
            /\ \A y \in Range(found) : y \in Entry /\ y.line \in Range(latestLog)
        BY <3>3, FoundLines
      <3> HIDE DEF found
      <3>4. Range(found) \subseteq Past'
        BY <3>2, <3>3, <3>7
      <3>5. /\ logBuffer' \in Seq(Entry) /\ Len(logBuffer') <= BufferSize /\ Increasing(logBuffer')
            /\ Range(logBuffer') \subseteq Range(found)
        BY <1>2, <3>1, <3>7, LastLines
      <3>6. Range(logBuffer)' \subseteq Past'
        <4>1. Range(logBuffer') \subseteq Past'
          BY <3>4, <3>5
        <4> QED
          BY <4>1
      <3> QED
        BY <1>1, <3>2, <3>5, <3>6 DEF LinesInv, Ascending, Increasing
    <2>2. CASE ~Visible
      <3>1. position' = 0 /\ logBuffer' = << >>
        BY <1>1, <2>2
      <3>2. Range(logBuffer)' \subseteq Past'
        BY <1>3, <3>1
      <3>3. Increasing(logBuffer)' /\ Len(logBuffer') <= BufferSize
        BY <1>2, <3>1 DEF Increasing
      <3> QED
        BY <1>1, <1>2, <3>1, <3>2, <3>3 DEF LinesInv, Ascending, Increasing
    <2> QED
      BY <2>1, <2>2
  <1>5. ViewersInv'
    <2>1. ASSUME NEW v \in Viewers PROVE Viewing(viewer'[v]) /\ Behind(viewer'[v], Past')
      BY <1>1, UnconnectedViewing
    <2>2. viewer' \in [Viewers -> Viewings]
      BY <1>1, UnconnectedViewing
    <2> QED
      BY <2>1, <2>2 DEF ViewersInv
  <1> QED
    BY <1>4, <1>5

LEMMA StartsTailingKeeps ==
    ASSUME LinesInv, ViewersInv, StartsTailing
    PROVE  LinesInv' /\ ViewersInv'
  <1>1. /\ logBuffer' = << >> /\ position' = Len(latestLog) /\ inode' \in {"none", "same"}
        /\ UNCHANGED fileState /\ latestLog' = latestLog /\ logged' = logged /\ viewer' = viewer
    BY DEF StartsTailing, fileState
  <1>2. (\A y \in Entry : y.line <= logged => y \in Past') /\ position' \in 0..MaxLogged
    BY <1>1, AllPast
  <1>3. << >> \in Seq(Entry) /\ Len(<< >>) = 0 /\ BufferSize \in Nat \ {0}
    BY ConsoleAssumption
  <1>4. Range(<< >>) = {}
    <2>1. Range(<< >>) = {<< >>[i] : i \in 1..Len(<< >>)}
      BY <1>3, LinesAll
    <2> QED
      BY <1>3, <2>1
  <1>5. LinesInv'
    <2>1. Range(logBuffer)' \subseteq Past'
      BY <1>1, <1>4
    <2>2. Increasing(logBuffer)' /\ Len(logBuffer') <= BufferSize
      BY <1>1, <1>3 DEF Increasing
    <2> QED
      BY <1>1, <1>2, <1>3, <2>1, <2>2 DEF LinesInv, Ascending, Increasing
  <1>6. Past \subseteq Past'
    BY <1>2 DEF Past
  <1> QED
    BY <1>1, <1>5, <1>6, ViewersStay

\* A viewer is sent what is past, in order, and once.
LEMMA LinesStep ==
    ASSUME LinesInv, ViewersInv, [ConsoleNext]_consoleVars
    PROVE  LinesInv' /\ ViewersInv'
  <1>1. CASE ServerLogs
    <2>1. viewer' = viewer /\ position' = position /\ logBuffer' = logBuffer /\ logged' = NextLine /\ logged < MaxLogged
      BY <1>1 DEF ServerLogs
    <2>2. CASE latestLog' = Append(latestLog, NextLine) /\ UNCHANGED inode
      BY <2>1, <2>2, LineAddedPast, ViewersStay
    <2>3. CASE Replaces(<<NextLine>>)
      <3>1. <<NextLine>> \in Seq(Lines)
        BY <2>1, ConsoleAssumption DEF NextLine, Lines, LinesInv
      <3>2. LinesInv' /\ Past \subseteq Past'
        BY <2>1, <2>3, <3>1, LogReplacedPast
      <3> QED
        BY <2>1, <3>2, ViewersStay
    <2> QED
      BY <1>1, <2>2, <2>3 DEF ServerLogs
  <1>2. CASE JavaStarts
    <2>1. viewer' = viewer /\ position' = position /\ logBuffer' = logBuffer /\ logged' = logged /\ Replaces(<< >>)
      BY <1>2 DEF JavaStarts
    <2>2. << >> \in Seq(Lines)
      OBVIOUS
    <2>3. LinesInv' /\ Past \subseteq Past'
      BY <2>1, <2>2, LogReplacedPast
    <2> QED
      BY <2>1, <2>3, ViewersStay
  <1>3. CASE StartsTailing
    BY <1>3, StartsTailingKeeps
  <1>4. CASE TailerReads
    BY <1>4, TailerCalls
  <1>5. CASE RuntimeReset
    BY <1>5, ResetKeeps
  <1>6. CASE AppComesBack
    BY <1>6, ComesBackKeeps
  <1>7. CASE ServerExits \/ StartedOutside \/ TailerEnds \/ UNCHANGED consoleVars
    <2>1. UNCHANGED <<fileState, inode, position, logBuffer>> /\ viewer' = viewer
      BY <1>7 DEF ServerExits, StartedOutside, TailerEnds, consoleVars, fileState, tailState
    <2>2. LinesInv' /\ Past \subseteq Past'
      BY <2>1, PastUnchanged
    <2> QED
      BY <2>1, <2>2, ViewersStay
  <1>8. ASSUME NEW v \in Viewers, Connect(v) PROVE LinesInv' /\ ViewersInv'
    <2>1. PICK raw \in BOOLEAN :
             viewer' = [viewer EXCEPT ![v] =
                [Unconnected EXCEPT !.on = TRUE, !.recent = RecentLogs(raw), !.due = RecentLogs(raw)]]
      BY <1>8 DEF Connect
    <2> DEFINE taken == RecentLogs(raw)
               c == [Unconnected EXCEPT !.on = TRUE, !.recent = taken, !.due = taken]
    <2>2. /\ taken \in Seq(Entry) /\ Len(taken) <= RecentSize
          /\ Increasing(taken) /\ Range(taken) \subseteq Range(logBuffer)
      BY RecentLines DEF LinesInv
    <2>3. viewer' = [viewer EXCEPT ![v] = c]
      BY <2>1
    <2> HIDE DEF taken
    <2>4. c \in Viewings /\ Viewing(c) /\ Ordered(c) /\ LinesOf(c) = Range(taken)
      BY <2>2, Connected
    <2> HIDE DEF c
    <2>5. Behind(c, Past)
      BY <2>2, <2>4 DEF Behind, LinesInv
    <2>6. UNCHANGED <<fileState, tailState>>
      BY <1>8 DEF Connect
    <2> QED
      BY <2>3, <2>4, <2>5, <2>6, ViewerChanges
  <1>9. ASSUME NEW v \in Viewers, SendRecent(v) PROVE LinesInv' /\ ViewersInv'
    <2> DEFINE r == viewer[v]
               c == [Sent(r, Head(r.recent), r.sent \cup {Head(r.recent)}) EXCEPT !.recent = Tail(@)]
    <2>1. /\ r.recent # << >> /\ viewer' = [viewer EXCEPT ![v] = c] /\ UNCHANGED <<fileState, tailState>>
      BY <1>9 DEF SendRecent
    <2>2. r \in Viewings /\ Viewing(r) /\ Behind(r, Past)
      BY DEF ViewersInv
    <2> HIDE DEF r
    <2>3. ~r.reread => Ordered(r)
      BY <2>2 DEF Behind
    <2>4. /\ c \in Viewings /\ Viewing(c) /\ c.reread = r.reread
          /\ ~r.reread => Ordered(c) /\ LinesOf(c) \subseteq LinesOf(r)
      BY <2>1, <2>2, <2>3, RecentSent
    <2> HIDE DEF c
    <2>5. Behind(c, Past)
      BY <2>2, <2>4 DEF Behind
    <2> QED
      BY <2>1, <2>4, <2>5, ViewerChanges
  <1>10. ASSUME NEW v \in Viewers, SendQueued(v) PROVE LinesInv' /\ ViewersInv'
    <2> DEFINE r == viewer[v]
               x == Head(r.queue)
               c == [(IF x \in r.sent THEN r ELSE Sent(r, x, Remembering(r.sent \cup {x}))) EXCEPT !.queue = Tail(@)]
    <2>1. /\ r.on /\ r.recent = << >> /\ r.queue # << >>
          /\ viewer' = [viewer EXCEPT ![v] = c] /\ UNCHANGED <<fileState, tailState>>
      BY <1>10 DEF SendQueued
    <2>2. r \in Viewings /\ Viewing(r) /\ Behind(r, Past)
      BY DEF ViewersInv
    <2> HIDE DEF r
    <2>3. ~r.reread => Ordered(r)
      BY <2>2 DEF Behind
    <2>4. /\ c \in Viewings /\ Viewing(c) /\ c.reread = r.reread
          /\ ~r.reread => Ordered(c) /\ LinesOf(c) \subseteq LinesOf(r)
      BY <2>1, <2>2, <2>3, QueuedSent
    <2> HIDE DEF c
    <2>5. Behind(c, Past)
      BY <2>2, <2>4 DEF Behind
    <2> QED
      BY <2>1, <2>4, <2>5, ViewerChanges
  <1>11. ASSUME NEW v \in Viewers, Disconnected(v) PROVE LinesInv' /\ ViewersInv'
    BY <1>11, UnconnectedViewing, ViewerChanges DEF Disconnected
  <1> QED
    BY <1>1, <1>2, <1>3, <1>4, <1>5, <1>6, <1>7, <1>8, <1>9, <1>10, <1>11 DEF ConsoleNext

LEMMA LinesStart == ConsoleInit => LinesInv /\ ViewersInv
  <1> SUFFICES ASSUME ConsoleInit PROVE LinesInv /\ ViewersInv
    OBVIOUS
  <1>1. /\ latestLog = << >> /\ logged = 0 /\ inode = "none" /\ position = 0 /\ logBuffer = << >>
        /\ viewer = [v \in Viewers |-> Unconnected]
    BY DEF ConsoleInit
  <1>2. << >> \in Seq(Entry) /\ << >> \in Seq(Lines) /\ Len(<< >>) = 0 /\ BufferSize \in Nat \ {0} /\ MaxLogged \in Nat
    BY ConsoleAssumption
  <1>3. Range(<< >>) = {}
    <2>1. Range(<< >>) = {<< >>[i] : i \in 1..Len(<< >>)}
      BY <1>2, LinesAll
    <2> QED
      BY <1>2, <2>1
  <1>4. LinesInv
    BY <1>1, <1>2, <1>3 DEF LinesInv, Ascending, Increasing
  <1>5. ViewersInv
    BY <1>1, UnconnectedViewing DEF ViewersInv
  <1> QED
    BY <1>4, <1>5

\* Whatever a viewer is owed is still to be sent.
LEMMA OwedIsPending == ViewersInv => EveryLineOnce
  BY DEF ViewersInv, Viewing, OwedExact, EveryLineOnce

\* The rest of the console's types.
ProcessTyped ==
    /\ process \in {"none", "booting", "up"}
    /\ away \in BOOLEAN /\ tailing \in BOOLEAN
    /\ accounted \subseteq Lines

LEMMA ConsoleTyped == LinesInv /\ ViewersInv /\ ProcessTyped => ConsoleTypeOK
  <1> SUFFICES ASSUME LinesInv, ViewersInv, ProcessTyped PROVE ConsoleTypeOK
    OBVIOUS
  <1>1. ASSUME NEW v \in Viewers
        PROVE  /\ viewer[v].recent \in Seq(Entry) /\ Len(viewer[v].recent) <= RecentSize
               /\ viewer[v].queue \in Seq(Shown) /\ Len(viewer[v].queue) <= QueueSize
               /\ viewer[v].sent \subseteq Entry
    <2>1. viewer[v] \in Viewings /\ Viewing(viewer[v])
      BY DEF ViewersInv
    <2> QED
      BY <2>1 DEF Viewings, Viewing
  <1> QED
    BY <1>1 DEF LinesInv, ProcessTyped, ConsoleTypeOK

LEMMA ProcessStep ==
    ASSUME LinesInv, ProcessTyped, [ConsoleNext]_consoleVars
    PROVE  ProcessTyped'
  <1>1. Visible \in BOOLEAN
    BY DEF Visible
  <1>2. Range(latestLog) \subseteq Lines
    <2>1. latestLog \in Seq(Lines)
      BY DEF LinesInv
    <2>2. Range(latestLog) = {latestLog[i] : i \in 1..Len(latestLog)}
      BY <2>1, LinesAll
    <2> QED
      BY <2>1, <2>2
  <1>3. CASE TailerReads
    <2> DEFINE new == NewLines
    <2>1. new \in Seq(Lines)
      BY <1>3, ReadsNew
    <2>2. Range(new) \subseteq Lines
      <3>1. Range(new) = {new[i] : i \in 1..Len(new)}
        BY <2>1, LinesAll
      <3> HIDE DEF new
      <3> QED
        BY <2>1, <3>1
    <2>3. Passed(ReadFrom) \subseteq Lines
      <3>1. ReadFrom \in Nat /\ latestLog \in Seq(Lines)
        BY DEF LinesInv, ReadFrom
      <3>2. Passed(ReadFrom) = {latestLog[i] : i \in 1..Upto(latestLog, ReadFrom)}
        BY <3>1, PassedLines
      <3> QED
        BY <3>1, <3>2 DEF Upto
    <2>4. PassedUnread \subseteq Lines
      BY <2>3 DEF PassedUnread
    <2>5. accounted' = accounted \cup Range(new) \cup IF inode \in {"none", "reused"} THEN PassedUnread ELSE {}
      BY <1>3 DEF TailerReads
    <2> HIDE DEF new
    <2>6. accounted' \subseteq Lines
      BY <2>2, <2>4, <2>5 DEF ProcessTyped
    <2> QED
      BY <1>3, <2>6 DEF TailerReads, ProcessTyped
  <1>4. CASE AppComesBack
    BY <1>1, <1>2, <1>4 DEF AppComesBack, ProcessTyped
  <1>5. CASE StartsTailing
    BY <1>2, <1>5 DEF StartsTailing, ProcessTyped
  <1>6. CASE ServerLogs \/ JavaStarts \/ ServerExits \/ StartedOutside \/ TailerEnds \/ RuntimeReset \/ UNCHANGED consoleVars
    BY <1>6 DEF ServerLogs, JavaStarts, ServerExits, StartedOutside, TailerEnds, RuntimeReset, consoleVars,
                fileState, tailState, ProcessTyped
  <1>7. ASSUME NEW v \in Viewers, Connect(v) \/ SendRecent(v) \/ SendQueued(v) \/ Disconnected(v) PROVE ProcessTyped'
    BY <1>7 DEF Connect, SendRecent, SendQueued, Disconnected, tailState, ProcessTyped
  <1> QED
    BY <1>3, <1>4, <1>5, <1>6, <1>7 DEF ConsoleNext

LEMMA ProcessStart == ConsoleInit => ProcessTyped
  BY DEF ConsoleInit, ProcessTyped

\* All of it.
ConsoleAll == ConsoleInv /\ LinesInv /\ ViewersInv /\ ProcessTyped

LEMMA ConsoleAllStep == ConsoleAll /\ [ConsoleNext]_consoleVars => ConsoleAll'
  BY ConsoleStep, LinesStep, ProcessStep DEF ConsoleAll

LEMMA ConsoleAllStart == ConsoleInit => ConsoleAll
  BY ConsoleStart, LinesStart, ProcessStart DEF ConsoleAll
================================================================================
