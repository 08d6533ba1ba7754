--------------------------- MODULE OperationsProofs ---------------------------
(***************************************************************************)
(* Theorems about Operations, for every number of workers, calls and keys  *)
(* and every TTL: type correctness, mutual exclusion by the flock, the     *)
(* truth of the cache and of the journal, and that the guarded entry       *)
(* implements OncePerKey.                                                  *)
(***************************************************************************)
EXTENDS Operations, TLAPS

USE ConstantsAssumption

\* Age counts down within a bound and stops at zero.
LEMMA AgeBounded ==
    ASSUME NEW n \in 0..TTL
    PROVE  /\ Age(n) \in 0..TTL
           /\ Age(n) <= n
           /\ Age(n) = 0 <=> n \in {0, 1}
           /\ \A m \in 0..TTL : m <= n => Age(m) <= Age(n)
  BY DEF Age

\* What Put leaves in the cache: well-typed, and one entry refreshed.
LEMMA PutFacts ==
    ASSUME TypeOK, NEW w \in Workers, NEW k \in Keys \cup {NoKey}, NEW s \in Statuses,
           Put(w, k, s)
    PROVE  /\ entry' \in [Workers -> [Keys -> Statuses]]
           /\ left' \in [Workers -> [Keys -> 0..TTL]]
           /\ \A v \in Workers, h \in Keys :
                 /\ entry'[v][h] = IF v = w /\ h = k THEN s ELSE entry[v][h]
                 /\ left'[v][h] = IF v = w /\ h = k THEN TTL ELSE left[v][h]
  <1>1. CASE k = NoKey
    BY <1>1 DEF Put, cacheVars, TypeOK
  <1>2. CASE k # NoKey
    <2>1. TTL \in 0..TTL
      OBVIOUS
    <2>2. /\ entry' = [entry EXCEPT ![w][k] = s]
          /\ left' = [left EXCEPT ![w][k] = TTL]
      BY <1>2 DEF Put
    <2> QED
      BY <1>2, <2>1, <2>2 DEF TypeOK
  <1> QED
    BY <1>1, <1>2

--------------------------------------------------------------------------------
\* Every variable keeps its type: execute_operation's cache, journal and lock.
THEOREM TypeCorrect == Spec => []TypeOK
  <1>1. Init => TypeOK
    BY DEF Init, TypeOK, Statuses
  <1>2. TypeOK /\ [Next]_vars => TypeOK'
    <2> SUFFICES ASSUME TypeOK, [Next]_vars PROVE TypeOK'
      OBVIOUS
    <2>1. ASSUME NEW c \in Calls, NEW k \in Keys \cup {NoKey}, Begin(c, k) PROVE TypeOK'
      <3>1. /\ entry' \in [Workers -> [Keys -> Statuses]]
            /\ left' \in [Workers -> [Keys -> 0..TTL]]
        BY <2>1, PutFacts DEF Begin, Statuses
      <3>2. window' \in [Workers -> [Keys -> 0..TTL]]
        BY <2>1 DEF Begin, TypeOK
      <3>3. abandoned' \in [Workers -> SUBSET Keys]
        BY <2>1 DEF Begin, TypeOK
      <3> QED
        BY <2>1, <3>1, <3>2, <3>3 DEF Begin, Journal, TypeOK
    <2>2. ASSUME NEW c \in Calls, NEW k \in Keys \cup {NoKey}, Busy(c, k) PROVE TypeOK'
      <3>1. /\ entry' \in [Workers -> [Keys -> Statuses]]
            /\ left' \in [Workers -> [Keys -> 0..TTL]]
        BY <2>2, PutFacts DEF Busy, Statuses
      <3> QED
        BY <2>2, <3>1 DEF Busy, Journal, TypeOK, Results
    <2>3. ASSUME NEW c \in Calls, NEW r \in Results, Finish(c, r) PROVE TypeOK'
      <3>1. keyOf[c] \in Keys \cup {NoKey} /\ r \in Statuses
        BY DEF TypeOK, Results, Statuses
      <3>2. /\ entry' \in [Workers -> [Keys -> Statuses]]
            /\ left' \in [Workers -> [Keys -> 0..TTL]]
        BY <2>3, <3>1, PutFacts DEF Finish
      <3>3. window' \in [Workers -> [Keys -> 0..TTL]]
        BY <2>3 DEF Finish, TypeOK
      <3>4. abandoned' \in [Workers -> SUBSET Keys]
        BY <2>3 DEF Finish, TypeOK
      <3> QED
        BY <2>3, <3>2, <3>3, <3>4 DEF Finish, Journal, TypeOK
    <2>4. ASSUME NEW c \in Calls, Cancel(c) PROVE TypeOK'
      BY <2>4 DEF Cancel, cacheVars, TypeOK
    <2>5. ASSUME NEW w \in Workers, WorkerCrash(w) PROVE TypeOK'
      BY <2>5 DEF WorkerCrash, TypeOK, Statuses
    <2>6. CASE Tick
      <3>1. \A w \in Workers, k \in Keys :
               Age(left[w][k]) \in 0..TTL /\ Age(window[w][k]) \in 0..TTL
        BY AgeBounded DEF TypeOK
      <3> QED
        BY <2>6, <3>1 DEF Tick, TypeOK, Statuses
    <2>7. CASE UNCHANGED vars
      BY <2>7 DEF vars, cacheVars, histVars, TypeOK
    <2> QED
      BY <2>1, <2>2, <2>3, <2>4, <2>5, <2>6, <2>7 DEF Next
  <1> QED
    BY <1>1, <1>2, PTL DEF Spec

--------------------------------------------------------------------------------
\* Operations of all workers exclude each other, and no way an operation ends
\* keeps the flock.
THEOREM FlockCorrect == Spec => []FlockExact
  <1>1. Init => FlockExact
    BY DEF Init, FlockExact
  <1>2. TypeOK /\ FlockExact /\ [Next]_vars => FlockExact'
    <2> SUFFICES ASSUME TypeOK, FlockExact, [Next]_vars PROVE FlockExact'
      OBVIOUS
    <2> USE DEF TypeOK, FlockExact
    <2>1. ASSUME NEW c \in Calls, NEW k \in Keys \cup {NoKey}, Begin(c, k) PROVE FlockExact'
      BY <2>1 DEF Begin
    <2>2. ASSUME NEW c \in Calls, NEW k \in Keys \cup {NoKey}, Busy(c, k) PROVE FlockExact'
      BY <2>2 DEF Busy
    <2>3. ASSUME NEW c \in Calls, NEW r \in Results, Finish(c, r) PROVE FlockExact'
      BY <2>3 DEF Finish
    <2>4. ASSUME NEW c \in Calls, Cancel(c) PROVE FlockExact'
      BY <2>4 DEF Cancel
    <2>5. ASSUME NEW w \in Workers, WorkerCrash(w) PROVE FlockExact'
      BY <2>5 DEF WorkerCrash
    <2>6. CASE Tick
      BY <2>6 DEF Tick
    <2>7. CASE UNCHANGED vars
      BY <2>7 DEF vars
    <2> QED
      BY <2>1, <2>2, <2>3, <2>4, <2>5, <2>6, <2>7 DEF Next
  <1> QED
    BY <1>1, <1>2, TypeCorrect, PTL DEF Spec

--------------------------------------------------------------------------------
\* While a run's window forbids its key, the cache answers for the key.
THEOREM WindowCorrect == Spec => []WindowCovered
  <1>1. Init => WindowCovered
    BY DEF Init, WindowCovered
  <1>2. TypeOK /\ WindowCovered /\ [Next]_vars => WindowCovered'
    <2> SUFFICES ASSUME TypeOK, WindowCovered, [Next]_vars PROVE WindowCovered'
      OBVIOUS
    <2>1. ASSUME NEW c \in Calls, NEW k \in Keys \cup {NoKey}, Begin(c, k)
          PROVE  WindowCovered'
      <3>1. WorkerOf[c] \in Workers /\ "in_progress" \in Statuses
        BY DEF Statuses
      <3>2. \A v \in Workers, h \in Keys :
               /\ entry'[v][h] = IF v = WorkerOf[c] /\ h = k THEN "in_progress" ELSE entry[v][h]
               /\ left'[v][h] = IF v = WorkerOf[c] /\ h = k THEN TTL ELSE left[v][h]
        BY <2>1, <3>1, PutFacts DEF Begin
      <3>3. \A v \in Workers, h \in Keys :
               window'[v][h] = IF v = WorkerOf[c] /\ h = k THEN TTL ELSE window[v][h]
        BY <2>1, <3>1 DEF Begin, TypeOK
      <3> SUFFICES ASSUME NEW v \in Workers, NEW h \in Keys, window'[v][h] > 0
                   PROVE  entry'[v][h] # "absent" /\ window'[v][h] <= left'[v][h]
        BY DEF WindowCovered
      <3>4. CASE v = WorkerOf[c] /\ h = k
        BY <3>2, <3>3, <3>4
      <3>5. CASE ~(v = WorkerOf[c] /\ h = k)
        BY <3>2, <3>3, <3>5 DEF WindowCovered
      <3> QED
        BY <3>4, <3>5
    <2>2. ASSUME NEW c \in Calls, NEW k \in Keys \cup {NoKey}, Busy(c, k)
          PROVE  WindowCovered'
      <3>1. WorkerOf[c] \in Workers /\ "busy" \in Statuses
        BY DEF Statuses
      <3>2. \A v \in Workers, h \in Keys :
               /\ entry'[v][h] = IF v = WorkerOf[c] /\ h = k THEN "busy" ELSE entry[v][h]
               /\ left'[v][h] = IF v = WorkerOf[c] /\ h = k THEN TTL ELSE left[v][h]
        BY <2>2, <3>1, PutFacts DEF Busy
      <3>3. \A v \in Workers, h \in Keys : window'[v][h] = window[v][h] /\ window[v][h] \in 0..TTL
        BY <2>2 DEF Busy, TypeOK
      <3> SUFFICES ASSUME NEW v \in Workers, NEW h \in Keys, window'[v][h] > 0
                   PROVE  entry'[v][h] # "absent" /\ window'[v][h] <= left'[v][h]
        BY DEF WindowCovered
      <3>4. CASE v = WorkerOf[c] /\ h = k
        BY <3>2, <3>3, <3>4
      <3>5. CASE ~(v = WorkerOf[c] /\ h = k)
        BY <3>2, <3>3, <3>5 DEF WindowCovered
      <3> QED
        BY <3>4, <3>5
    <2>3. ASSUME NEW c \in Calls, NEW r \in Results, Finish(c, r) PROVE WindowCovered'
      <3>1. /\ WorkerOf[c] \in Workers
            /\ r \in Statuses /\ r # "absent"
            /\ keyOf[c] \in Keys \cup {NoKey}
        BY DEF Statuses, Results, TypeOK
      <3>2. \A v \in Workers, h \in Keys :
               /\ entry'[v][h] = IF v = WorkerOf[c] /\ h = keyOf[c] THEN r ELSE entry[v][h]
               /\ left'[v][h] = IF v = WorkerOf[c] /\ h = keyOf[c] THEN TTL ELSE left[v][h]
        BY <2>3, <3>1, PutFacts DEF Finish
      <3>3. \A v \in Workers, h \in Keys :
               window'[v][h] = IF v = WorkerOf[c] /\ h = keyOf[c] THEN TTL ELSE window[v][h]
        BY <2>3, <3>1 DEF Finish, TypeOK
      <3> SUFFICES ASSUME NEW v \in Workers, NEW h \in Keys, window'[v][h] > 0
                   PROVE  entry'[v][h] # "absent" /\ window'[v][h] <= left'[v][h]
        BY DEF WindowCovered
      <3>4. CASE v = WorkerOf[c] /\ h = keyOf[c]
        BY <3>1, <3>2, <3>3, <3>4
      <3>5. CASE ~(v = WorkerOf[c] /\ h = keyOf[c])
        BY <3>2, <3>3, <3>5 DEF WindowCovered
      <3> QED
        BY <3>4, <3>5
    <2>4. ASSUME NEW c \in Calls, Cancel(c) PROVE WindowCovered'
      BY <2>4 DEF Cancel, cacheVars, WindowCovered
    <2>5. ASSUME NEW w \in Workers, WorkerCrash(w) PROVE WindowCovered'
      BY <2>5 DEF WorkerCrash, WindowCovered, TypeOK
    <2>6. CASE Tick
      <3> SUFFICES ASSUME NEW w \in Workers, NEW k \in Keys, window'[w][k] > 0
                   PROVE  entry'[w][k] # "absent" /\ window'[w][k] <= left'[w][k]
        BY DEF WindowCovered
      <3>1. left[w][k] \in 0..TTL /\ window[w][k] \in 0..TTL
        BY DEF TypeOK
      <3>2. window'[w][k] = Age(window[w][k]) /\ left'[w][k] = Age(left[w][k])
        BY <2>6 DEF Tick
      <3>3. window[w][k] > 0
        BY <3>1, <3>2 DEF Age
      <3>4. entry[w][k] # "absent" /\ window[w][k] <= left[w][k]
        BY <3>3 DEF WindowCovered
      <3>5. Age(window[w][k]) <= Age(left[w][k])
        BY <3>1, <3>4, AgeBounded
      <3>6. Age(left[w][k]) # 0
        BY <3>1, <3>2, <3>5, AgeBounded
      <3>7. entry'[w][k] = entry[w][k]
        BY <2>6, <3>6 DEF Tick
      <3> QED
        BY <3>2, <3>4, <3>5, <3>7
    <2>7. CASE UNCHANGED vars
      BY <2>7 DEF vars, cacheVars, histVars, WindowCovered
    <2> QED
      BY <2>1, <2>2, <2>3, <2>4, <2>5, <2>6, <2>7 DEF Next
  <1> QED
    BY <1>1, <1>2, TypeCorrect, PTL DEF Spec

--------------------------------------------------------------------------------
\* "Already in progress" is only answered while that is so, or was when the
\* run was cancelled.
THEOREM InProgressCorrect == Spec => []InProgressIsTrue
  <1>1. Init => InProgressIsTrue
    BY DEF Init, InProgressIsTrue
  <1>2. TypeOK /\ InProgressIsTrue /\ [Next]_vars => InProgressIsTrue'
    <2> SUFFICES ASSUME TypeOK, InProgressIsTrue, [Next]_vars,
                        NEW w \in Workers, NEW k \in Keys, entry'[w][k] = "in_progress"
                 PROVE  (k \in abandoned[w] \/ \E d \in runs : WorkerOf[d] = w /\ keyOf[d] = k)'
      BY DEF InProgressIsTrue
    <2> DEFINE Backed == k \in abandoned[w] \/ \E d \in runs : WorkerOf[d] = w /\ keyOf[d] = k
    <2>0. entry[w][k] = "in_progress" => Backed
      BY DEF InProgressIsTrue
    <2>1. ASSUME NEW c \in Calls, NEW h \in Keys \cup {NoKey}, Begin(c, h) PROVE Backed'
      <3>1. CASE WorkerOf[c] = w /\ h = k
        BY <2>1, <3>1 DEF Begin, TypeOK
      <3>2. CASE ~(WorkerOf[c] = w /\ h = k)
        <4>1. entry[w][k] = "in_progress"
          BY <2>1, <3>2, PutFacts DEF Begin, Statuses
        <4>2. k \in abandoned[w] => k \in abandoned'[w]
          BY <2>1, <3>2 DEF Begin, TypeOK
        <4>3. \A d \in runs : d \in runs' /\ keyOf'[d] = keyOf[d]
          BY <2>1 DEF Begin, TypeOK
        <4> QED
          BY <2>0, <4>1, <4>2, <4>3
      <3> QED
        BY <3>1, <3>2
    <2>2. ASSUME NEW c \in Calls, NEW h \in Keys \cup {NoKey}, Busy(c, h) PROVE Backed'
      <3>1. entry[w][k] = "in_progress" /\ ~(WorkerOf[c] = w /\ h = k)
        BY <2>2, PutFacts DEF Busy, Statuses
      <3>2. k \in abandoned[w] => k \in abandoned'[w]
        BY <2>2, <3>1 DEF Busy, TypeOK
      <3> QED
        BY <2>0, <2>2, <3>1, <3>2 DEF Busy
    <2>3. ASSUME NEW c \in Calls, NEW r \in Results, Finish(c, r) PROVE Backed'
      <3>1. keyOf[c] \in Keys \cup {NoKey} /\ r \in Statuses /\ r # "in_progress"
        BY DEF TypeOK, Results, Statuses
      <3>2. entry[w][k] = "in_progress" /\ ~(WorkerOf[c] = w /\ keyOf[c] = k)
        BY <2>3, <3>1, PutFacts DEF Finish
      <3>3. k \in abandoned[w] => k \in abandoned'[w]
        BY <2>3, <3>2 DEF Finish, TypeOK
      <3>4. \A d \in runs : d # c => d \in runs' /\ keyOf'[d] = keyOf[d]
        BY <2>3 DEF Finish, TypeOK
      <3> QED
        BY <2>0, <3>2, <3>3, <3>4
    <2>4. ASSUME NEW c \in Calls, Cancel(c) PROVE Backed'
      <3>1. entry[w][k] = "in_progress"
        BY <2>4 DEF Cancel, cacheVars
      <3>2. k \in abandoned[w] \/ (WorkerOf[c] = w /\ keyOf[c] = k) => k \in abandoned'[w]
        BY <2>4 DEF Cancel, TypeOK
      <3>3. \A d \in runs : d # c => d \in runs' /\ keyOf'[d] = keyOf[d]
        BY <2>4 DEF Cancel, TypeOK
      <3> QED
        BY <2>0, <3>1, <3>2, <3>3
    <2>5. ASSUME NEW v \in Workers, WorkerCrash(v) PROVE Backed'
      <3>1. v # w /\ entry[w][k] = "in_progress"
        BY <2>5 DEF WorkerCrash, TypeOK
      <3>2. abandoned'[w] = abandoned[w]
        BY <2>5, <3>1 DEF WorkerCrash, TypeOK
      <3>3. \A d \in runs : WorkerOf[d] = w => d \in runs' /\ keyOf'[d] = keyOf[d]
        BY <2>5, <3>1 DEF WorkerCrash, TypeOK
      <3> QED
        BY <2>0, <3>1, <3>2, <3>3
    <2>6. CASE Tick
      <3>1. Age(left[w][k]) \in 0..TTL
        BY AgeBounded DEF TypeOK
      <3>2. entry[w][k] = "in_progress" /\ Age(left[w][k]) > 0
        BY <2>6, <3>1 DEF Tick
      <3>3. k \in abandoned[w] => k \in abandoned'[w]
        BY <2>6, <3>2 DEF Tick
      <3> QED
        BY <2>0, <2>6, <3>2, <3>3 DEF Tick
    <2>7. CASE UNCHANGED vars
      BY <2>0, <2>7 DEF vars, cacheVars, histVars
    <2> QED
      BY <2>1, <2>2, <2>3, <2>4, <2>5, <2>6, <2>7 DEF Next
  <1> QED
    BY <1>1, <1>2, TypeCorrect, PTL DEF Spec

--------------------------------------------------------------------------------
\* No call is at once running and torn down; with it, JournalTruthful is
\* inductive.
TornApart == runs \cap torn = {}

\* The journal shows as started exactly what runs or was torn down.
THEOREM JournalCorrect == Spec => []JournalTruthful
  <1>1. Init => TornApart /\ JournalTruthful
    BY DEF Init, TornApart, JournalTruthful
  <1>2. TypeOK /\ TornApart /\ JournalTruthful /\ [Next]_vars => (TornApart /\ JournalTruthful)'
    <2> SUFFICES ASSUME TypeOK, TornApart, JournalTruthful, [Next]_vars
                 PROVE  (TornApart /\ JournalTruthful)'
      OBVIOUS
    <2> USE DEF TypeOK, TornApart, JournalTruthful
    <2>1. ASSUME NEW c \in Calls, NEW k \in Keys \cup {NoKey}, Begin(c, k)
          PROVE  (TornApart /\ JournalTruthful)'
      BY <2>1 DEF Begin, Journal
    <2>2. ASSUME NEW c \in Calls, NEW k \in Keys \cup {NoKey}, Busy(c, k)
          PROVE  (TornApart /\ JournalTruthful)'
      BY <2>2 DEF Busy, Journal
    <2>3. ASSUME NEW c \in Calls, NEW r \in Results, Finish(c, r)
          PROVE  (TornApart /\ JournalTruthful)'
      BY <2>3 DEF Finish, Journal, Results
    <2>4. ASSUME NEW c \in Calls, Cancel(c) PROVE (TornApart /\ JournalTruthful)'
      BY <2>4 DEF Cancel
    <2>5. ASSUME NEW w \in Workers, WorkerCrash(w) PROVE (TornApart /\ JournalTruthful)'
      BY <2>5 DEF WorkerCrash
    <2>6. CASE Tick
      BY <2>6 DEF Tick
    <2>7. CASE UNCHANGED vars
      BY <2>7 DEF vars, histVars
    <2> QED
      BY <2>1, <2>2, <2>3, <2>4, <2>5, <2>6, <2>7 DEF Next
  <1> QED
    BY <1>1, <1>2, TypeCorrect, PTL DEF Spec

--------------------------------------------------------------------------------
(* The guarded entry implements OncePerKey for every worker Home.          *)

LEMMA OnceInit == Init => Once!Init
  BY DEF Init, Once!Init, RunningAtHome

\* Every step is one of OncePerKey's, or changes nothing it speaks of.
LEMMA OnceStep ==
    ASSUME TypeOK, FlockExact, WindowCovered, [Next]_vars
    PROVE  [Once!Next]_(Once!onceVars)
  <1> USE DEF Once!onceVars
  <1>1. ASSUME NEW c \in Calls, NEW k \in Keys \cup {NoKey}, Begin(c, k)
        PROVE  [Once!Next]_(Once!onceVars)
    <2>1. /\ flock = NoCall /\ flock' = c /\ c # NoCall
          /\ keyOf'[c] = k
          /\ RunningAtHome = NoCall
      BY <1>1 DEF Begin, TypeOK, RunningAtHome
    <2>2. CASE WorkerOf[c] = Home
      <3>1. RunningAtHome' = k
        BY <2>1, <2>2 DEF RunningAtHome
      <3>2. CASE k = NoKey
        <4>1. UNCHANGED window[Home]
          BY <1>1, <3>2 DEF Begin
        <4> QED
          BY <2>1, <3>1, <3>2, <4>1 DEF Once!Begin, Once!Next
      <3>3. CASE k # NoKey
        <4>1. window[Home][k] = 0
          <5>1. entry[Home][k] = "absent"
            BY <1>1, <2>2, <3>3 DEF Begin, Cached
          <5> QED
            BY <3>3, <5>1 DEF WindowCovered, TypeOK
        <4>2. window'[Home] = [window[Home] EXCEPT ![k] = TTL]
          BY <1>1, <2>2, <3>3 DEF Begin, TypeOK
        <4> QED
          BY <2>1, <3>1, <3>3, <4>1, <4>2 DEF Once!Begin, Once!Next
      <3> QED
        BY <3>2, <3>3
    <2>3. CASE WorkerOf[c] # Home
      <3>1. RunningAtHome' = NoCall
        BY <2>1, <2>3 DEF RunningAtHome
      <3>2. window'[Home] = window[Home]
        BY <1>1, <2>3 DEF Begin, TypeOK
      <3> QED
        BY <2>1, <3>1, <3>2
    <2> QED
      BY <2>2, <2>3
  <1>2. ASSUME NEW c \in Calls, NEW k \in Keys \cup {NoKey}, Busy(c, k)
        PROVE  [Once!Next]_(Once!onceVars)
    BY <1>2 DEF Busy, RunningAtHome
  <1>3. ASSUME NEW c \in Calls, NEW r \in Results, Finish(c, r)
        PROVE  [Once!Next]_(Once!onceVars)
    <2>1. /\ flock = c /\ flock' = NoCall /\ c # NoCall
          /\ RunningAtHome' = NoCall
          /\ keyOf[c] \in Keys \cup {NoKey}
      BY <1>3 DEF Finish, FlockExact, TypeOK, RunningAtHome
    <2>2. CASE WorkerOf[c] = Home
      <3>1. RunningAtHome = keyOf[c] /\ keyOf[c] # NoCall
        BY <2>1, <2>2 DEF RunningAtHome
      <3>2. CASE keyOf[c] = NoKey
        BY <1>3, <2>1, <3>1, <3>2 DEF Finish, Once!End, Once!Next
      <3>3. CASE keyOf[c] # NoKey
        <4>1. window'[Home] = [window[Home] EXCEPT ![keyOf[c]] = TTL]
          BY <1>3, <2>2, <3>3 DEF Finish, TypeOK
        <4> QED
          BY <2>1, <3>1, <3>3, <4>1 DEF Once!End, Once!Next
      <3> QED
        BY <3>2, <3>3
    <2>3. CASE WorkerOf[c] # Home
      <3>1. RunningAtHome = NoCall
        BY <2>1, <2>3 DEF RunningAtHome
      <3>2. window'[Home] = window[Home]
        BY <1>3, <2>3 DEF Finish, TypeOK
      <3> QED
        BY <2>1, <3>1, <3>2
    <2> QED
      BY <2>2, <2>3
  <1>4. ASSUME NEW c \in Calls, Cancel(c) PROVE [Once!Next]_(Once!onceVars)
    <2>1. RunningAtHome' = NoCall /\ window'[Home] = window[Home]
      BY <1>4 DEF Cancel, RunningAtHome
    <2> QED
      BY <2>1 DEF Once!End, Once!Next
  <1>5. ASSUME NEW w \in Workers, WorkerCrash(w) PROVE [Once!Next]_(Once!onceVars)
    <2>1. CASE w = Home
      <3>1. RunningAtHome' = NoCall
        BY <1>5, <2>1 DEF WorkerCrash, RunningAtHome, TypeOK
      <3>2. window'[Home] = [k \in Keys |-> 0]
        BY <1>5, <2>1 DEF WorkerCrash, TypeOK
      <3> QED
        BY <3>1, <3>2 DEF Once!Forget, Once!Next
    <2>2. CASE w # Home
      <3>1. RunningAtHome' = RunningAtHome
        BY <1>5, <2>2 DEF WorkerCrash, RunningAtHome, TypeOK
      <3>2. window'[Home] = window[Home]
        BY <1>5, <2>2 DEF WorkerCrash, TypeOK
      <3> QED
        BY <3>1, <3>2
    <2> QED
      BY <2>1, <2>2
  <1>6. CASE Tick
    <2>1. RunningAtHome' = RunningAtHome
      BY <1>6 DEF Tick, RunningAtHome
    <2>2. window'[Home] = [k \in Keys |-> IF window[Home][k] = 0 THEN 0 ELSE window[Home][k] - 1]
      BY <1>6 DEF Tick, Age
    <2> QED
      BY <2>1, <2>2 DEF Once!Tick, Once!Next
  <1>7. CASE UNCHANGED vars
    BY <1>7 DEF vars, histVars, RunningAtHome
  <1> QED
    BY <1>1, <1>2, <1>3, <1>4, <1>5, <1>6, <1>7 DEF Next

\* In every worker operations run one at a time, and at most once per
\* idempotency key and time to live.
THEOREM OncePerKeyCorrect == Spec => OncePerKeyHolds
  <1>1. Init => Once!Init
    BY OnceInit
  <1>2. TypeOK /\ FlockExact /\ WindowCovered /\ [Next]_vars => [Once!Next]_(Once!onceVars)
    BY OnceStep
  <1> QED
    BY <1>1, <1>2, TypeCorrect, FlockCorrect, WindowCorrect, PTL
       DEF Spec, OncePerKeyHolds, Once!Spec
================================================================================
