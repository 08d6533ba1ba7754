------------------------------ MODULE Operations ------------------------------
(***************************************************************************)
(* The guarded entry for server operations (services/operations.py):       *)
(* execute_operation with its idempotency cache, its journal in            *)
(* operation_state.jsonl and the flock on server_operation.lock.           *)
(*                                                                         *)
(* A call is a request's coroutine in one of the dashboard's workers.  All *)
(* that execute_operation does before it awaits the executor is one step   *)
(* of its event loop, and so is all it does afterwards.  A request that is *)
(* answered from the cache, or refused by the rate limit, the permissions, *)
(* the preflight or the active profile, changes none of this state and is  *)
(* not a step here.                                                        *)
(***************************************************************************)
EXTENDS Naturals

CONSTANTS
    Workers, Calls, WorkerOf,   \* as in ServerLifecycle
    Keys,                       \* cache keys: operation, actor and Idempotency-Key
    NoKey,                      \* the request carries no Idempotency-Key
    NoCall,                     \* nobody holds the flock
    TTL,                        \* _IDEMPOTENCY_TTL_SECONDS, in ticks
    Crashable,                  \* the workers that may be killed and started again
    Home                        \* the worker, any of them, that OncePerKey speaks of

ASSUME ConstantsAssumption ==
    /\ WorkerOf \in [Calls -> Workers]
    /\ NoKey \notin Keys
    /\ NoCall \notin Calls \cup Keys \cup {NoKey}
    /\ TTL \in Nat \ {0}
    /\ Crashable \subseteq Workers
    /\ Home \in Workers

VARIABLES
    flock,      \* holder of the flock on server_operation.lock
    entry,      \* per worker and key: what the idempotency cache says ...
    left,       \* ... and for how many ticks it still does
    runs,       \* the calls awaiting their executor
    keyOf,      \* the key of each running call
    journal,    \* what the journal last says of each call's operation
    window,     \* history: ticks for which a key of a worker must not run again
    abandoned,  \* history: keys whose entry was left behind by a run torn down
    torn        \* history: calls whose last operation was torn down

cacheVars == <<entry, left>>
histVars  == <<window, abandoned, torn>>
vars == <<flock, cacheVars, runs, keyOf, journal, histVars>>

Statuses == {"absent", "in_progress", "succeeded", "failed", "busy"}
Results  == {"succeeded", "failed"}

TypeOK ==
    /\ flock \in Calls \cup {NoCall}
    /\ entry \in [Workers -> [Keys -> Statuses]]
    /\ left \in [Workers -> [Keys -> 0..TTL]]
    /\ runs \in SUBSET Calls
    /\ keyOf \in [Calls -> Keys \cup {NoKey}]
    /\ journal \in [Calls -> {"none", "started"} \cup Results]
    /\ window \in [Workers -> [Keys -> 0..TTL]]
    /\ abandoned \in [Workers -> SUBSET Keys]
    /\ torn \in SUBSET Calls

Init ==
    /\ flock = NoCall
    /\ entry = [w \in Workers |-> [k \in Keys |-> "absent"]]
    /\ left = [w \in Workers |-> [k \in Keys |-> 0]]
    /\ runs = {}
    /\ keyOf = [c \in Calls |-> NoKey]
    /\ journal = [c \in Calls |-> "none"]
    /\ window = [w \in Workers |-> [k \in Keys |-> 0]]
    /\ abandoned = [w \in Workers |-> {}]
    /\ torn = {}

--------------------------------------------------------------------------------
\* Mutant: an entry expires a tick early.
PutForLess(w, k, status) ==
    IF k = NoKey THEN UNCHANGED cacheVars
    ELSE /\ entry' = [entry EXCEPT ![w][k] = status]
         /\ left' = [left EXCEPT ![w][k] = TTL - 1]

Put(w, k, status) ==
    IF k = NoKey THEN UNCHANGED cacheVars
    ELSE /\ entry' = [entry EXCEPT ![w][k] = status]
         /\ left' = [left EXCEPT ![w][k] = TTL]

\* Mutant: an entry in progress is no answer.
CachedIfDone(w, k) == k # NoKey /\ entry[w][k] \notin {"absent", "in_progress"}

Cached(w, k) == k # NoKey /\ entry[w][k] # "absent"

Journal(c, status) == journal' = [journal EXCEPT ![c] = status]

\* The operation is journalled, takes the flock and awaits its executor.
Begin(c, k) ==
    LET w == WorkerOf[c]
    IN  /\ c \notin runs
        /\ ~Cached(w, k)
        /\ flock = NoCall
        /\ flock' = c
        /\ Put(w, k, "in_progress")
        /\ runs' = runs \cup {c}
        /\ keyOf' = [keyOf EXCEPT ![c] = k]
        /\ Journal(c, "started")
        /\ torn' = torn \ {c}
        /\ window' = IF k = NoKey THEN window ELSE [window EXCEPT ![w][k] = TTL]
        /\ abandoned' = [abandoned EXCEPT ![w] = @ \ {k}]

\* Mutant: a refusal does not close the journal's record.
BusyLeftOpen(c, k) ==
    /\ c \notin runs
    /\ ~Cached(WorkerOf[c], k)
    /\ Put(WorkerOf[c], k, "busy")
    /\ Journal(c, "started")
    /\ torn' = torn \ {c}
    /\ abandoned' = [abandoned EXCEPT ![WorkerOf[c]] = @ \ {k}]
    /\ UNCHANGED <<flock, runs, keyOf, window>>

\* The flock is taken (or cannot be tried): nothing runs, and the refusal is
\* kept as the key's result.
Busy(c, k) ==
    /\ c \notin runs
    /\ ~Cached(WorkerOf[c], k)
    /\ Put(WorkerOf[c], k, "busy")
    /\ Journal(c, "failed")
    /\ torn' = torn \ {c}
    /\ abandoned' = [abandoned EXCEPT ![WorkerOf[c]] = @ \ {k}]
    /\ UNCHANGED <<flock, runs, keyOf, window>>

\* Mutant: the result of an executor that raised is not cached.
FinishUncached(c, result) ==
    LET w == WorkerOf[c]  k == keyOf[c]
    IN  /\ c \in runs
        /\ runs' = runs \ {c}
        /\ flock' = NoCall
        /\ IF result = "failed" THEN UNCHANGED cacheVars ELSE Put(w, k, result)
        /\ Journal(c, result)
        /\ window' = IF k = NoKey THEN window ELSE [window EXCEPT ![w][k] = TTL]
        /\ abandoned' = [abandoned EXCEPT ![w] = @ \ {k}]
        /\ keyOf' = [keyOf EXCEPT ![c] = NoKey]
        /\ UNCHANGED torn

\* The executor returned, or raised: the flock is released, the journal
\* closed and the result cached.
Finish(c, result) ==
    LET w == WorkerOf[c]  k == keyOf[c]
    IN  /\ c \in runs
        /\ runs' = runs \ {c}
        /\ flock' = NoCall
        /\ Put(w, k, result)
        /\ Journal(c, result)
        /\ window' = IF k = NoKey THEN window ELSE [window EXCEPT ![w][k] = TTL]
        /\ abandoned' = [abandoned EXCEPT ![w] = @ \ {k}]
        /\ keyOf' = [keyOf EXCEPT ![c] = NoKey]
        /\ UNCHANGED torn

\* Mutant: the lock is not released in a `finally`.
CancelKeepingFlock(c) ==
    LET w == WorkerOf[c]
    IN  /\ c \in runs
        /\ runs' = runs \ {c}
        /\ abandoned' = [abandoned EXCEPT ![w] = @ \cup ({keyOf[c]} \cap Keys)]
        /\ torn' = torn \cup {c}
        /\ keyOf' = [keyOf EXCEPT ![c] = NoKey]
        /\ UNCHANGED <<flock, cacheVars, journal, window>>

\* The coroutine is cancelled at its await.  CancelledError is no Exception:
\* only the `finally` runs.
Cancel(c) ==
    LET w == WorkerOf[c]
    IN  /\ c \in runs
        /\ runs' = runs \ {c}
        /\ flock' = NoCall
        /\ abandoned' = [abandoned EXCEPT ![w] = @ \cup ({keyOf[c]} \cap Keys)]
        /\ torn' = torn \cup {c}
        /\ keyOf' = [keyOf EXCEPT ![c] = NoKey]
        /\ UNCHANGED <<cacheVars, journal, window>>

\* A worker dies with its cache; the kernel drops its flock.
WorkerCrash(w) ==
    LET gone == {c \in Calls : WorkerOf[c] = w}
    IN  /\ w \in Crashable
        /\ runs' = runs \ gone
        /\ flock' = IF flock \in gone THEN NoCall ELSE flock
        /\ entry' = [entry EXCEPT ![w] = [k \in Keys |-> "absent"]]
        /\ left' = [left EXCEPT ![w] = [k \in Keys |-> 0]]
        /\ window' = [window EXCEPT ![w] = [k \in Keys |-> 0]]
        /\ abandoned' = [abandoned EXCEPT ![w] = {}]
        /\ torn' = torn \cup (runs \cap gone)
        /\ keyOf' = [c \in Calls |-> IF c \in gone THEN NoKey ELSE keyOf[c]]
        /\ UNCHANGED journal

\* Mutant: the remaining time is not floored at zero.
AgeUnfloored(n) == n - 1

Age(n) == IF n = 0 THEN 0 ELSE n - 1

\* Time passes; an entry whose time is up is dropped before any lookup.
Tick ==
    /\ left' = [w \in Workers |-> [k \in Keys |-> Age(left[w][k])]]
    /\ entry' = [w \in Workers |-> [k \in Keys |->
                    IF Age(left[w][k]) = 0 THEN "absent" ELSE entry[w][k]]]
    /\ abandoned' = [w \in Workers |-> {k \in abandoned[w] : Age(left[w][k]) > 0}]
    /\ window' = [w \in Workers |-> [k \in Keys |-> Age(window[w][k])]]
    /\ UNCHANGED <<flock, runs, keyOf, journal, torn>>

--------------------------------------------------------------------------------
Next ==
    \/ \E c \in Calls, k \in Keys \cup {NoKey} : Begin(c, k) \/ Busy(c, k)
    \/ \E c \in Calls : (\E r \in Results : Finish(c, r)) \/ Cancel(c)
    \/ \E w \in Workers : WorkerCrash(w)
    \/ Tick

Spec == Init /\ [][Next]_vars

--------------------------------------------------------------------------------
(* Properties.                                                             *)

\* The flock is held exactly while an operation awaits its executor, by that
\* operation: operations of all workers exclude each other and none of the
\* ways an operation ends keeps the lock.
FlockExact ==
    /\ runs \subseteq {flock}
    /\ flock # NoCall => flock \in runs

\* A cache entry that answers "already in progress" is backed by a run in
\* progress with that key, or by one that was cancelled: a run that returned,
\* raised or was refused never leaves it behind.
InProgressIsTrue ==
    \A w \in Workers, k \in Keys :
        entry[w][k] = "in_progress" =>
            k \in abandoned[w] \/ \E c \in runs : WorkerOf[c] = w /\ keyOf[c] = k

\* An operation the journal shows as started is one that still runs, unless it
\* was torn down by a cancellation or with its worker; a running one is always
\* shown as started.
JournalTruthful == \A c \in Calls : journal[c] = "started" <=> c \in runs \cup torn

\* While a run that began or ended less than a TTL ago forbids its key to run
\* again, the cache answers for the key (at least that long).
WindowCovered ==
    \A w \in Workers, k \in Keys :
        window[w][k] > 0 => entry[w][k] # "absent" /\ window[w][k] <= left[w][k]

\* In a worker, operations run one at a time and at most once per key and
\* TTL (execute_operation, tests/test_reliability_ops.py).
RunningAtHome ==
    IF flock # NoCall /\ WorkerOf[flock] = Home THEN keyOf[flock] ELSE NoCall
Once == INSTANCE OncePerKey
            WITH None <- NoCall, running <- RunningAtHome, window <- window[Home]
OncePerKeyHolds == Once!Spec
================================================================================
