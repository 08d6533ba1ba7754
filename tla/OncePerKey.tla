------------------------------ MODULE OncePerKey ------------------------------
(***************************************************************************)
(* What execute_operation (services/operations.py) promises to the clients *)
(* of one dashboard process: server operations run one at a time, and a    *)
(* run that carries an idempotency key is not repeated within the key's    *)
(* time to live, however often the request is.                             *)
(***************************************************************************)
EXTENDS Naturals

CONSTANTS
    Keys,       \* idempotency keys, each with the operation and the actor it is for
    NoKey,      \* a request without a key
    None,       \* nothing runs
    TTL         \* _IDEMPOTENCY_TTL_SECONDS, in ticks

VARIABLES
    running,    \* the key of the run in progress
    window      \* per key: ticks for which it must not run again

onceVars == <<running, window>>

Init ==
    /\ running = None
    /\ window = [k \in Keys |-> 0]

Begin(k) ==
    /\ running = None
    /\ running' = k
    /\ IF k = NoKey THEN UNCHANGED window
       ELSE window[k] = 0 /\ window' = [window EXCEPT ![k] = TTL]

\* A run that ends renews its window; one that is torn down does not.
End ==
    /\ running # None
    /\ running' = None
    /\ \/ UNCHANGED window
       \/ running # NoKey /\ window' = [window EXCEPT ![running] = TTL]

Tick ==
    /\ window' = [k \in Keys |-> IF window[k] = 0 THEN 0 ELSE window[k] - 1]
    /\ UNCHANGED running

\* A new process takes over and remembers nothing.
Forget ==
    /\ running' = None
    /\ window' = [k \in Keys |-> 0]

Next == (\E k \in Keys \cup {NoKey} : Begin(k)) \/ End \/ Tick \/ Forget

Spec == Init /\ [][Next]_onceVars
================================================================================
