----------------------------- MODULE MCSchedulers -----------------------------
(***************************************************************************)
(* Schedulers on small instances.                                          *)
(***************************************************************************)
EXTENDS Schedulers

\* Left to themselves: hangs, recoveries and failures of every step.
Automatic == [manual |-> FALSE, admin |-> FALSE, hangs |-> TRUE, failures |-> TRUE,
              toggles |-> TRUE, tokens |-> 2]

\* Administrators trigger and cancel restarts and backups; status reads may be stale.
Administered == [manual |-> TRUE, admin |-> FALSE, hangs |-> FALSE, failures |-> FALSE,
                 toggles |-> FALSE, tokens |-> 1]

\* The same with failures; and without administrators, but others at the server.
Failing == [Administered EXCEPT !.failures = TRUE, !.toggles = TRUE, !.tokens = 2]
Attended == [Administered EXCEPT !.manual = FALSE, !.admin = TRUE, !.toggles = TRUE]

SafetyWorlds   == {Automatic, Administered}
LivenessWorlds == {Attended}
FailingWorlds  == {Failing}
================================================================================
