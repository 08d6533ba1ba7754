-------------------------- MODULE SetupExecutorProofs --------------------------
(***************************************************************************)
(* Proofs about SetupExecutor, for any number of requests, attempts and    *)
(* artifacts: first in one worker or in several, then what holds when the  *)
(* requests share one worker, as the module lock of one process makes them.*)
(***************************************************************************)
EXTENDS SetupExecutor, TLAPS

\* Where a request works on an attempt, its own or a dead one.
Owning == {"write", "recheck", "withdraw"} \cup Preparing \cup Creating \cup Cleaning
Finishing == {"rmLedger", "rmDir", "rmStaging"}

\* The types, and what they rest on: who works on an attempt has one, and only the
\* removal of the markers goes on to the end.
LocalOK(l) ==
    /\ l \in Locals
    /\ l.pc \in Owning => l.of \in Attempts
    /\ l.then = "done" => l.pc \in Finishing

MeOK == me \in [Requests -> Locals] /\ \A r \in Requests : LocalOK(me[r])
TypeInv == TypeOK /\ MeOK

--------------------------------------------------------------------------------
(* Changes of the directory and of a request keep their types.             *)

LEMMA ClaimUpdate ==
    ASSUME NEW d \in Disks, NEW c \in Claims \cup {NoClaim}
    PROVE  [d EXCEPT !.claim = c] \in Disks
  BY DEF Disks

LEMMA LedgerUpdate ==
    ASSUME NEW d \in Disks, NEW a \in Attempts, NEW l \in Ledgers
    PROVE  [d EXCEPT !.ledger[a] = l] \in Disks
  BY DEF Disks

LEMMA WriteLedgerUpdate ==
    ASSUME NEW d \in Disks, NEW a \in Attempts, NEW l \in Ledgers
    PROVE  [d EXCEPT !.ledger[a] = l, !.staging = TRUE,
                     !.dir[a] = IF @ = "none" THEN "clean" ELSE @] \in Disks
  BY DEF Disks

LEMMA DirUpdate ==
    ASSUME NEW d \in Disks, NEW a \in Attempts, NEW v \in {"none", "clean", "littered"}
    PROVE  [d EXCEPT !.dir[a] = v] \in Disks
  BY DEF Disks

LEMMA StagedUpdate ==
    ASSUME NEW d \in Disks, NEW a \in Attempts, NEW i \in Artifacts,
           NEW v \in {"none", "partial", "full"}
    PROVE  [d EXCEPT !.staged[a][i] = v] \in Disks
  BY DEF Disks

LEMMA FinalUpdate ==
    ASSUME NEW d \in Disks, NEW i \in Artifacts, NEW v \in Attempts \cup {Nobody, Outsider}
    PROVE  [d EXCEPT !.final[i] = v] \in Disks
  BY DEF Disks

LEMMA FlagUpdate ==
    ASSUME NEW d \in Disks, NEW b \in BOOLEAN
    PROVE  /\ [d EXCEPT !.staging = b] \in Disks
           /\ [d EXCEPT !.foreign = b] \in Disks
  BY DEF Disks

LEMMA FirstArtifact == 1 \in Artifacts
  BY ArtifactsAssumption DEF Artifacts

LEMMA CleanFinalPC == "cleanFinal" \in PCs
  BY DEF PCs, Cleaning

LEMMA IdleOK == LocalOK(Idle)
  BY ArtifactsAssumption
  DEF LocalOK, Owning, Preparing, Creating, Cleaning, Finishing, Idle, Locals, Artifacts,
      PCs, Awaiting, LedgerStates, ArtStates, Planned

\* One request's memory becomes l.
LEMMA Becomes ==
    ASSUME MeOK, NEW r \in Requests, NEW l, LocalOK(l), me' = [me EXCEPT ![r] = l]
    PROVE  MeOK'
  <1>1. me' \in [Requests -> Locals]
    BY DEF MeOK, LocalOK
  <1>2. ASSUME NEW q \in Requests PROVE LocalOK(me'[q])
    BY <1>1 DEF MeOK
  <1> QED
    BY <1>1, <1>2 DEF MeOK, LocalOK

LEMMA AnswerOK ==
    ASSUME MeOK, NEW r \in Requests, Answer(r)
    PROVE  MeOK'
  BY IdleOK, Becomes DEF Answer

LEMMA GoOK ==
    ASSUME MeOK, NEW r \in Requests, NEW label \in PCs, Go(r, label),
           label \in Owning => me[r].of \in Attempts,
           me[r].then = "done" => label \in Finishing
    PROVE  MeOK'
  <1> DEFINE l == [me[r] EXCEPT !.pc = label]
  <1>1. LocalOK(me[r])
    BY DEF MeOK
  <1>2. l \in Locals /\ l.pc = label /\ l.of = me[r].of /\ l.then = me[r].then
    BY <1>1 DEF LocalOK, Locals
  <1>3. LocalOK(l)
    BY <1>2 DEF LocalOK
  <1>4. me' = [me EXCEPT ![r] = l]
    BY DEF Go
  <1> HIDE DEF l
  <1> QED
    BY <1>3, <1>4, Becomes

LEMMA StartCleanupOK ==
    ASSUME MeOK, NEW r \in Requests, StartCleanup(r), me[r].of \in Attempts
    PROVE  MeOK'
  <1> DEFINE l == [me[r] EXCEPT !.pc = "cleanFinal", !.at = 1, !.then = "refused"]
  <1>1. LocalOK(me[r])
    BY DEF MeOK
  <1>2. l \in Locals /\ l.of = me[r].of /\ l.then = "refused"
    BY <1>1, FirstArtifact, CleanFinalPC DEF LocalOK, Locals
  <1>3. LocalOK(l)
    BY <1>2 DEF LocalOK
  <1>4. me' = [me EXCEPT ![r] = l]
    BY DEF StartCleanup
  <1> HIDE DEF l
  <1> QED
    BY <1>3, <1>4, Becomes

LEMMA WriteClaimOK ==
    ASSUME TypeInv, NEW r \in Requests, NEW label \in Owning, NEW next \in Owning \cap PCs,
           NEW at \in {"new", "claimed", "staged", "published", "profile_created"},
           label \notin Finishing, WriteClaim(r, label, at, next)
    PROVE  TypeInv'
  <1> DEFINE l == [me[r] EXCEPT !.pc = next, !.at = 1]
             c == [by |-> me[r].of, at |-> at]
  <1>1. LocalOK(me[r]) /\ me[r].of \in Attempts /\ me[r].then # "done"
    BY DEF TypeInv, MeOK, LocalOK, WriteClaim, At
  <1>2. c \in Claims
    BY <1>1 DEF Claims
  <1>3. disk' \in Disks /\ UNCHANGED <<profile, old>>
    BY <1>2, ClaimUpdate DEF WriteClaim, DiskIs, TypeInv, TypeOK
  <1>4. l \in Locals /\ l.of = me[r].of /\ l.then = me[r].then
    BY <1>1, FirstArtifact DEF LocalOK, Locals
  <1>5. LocalOK(l)
    BY <1>1, <1>4 DEF LocalOK
  <1>6. me' = [me EXCEPT ![r] = l]
    BY DEF WriteClaim
  <1> HIDE DEF l
  <1> QED
    BY <1>3, <1>5, <1>6, Becomes DEF TypeInv, TypeOK, MeOK

LEMMA WithLedgerType ==
    ASSUME TypeInv, NEW r \in Requests, me[r].of \in Attempts, NEW l \in Ledgers
    PROVE  WithLedger(r, l) \in Disks
  BY WriteLedgerUpdate DEF WithLedger, TypeInv, TypeOK

LEMMA WriteLedgerOK ==
    ASSUME TypeInv, NEW r \in Requests, NEW label \in Owning, NEW next \in Owning \cap PCs,
           label \notin Finishing, WriteLedger(r, label, next)
    PROVE  TypeInv'
  <1>1. LocalOK(me[r]) /\ me[r].of \in Attempts /\ me[r].then # "done"
    BY DEF TypeInv, MeOK, LocalOK, WriteLedger, At
  <1>2. LedgerOf(r) \in Ledgers
    BY <1>1 DEF LocalOK, Locals, LedgerOf, Ledgers
  <1>3. disk' \in Disks /\ UNCHANGED <<profile, old>>
    BY <1>1, <1>2, WithLedgerType DEF WriteLedger, DiskIs
  <1>4. MeOK'
    BY <1>1, GoOK DEF WriteLedger, TypeInv
  <1> QED
    BY <1>3, <1>4 DEF TypeInv, TypeOK, MeOK

\* Where an attempt is not needed yet.
LEMMA Labels ==
    /\ Owning \subseteq PCs
    /\ {"idle", "verify", "fetch", "unclaim", "scan", "lookup", "check", "create"} \subseteq PCs
    /\ {"idle", "verify", "fetch", "unclaim", "scan", "lookup", "check", "create"} \cap Owning = {}
    /\ Finishing \subseteq Cleaning
  BY DEF PCs, Awaiting, Recovering, Claiming, Preparing, Creating, Cleaning, Owning, Finishing

LEMMA Known ==
    ASSUME TypeInv, NEW r \in Requests
    PROVE  /\ disk \in Disks
           /\ MeOK
           /\ LocalOK(me[r])
           /\ me[r].pc \in Owning => me[r].of \in Attempts
           /\ me[r].then = "done" => me[r].pc \in Finishing
           /\ me[r].then \in {"unclaim", "scan", "refused", "done"}
           /\ me[r].at \in Artifacts
  BY DEF TypeInv, TypeOK, MeOK, LocalOK, Locals

\* The parts that make up the types after a step.
LEMMA Assemble ==
    ASSUME disk' \in Disks, profile' \in BOOLEAN, old' \subseteq Attempts, MeOK'
    PROVE  TypeInv'
  BY DEF TypeInv, TypeOK, MeOK

LEMMA Kept ==
    ASSUME TypeInv, DiskKept, MeOK'
    PROVE  TypeInv'
  BY DEF DiskKept, TypeInv, TypeOK, MeOK

LEMMA Changed ==
    ASSUME TypeInv, NEW d \in Disks, DiskIs(d), MeOK'
    PROVE  TypeInv'
  BY DEF DiskIs, TypeInv, TypeOK, MeOK

LEMMA NoClaimUpdate ==
    ASSUME TypeInv
    PROVE  [disk EXCEPT !.claim = NoClaim] \in Disks
  BY ClaimUpdate DEF TypeInv, TypeOK

LEMMA RemoveClaimOK ==
    ASSUME TypeInv, NEW r \in Requests, NEW label, RemoveClaim(r, label), MeOK'
    PROVE  TypeInv'
  BY NoClaimUpdate, Changed DEF RemoveClaim

--------------------------------------------------------------------------------
(* Every step keeps the types.                                             *)

LEMMA RecoverLedgerOK ==
    ASSUME TypeInv, NEW r \in Requests, NEW a \in Attempts, NEW then \in {"unclaim", "scan"},
           RecoverLedger(r, a, then)
    PROVE  MeOK'
  <1>1. CASE disk.ledger[a].state = "profile_created"
    BY <1>1, Known, AnswerOK DEF RecoverLedger
  <1>2. CASE disk.ledger[a].state # "profile_created"
    <2> DEFINE l == [pc |-> "cleanFinal", of |-> a, state |-> disk.ledger[a].state,
                     art |-> disk.ledger[a].art, at |-> 1, drop |-> TRUE, then |-> then]
    <2>1. disk.ledger[a] \in Ledgers
      BY DEF TypeInv, TypeOK, Disks
    <2>2. l \in Locals
      BY <2>1, FirstArtifact, CleanFinalPC DEF Locals, Ledgers
    <2>3. LocalOK(l)
      BY <2>2 DEF LocalOK
    <2>4. me' = [me EXCEPT ![r] = l]
      BY <1>2 DEF RecoverLedger
    <2> HIDE DEF l
    <2> QED
      BY <2>3, <2>4, Becomes, Known
  <1> QED
    BY <1>1, <1>2

LEMMA RecoverTypes ==
    ASSUME TypeInv, NEW r \in Requests, RecoverStep(r)
    PROVE  TypeInv'
  <1> USE Known, Labels
  <1>1. ASSUME Recover(r) PROVE TypeInv'
    <2>1. me[r].then # "done" /\ DiskKept
      BY <1>1 DEF Recover, At, Finishing
    <2>2. CASE Go(r, "lookup") \/ Go(r, "scan") \/ Go(r, "unclaim")
      BY <2>1, <2>2, GoOK, Kept
    <2>3. CASE disk.claim.by \in old /\ RecoverLedger(r, disk.claim.by, "unclaim")
      BY <2>1, <2>3, RecoverLedgerOK, Kept DEF TypeInv, TypeOK
    <2> QED
      BY <1>1, <2>2, <2>3 DEF Recover
  <1>2. ASSUME Unclaim(r) PROVE TypeInv'
    BY <1>2, GoOK, RemoveClaimOK DEF Unclaim, RemoveClaim, At, Finishing
  <1>3. ASSUME Scan(r) PROVE TypeInv'
    <2>1. me[r].then # "done"
      BY <1>3 DEF Scan, At, Finishing
    <2>2. CASE DiskIs([disk EXCEPT !.staging = FALSE]) /\ Go(r, "lookup")
      BY <2>1, <2>2, GoOK, FlagUpdate, Changed
    <2>3. ASSUME NEW a \in Attempts, DiskKept, RecoverLedger(r, a, "scan") \/ Answer(r)
          PROVE  TypeInv'
      BY <2>3, RecoverLedgerOK, AnswerOK, Kept
    <2> QED
      BY <1>3, <2>2, <2>3 DEF Scan
  <1>4. ASSUME Lookup(r) PROVE TypeInv'
    <2>1. me[r].then # "done"
      BY <1>4 DEF Lookup, At, Finishing
    <2>2. CASE DiskIs([disk EXCEPT !.claim = NoClaim]) /\ Go(r, "verify")
      BY <2>1, <2>2, GoOK, NoClaimUpdate, Changed
    <2>3. CASE DiskKept /\ (Answer(r) \/ Go(r, "fetch"))
      BY <2>1, <2>3, GoOK, AnswerOK, Kept
    <2> QED
      BY <1>4, <2>2, <2>3 DEF Lookup
  <1>5. ASSUME Verify(r) PROVE TypeInv'
    BY <1>5, AnswerOK, Kept DEF Verify
  <1> QED
    BY <1>1, <1>2, <1>3, <1>4, <1>5 DEF RecoverStep

LEMMA ClaimTypes ==
    ASSUME TypeInv, NEW r \in Requests, ClaimStep(r)
    PROVE  TypeInv'
  <1> USE Known, Labels
  <1>1. ASSUME Fetch(r) PROVE TypeInv'
    BY <1>1, GoOK, AnswerOK, Kept DEF Fetch, At, Finishing
  <1>2. ASSUME CheckEmpty(r) PROVE TypeInv'
    BY <1>2, GoOK, AnswerOK, Kept DEF CheckEmpty, At, Finishing
  <1>3. ASSUME CreateClaim(r) PROVE TypeInv'
    <2>1. CASE DiskKept /\ Answer(r)
      BY <2>1, AnswerOK, Kept
    <2>2. ASSUME NEW a \in Attempts,
                 disk' = [disk EXCEPT !.claim = [by |-> a, at |-> "torn"]],
                 old' = old \ {a}, UNCHANGED profile,
                 me' = [me EXCEPT ![r] = [Idle EXCEPT !.pc = "write", !.of = a, !.state = "claimed"]]
          PROVE  TypeInv'
      <3> DEFINE l == [Idle EXCEPT !.pc = "write", !.of = a, !.state = "claimed"]
      <3>1. "write" \in PCs /\ "claimed" \in LedgerStates
        BY DEF PCs, Claiming, LedgerStates
      <3>2. Idle \in Locals /\ Idle.then # "done"
        BY IdleOK DEF LocalOK, Idle
      <3>3. l \in Locals /\ l.of = a /\ l.then = Idle.then
        BY <3>1, <3>2 DEF Locals
      <3>4. LocalOK(l)
        BY <3>2, <3>3 DEF LocalOK
      <3>5. me' = [me EXCEPT ![r] = l]
        BY <2>2
      <3> HIDE DEF l
      <3>6. MeOK'
        BY <3>4, <3>5, Becomes
      <3>7. [by |-> a, at |-> "torn"] \in Claims
        BY DEF Claims
      <3>8. disk' \in Disks /\ profile' \in BOOLEAN /\ old' \subseteq Attempts
        BY <2>2, <3>7, ClaimUpdate DEF TypeInv, TypeOK
      <3> QED
        BY <3>6, <3>8, Assemble
    <2> QED
      BY <1>3, <2>1, <2>2 DEF CreateClaim
  <1>4. ASSUME FillClaim(r) PROVE TypeInv'
    BY <1>4, WriteClaimOK DEF FillClaim, Owning, Finishing, PCs, Claiming
  <1>5. ASSUME Recheck(r) PROVE TypeInv'
    <2>1. me[r].then # "done" /\ me[r].of \in Attempts /\ DiskKept
      BY <1>5 DEF Recheck, At, Finishing, Owning
    <2>2. \E label \in {"mkdir", "withdraw"} : Go(r, label)
      BY <1>5 DEF Recheck
    <2>3. {"mkdir", "withdraw"} \subseteq PCs
      BY DEF PCs, Preparing
    <2> QED
      BY <2>1, <2>2, <2>3, GoOK, Kept
  <1>6. ASSUME Withdraw(r) PROVE TypeInv'
    BY <1>6, AnswerOK, RemoveClaimOK DEF Withdraw
  <1>7. ASSUME MakeDir(r) PROVE TypeInv'
    <2> DEFINE d == [disk EXCEPT !.dir[me[r].of] = "clean", !.staging = TRUE]
    <2>1. me[r].then # "done" /\ me[r].of \in Attempts /\ DiskIs(d) /\ Go(r, "ledger")
      BY <1>7 DEF MakeDir, At, Finishing, Owning, Preparing
    <2>2. d \in Disks
      BY <2>1 DEF Disks
    <2>3. "ledger" \in PCs
      BY DEF PCs, Preparing
    <2> HIDE DEF d
    <2> QED
      BY <2>1, <2>2, <2>3, GoOK, Changed
  <1>8. ASSUME FirstLedger(r) PROVE TypeInv'
    BY <1>8, WriteLedgerOK DEF FirstLedger, Owning, Finishing, PCs, Preparing, Creating
  <1>9. ASSUME NoteClaimed(r) PROVE TypeInv'
    BY <1>9, WriteClaimOK DEF NoteClaimed, Owning, Finishing, PCs, Creating
  <1> QED
    BY <1>1, <1>2, <1>3, <1>4, <1>5, <1>6, <1>7, <1>8, <1>9 DEF ClaimStep

\* A request goes on with its own attempt.
LEMMA GoesOn ==
    ASSUME MeOK, NEW r \in Requests, me[r].pc \in Creating, NEW l \in Locals,
           l.pc \in Owning, l.of = me[r].of, l.then = me[r].then, me' = [me EXCEPT ![r] = l]
    PROVE  MeOK'
  <1>1. me[r].of \in Attempts /\ me[r].then # "done"
    BY DEF MeOK, LocalOK, Owning, Finishing, Creating
  <1>2. LocalOK(l)
    BY <1>1 DEF LocalOK
  <1> QED
    BY <1>2, Becomes

LEMMA Working ==
    ASSUME TypeInv, NEW r \in Requests, me[r].pc \in Creating
    PROVE  /\ me[r].of \in Attempts
           /\ me[r].then # "done"
           /\ me[r] \in Locals
           /\ me[r].art \in [Artifacts -> ArtStates]
  <1>1. LocalOK(me[r])
    BY Known
  <1>2. me[r].of \in Attempts /\ me[r].then # "done"
    BY <1>1 DEF LocalOK, Owning, Finishing, Creating
  <1> QED
    BY <1>1, <1>2 DEF LocalOK, Locals

\* The loops over the artifacts stay among them.
LEMMA NextArtifact ==
    ASSUME NEW r, me[r].at \in Artifacts, ~LastArtifact(r)
    PROVE  me[r].at + 1 \in Artifacts
  BY ArtifactsAssumption DEF Artifacts, LastArtifact

LEMMA PublishTypes ==
    ASSUME TypeInv, NEW r \in Requests, PublishStep(r)
    PROVE  TypeInv'
  <1> USE Known
  <1>1. ASSUME Stage(r) PROVE TypeInv'
    <2> DEFINE a == me[r].of
               i == me[r].at
    <2>1. me[r].pc = "stage" /\ me[r].pc \in Creating
      BY <1>1 DEF Stage, At, Creating
    <2>2. a \in Attempts /\ i \in Artifacts
      BY <2>1, Working
    <2>3. CASE DiskIs([disk EXCEPT !.staged[a][i] = "partial"]) /\ UNCHANGED me
      <3>1. MeOK'
        BY <2>3 DEF MeOK
      <3> QED
        BY <2>2, <2>3, <3>1, StagedUpdate, Changed
    <2>4. ASSUME DiskIs([disk EXCEPT !.staged[a][i] = "full"]),
                 me' = [me EXCEPT ![r].art[i] = "staged",
                                  ![r].at = IF LastArtifact(r) THEN 1 ELSE i + 1,
                                  ![r].state = IF LastArtifact(r) THEN "staged" ELSE @,
                                  ![r].pc = IF LastArtifact(r) THEN "recordStaged" ELSE @]
          PROVE  TypeInv'
      <3> DEFINE pc == IF LastArtifact(r) THEN "recordStaged" ELSE me[r].pc
                 at == IF LastArtifact(r) THEN 1 ELSE i + 1
                 state == IF LastArtifact(r) THEN "staged" ELSE me[r].state
                 art == [me[r].art EXCEPT ![i] = "staged"]
                 l == [me[r] EXCEPT !.art = art, !.at = at, !.state = state, !.pc = pc]
      <3>1. at \in Artifacts
        BY <2>2, FirstArtifact, NextArtifact
      <3>2. pc \in Owning
        BY <2>1 DEF Owning, Creating
      <3>3. state \in LedgerStates /\ art \in [Artifacts -> ArtStates]
        BY <2>1, <2>2, Working DEF LedgerStates, ArtStates, Locals
      <3>4. me' = [me EXCEPT ![r] = l]
        BY <2>4
      <3> HIDE DEF pc, at, state, art
      <3>5. l \in Locals /\ l.pc = pc /\ l.of = me[r].of /\ l.then = me[r].then
        BY <2>1, <3>1, <3>2, <3>3, Working, Labels DEF Locals
      <3> HIDE DEF l
      <3>6. MeOK'
        BY <2>1, <3>2, <3>4, <3>5, GoesOn
      <3> QED
        BY <2>2, <2>4, <3>6, StagedUpdate, Changed
    <2> QED
      BY <1>1, <2>3, <2>4 DEF Stage
  <1>2. ASSUME RecordStaged(r) PROVE TypeInv'
    BY <1>2, WriteLedgerOK DEF RecordStaged, Owning, Finishing, PCs, Creating
  <1>3. ASSUME NoteStaged(r) PROVE TypeInv'
    BY <1>3, WriteClaimOK DEF NoteStaged, Owning, Finishing, PCs, Creating
  <1>4. ASSUME Announce(r) PROVE TypeInv'
    <2> DEFINE art == [me[r].art EXCEPT ![me[r].at] = "publishing"]
               v == [state |-> "publishing", art |-> art]
               l == [me[r] EXCEPT !.pc = "link", !.state = "publishing", !.art = art]
    <2>1. me[r].pc \in Creating /\ me[r].of \in Attempts
      BY <1>4, Working DEF Announce, At, Creating
    <2>2. art \in [Artifacts -> ArtStates] /\ "publishing" \in LedgerStates
      BY <2>1, Working DEF ArtStates, LedgerStates
    <2>3. v \in Ledgers
      BY <2>2 DEF Ledgers
    <2>4. DiskIs(WithLedger(r, v)) /\ me' = [me EXCEPT ![r] = l]
      BY <1>4 DEF Announce
    <2> HIDE DEF art
    <2>5. "link" \in Owning
      BY DEF Owning, Creating
    <2>6. l \in Locals /\ l.pc = "link" /\ l.of = me[r].of /\ l.then = me[r].then
      BY <2>1, <2>2, <2>5, Working, Labels DEF Locals
    <2> HIDE DEF l, v
    <2>7. MeOK'
      BY <2>1, <2>4, <2>5, <2>6, GoesOn
    <2> QED
      BY <2>1, <2>3, <2>4, <2>7, WithLedgerType, Changed
  <1>5. ASSUME Link(r) PROVE TypeInv'
    <2> DEFINE i == me[r].at
               art == [me[r].art EXCEPT ![i] = "published"]
               l == [me[r] EXCEPT !.pc = "recordPublished", !.state = "published", !.art = art]
    <2>1. me[r].pc \in Creating /\ me[r].of \in Attempts /\ i \in Artifacts
      BY <1>5, Working DEF Link, At, Creating
    <2>2. CASE DiskKept /\ StartCleanup(r)
      BY <2>1, <2>2, StartCleanupOK, Kept
    <2>3. ASSUME DiskIs([disk EXCEPT !.final[i] = me[r].of]),
                 me' = [me EXCEPT ![r].pc = "recordPublished", ![r].state = "published",
                                  ![r].art[i] = "published"]
          PROVE  TypeInv'
      <3>1. art \in [Artifacts -> ArtStates] /\ "published" \in LedgerStates
        BY <2>1, Working DEF ArtStates, LedgerStates
      <3>2. "recordPublished" \in Owning
        BY DEF Owning, Creating
      <3>3. me' = [me EXCEPT ![r] = l]
        BY <2>3
      <3> HIDE DEF art
      <3>4. l \in Locals /\ l.pc = "recordPublished" /\ l.of = me[r].of /\ l.then = me[r].then
        BY <2>1, <3>1, <3>2, Working, Labels DEF Locals
      <3> HIDE DEF l
      <3>5. MeOK'
        BY <2>1, <3>2, <3>3, <3>4, GoesOn
      <3> QED
        BY <2>1, <2>3, <3>5, FinalUpdate, Changed
    <2> QED
      BY <1>5, <2>2, <2>3 DEF Link
  <1>6. ASSUME RecordPublished(r) PROVE TypeInv'
    BY <1>6, WriteLedgerOK DEF RecordPublished, Owning, Finishing, PCs, Creating
  <1>7. ASSUME Unlink(r) PROVE TypeInv'
    <2> DEFINE pc == IF LastArtifact(r) THEN "notePublished" ELSE "announce"
               at == IF LastArtifact(r) THEN 1 ELSE me[r].at + 1
               l == [me[r] EXCEPT !.pc = pc, !.at = at]
    <2>1. me[r].pc \in Creating /\ me[r].of \in Attempts
      BY <1>7, Working DEF Unlink, At, Creating
    <2>2. DiskIs([disk EXCEPT !.staged[me[r].of][me[r].at] = "none"])
      BY <1>7 DEF Unlink
    <2>3. me' = [me EXCEPT ![r] = l]
      BY <1>7 DEF Unlink
    <2>4. pc \in Owning /\ at \in Artifacts
      BY FirstArtifact, NextArtifact DEF Owning, Creating
    <2> HIDE DEF pc, at
    <2>5. l \in Locals /\ l.pc = pc /\ l.of = me[r].of /\ l.then = me[r].then
      BY <2>1, <2>4, Working, Labels DEF Locals
    <2> HIDE DEF l
    <2>6. MeOK'
      BY <2>1, <2>3, <2>4, <2>5, GoesOn
    <2> QED
      BY <2>1, <2>2, <2>6, StagedUpdate, Changed
  <1>8. ASSUME NotePublished(r) PROVE TypeInv'
    BY <1>8, WriteClaimOK DEF NotePublished, Owning, Finishing, PCs, Creating
  <1> QED
    BY <1>1, <1>2, <1>3, <1>4, <1>5, <1>6, <1>7, <1>8 DEF PublishStep

LEMMA ProfileTypes ==
    ASSUME TypeInv, NEW r \in Requests, ProfileStep(r)
    PROVE  TypeInv'
  <1> USE Known
  <1>1. ASSUME CreateProfile(r) PROVE TypeInv'
    <2>1. me[r].pc \in Creating /\ me[r].of \in Attempts
      BY <1>1, Working DEF CreateProfile, At, Creating
    <2>2. UNCHANGED <<disk, old>> /\ profile' \in BOOLEAN
      BY <1>1 DEF CreateProfile, TypeInv, TypeOK
    <2>3. CASE StartCleanup(r)
      BY <2>1, <2>2, <2>3, StartCleanupOK, Assemble DEF TypeInv, TypeOK
    <2>4. ASSUME me' = [me EXCEPT ![r].pc = "recordProfile", ![r].state = "profile_created",
                                  ![r].drop = FALSE]
          PROVE  TypeInv'
      <3> DEFINE l == [me[r] EXCEPT !.pc = "recordProfile", !.state = "profile_created",
                                    !.drop = FALSE]
      <3>1. "recordProfile" \in Owning /\ "profile_created" \in LedgerStates
        BY DEF Owning, Creating, LedgerStates
      <3>2. me' = [me EXCEPT ![r] = l]
        BY <2>4
      <3>3. l \in Locals /\ l.pc = "recordProfile" /\ l.of = me[r].of /\ l.then = me[r].then
        BY <2>1, <3>1, Working, Labels DEF Locals
      <3> HIDE DEF l
      <3>4. MeOK'
        BY <2>1, <3>1, <3>2, <3>3, GoesOn
      <3> QED
        BY <2>2, <3>4, Assemble DEF TypeInv, TypeOK
    <2> QED
      BY <1>1, <2>3, <2>4 DEF CreateProfile
  <1>2. ASSUME RecordProfile(r) PROVE TypeInv'
    BY <1>2, WriteLedgerOK DEF RecordProfile, Owning, Finishing, PCs, Creating
  <1>3. ASSUME NoteProfile(r) PROVE TypeInv'
    BY <1>3, WriteClaimOK DEF NoteProfile, Owning, Finishing, PCs, Creating
  <1>4. ASSUME RecordComplete(r) PROVE TypeInv'
    <2> DEFINE v == [state |-> "complete", art |-> me[r].art]
               l == [me[r] EXCEPT !.pc = "complete", !.state = "complete"]
    <2>1. me[r].pc \in Creating /\ me[r].of \in Attempts
      BY <1>4, Working DEF RecordComplete, At, Creating
    <2>2. DiskIs(WithLedger(r, v)) /\ me' = [me EXCEPT ![r] = l]
      BY <1>4 DEF RecordComplete
    <2>3. v \in Ledgers
      BY <2>1, Working DEF Ledgers, LedgerStates
    <2>4. "complete" \in Owning /\ "complete" \in LedgerStates
      BY DEF Owning, Creating, LedgerStates
    <2>5. l \in Locals /\ l.pc = "complete" /\ l.of = me[r].of /\ l.then = me[r].then
      BY <2>1, <2>4, Working, Labels DEF Locals
    <2> HIDE DEF l, v
    <2>6. MeOK'
      BY <2>1, <2>2, <2>4, <2>5, GoesOn
    <2> QED
      BY <2>1, <2>2, <2>3, <2>6, WithLedgerType, Changed
  <1>5. ASSUME Complete(r) PROVE TypeInv'
    <2> DEFINE l == [me[r] EXCEPT !.pc = "rmLedger", !.then = "done"]
    <2>1. me[r].pc \in Creating /\ me[r].of \in Attempts
      BY <1>5, Working DEF Complete, RemoveClaim, At, Creating
    <2>2. "rmLedger" \in Finishing /\ "rmLedger" \in PCs
      BY DEF Finishing, PCs, Cleaning
    <2>3. l \in Locals /\ l.pc = "rmLedger" /\ l.of = me[r].of
      BY <2>2 DEF LocalOK, Locals
    <2>4. LocalOK(l)
      BY <2>1, <2>2, <2>3 DEF LocalOK
    <2>5. me' = [me EXCEPT ![r] = l]
      BY <1>5 DEF Complete
    <2> HIDE DEF l
    <2>6. MeOK'
      BY <2>4, <2>5, Becomes
    <2> QED
      BY <1>5, <2>6, RemoveClaimOK DEF Complete
  <1> QED
    BY <1>1, <1>2, <1>3, <1>4, <1>5 DEF ProfileStep

LEMMA CleanupTypes ==
    ASSUME TypeInv, NEW r \in Requests, CleanupStep(r)
    PROVE  TypeInv'
  <1> USE Known
  <1>1. ASSUME CleanFinal(r) PROVE TypeInv'
    <2>1. me[r].of \in Attempts /\ me[r].then # "done" /\ me[r].at \in Artifacts
      BY <1>1 DEF CleanFinal, At, Owning, Cleaning, Finishing
    <2>2. "cleanStaged" \in PCs
      BY DEF PCs, Cleaning
    <2>3. CASE DiskKept /\ (Go(r, "cleanStaged") \/ Answer(r))
      BY <2>1, <2>2, <2>3, GoOK, AnswerOK, Kept
    <2>4. CASE DiskIs([disk EXCEPT !.final[me[r].at] = Nobody]) /\ Go(r, "cleanStaged")
      BY <2>1, <2>2, <2>4, FinalUpdate, GoOK, Changed
    <2> QED
      BY <1>1, <2>3, <2>4 DEF CleanFinal
  <1>2. ASSUME CleanStaged(r) PROVE TypeInv'
    <2> DEFINE pc == IF LastArtifact(r) THEN "rmLedger" ELSE "cleanFinal"
               at == IF LastArtifact(r) THEN 1 ELSE me[r].at + 1
               l == [me[r] EXCEPT !.pc = pc, !.at = at]
    <2>1. me[r].of \in Attempts /\ me[r].then # "done" /\ me[r].at \in Artifacts
      BY <1>2 DEF CleanStaged, At, Owning, Cleaning, Finishing
    <2>2. CASE DiskKept /\ Answer(r)
      BY <2>2, AnswerOK, Kept
    <2>3. CASE /\ DiskIs([disk EXCEPT !.staged[me[r].of][me[r].at] = "none"])
               /\ me' = [me EXCEPT ![r].pc = IF LastArtifact(r) THEN "rmLedger" ELSE "cleanFinal",
                                   ![r].at = IF LastArtifact(r) THEN 1 ELSE @ + 1]
      <3>1. me' = [me EXCEPT ![r] = l]
        BY <2>3
      <3>2. pc \in PCs /\ at \in Artifacts
        BY FirstArtifact, NextArtifact DEF PCs, Cleaning
      <3> HIDE DEF pc, at
      <3>3. l \in Locals /\ l.of = me[r].of /\ l.then = me[r].then
        BY <3>2 DEF LocalOK, Locals
      <3>4. LocalOK(l)
        BY <2>1, <3>3 DEF LocalOK
      <3> HIDE DEF l
      <3>5. MeOK'
        BY <3>1, <3>4, Becomes
      <3> QED
        BY <2>1, <2>3, <3>5, StagedUpdate, Changed
    <2> QED
      BY <1>2, <2>2, <2>3 DEF CleanStaged
  <1>3. ASSUME RemoveLedger(r) PROVE TypeInv'
    <2>1. me[r].of \in Attempts /\ "rmDir" \in Finishing /\ "rmDir" \in PCs
      BY <1>3 DEF RemoveLedger, At, Owning, Cleaning, Finishing, PCs
    <2>2. NoLedger \in Ledgers
      BY DEF NoLedger, Ledgers, LedgerStates, ArtStates, Planned
    <2> QED
      BY <1>3, <2>1, <2>2, LedgerUpdate, GoOK, Changed DEF RemoveLedger
  <1>4. ASSUME RemoveDir(r) PROVE TypeInv'
    <2>1. me[r].of \in Attempts /\ "rmStaging" \in Finishing /\ "rmStaging" \in PCs
      BY <1>4 DEF RemoveDir, At, Owning, Cleaning, Finishing, PCs
    <2>2. CASE DiskIs([disk EXCEPT !.dir[me[r].of] = "none"]) /\ Go(r, "rmStaging")
      BY <2>1, <2>2, DirUpdate, GoOK, Changed
    <2>3. CASE DiskKept /\ (StartCleanup(r) \/ Answer(r))
      BY <2>1, <2>3, StartCleanupOK, AnswerOK, Kept
    <2> QED
      BY <1>4, <2>2, <2>3 DEF RemoveDir
  <1>5. ASSUME RemoveStaging(r) PROVE TypeInv'
    <2>1. me[r].of \in Attempts /\ "rmClaim" \in PCs
      BY <1>5 DEF RemoveStaging, At, Owning, Cleaning, PCs
    <2>2. MeOK'
      BY <1>5, <2>1, GoOK, AnswerOK DEF RemoveStaging
    <2>3. (\E a \in Attempts : disk.dir[a] # "none") \in BOOLEAN
      OBVIOUS
    <2> QED
      BY <1>5, <2>2, <2>3, FlagUpdate, Changed DEF RemoveStaging
  <1>6. ASSUME CleanupEnds(r) PROVE TypeInv'
    <2>1. me[r].then # "done" /\ RemoveClaim(r, "rmClaim")
      BY <1>6 DEF CleanupEnds, RemoveClaim, At, Finishing
    <2>2. CASE Answer(r)
      BY <2>1, <2>2, AnswerOK, RemoveClaimOK
    <2>3. CASE me[r].then # "refused" /\ Go(r, me[r].then)
      <3>1. me[r].then \in {"unclaim", "scan"}
        BY <2>1, <2>3
      <3> QED
        BY <2>1, <2>3, <3>1, Labels, GoOK, RemoveClaimOK
    <2> QED
      BY <1>6, <2>2, <2>3 DEF CleanupEnds
  <1> QED
    BY <1>1, <1>2, <1>3, <1>4, <1>5, <1>6 DEF CleanupStep

LEMMA CutShortType ==
    ASSUME TypeInv, NEW r \in Requests, CutShort(r)
    PROVE  disk' \in Disks
  <1> USE Known
  <1>1. CASE UNCHANGED disk
    BY <1>1
  <1>2. CASE disk' = [disk EXCEPT !.foreign = TRUE]
    BY <1>2, FlagUpdate
  <1>3. CASE /\ me[r].pc \in {"ledger", "recordStaged", "announce", "recordPublished",
                              "recordProfile", "recordComplete"}
             /\ disk' = [disk EXCEPT !.dir[me[r].of] = "littered"]
    <2>1. me[r].of \in Attempts
      BY <1>3 DEF Owning, Preparing, Creating
    <2> QED
      BY <1>3, <2>1, DirUpdate
  <1> QED
    BY <1>1, <1>2, <1>3 DEF CutShort

LEMMA ErrorTypes ==
    ASSUME TypeInv, NEW r \in Requests, Fail(r) \/ Crash(r)
    PROVE  TypeInv'
  <1> USE Known
  <1>1. disk' \in Disks /\ UNCHANGED <<profile, old>>
    BY CutShortType DEF Fail, Crash
  <1>2. ASSUME Fail(r) PROVE MeOK'
    <2>1. CASE StartCleanup(r) /\ me[r].pc \in Creating \cup Cleaning
      BY <2>1, StartCleanupOK DEF Owning
    <2>2. CASE me[r].pc \in Preparing /\ Go(r, "withdraw")
      <3>1. "withdraw" \in PCs /\ me[r].of \in Attempts /\ me[r].then # "done"
        BY <2>2 DEF PCs, Owning, Preparing, Finishing
      <3> QED
        BY <2>2, <3>1, GoOK
    <2>3. CASE Answer(r)
      BY <2>3, AnswerOK
    <2> QED
      BY <1>2, <2>1, <2>2, <2>3 DEF Fail
  <1>3. ASSUME Crash(r) PROVE MeOK'
    <2>1. CASE me' = [q \in Requests |-> Idle]
      BY <2>1, IdleOK DEF MeOK, LocalOK
    <2>2. CASE Answer(r)
      BY <2>2, AnswerOK
    <2> QED
      BY <1>3, <2>1, <2>2 DEF Crash, Answer
  <1> QED
    BY <1>1, <1>2, <1>3, Assemble DEF TypeInv, TypeOK

LEMMA OtherTypes ==
    ASSUME TypeInv, OutsiderWrites \/ \E a \in Attempts : GetsOld(a)
    PROVE  TypeInv'
  <1>1. CASE OutsiderWrites
    <2>1. disk \in Disks /\ UNCHANGED <<profile, old, me>>
      BY <1>1 DEF OutsiderWrites, TypeInv, TypeOK
    <2>2. CASE disk' = [disk EXCEPT !.foreign = TRUE]
      BY <2>1, <2>2, FlagUpdate DEF TypeInv, TypeOK, MeOK
    <2>3. ASSUME NEW i \in Artifacts, disk' = [disk EXCEPT !.final[i] = Outsider]
          PROVE  TypeInv'
      BY <2>1, <2>3, FinalUpdate DEF TypeInv, TypeOK, MeOK
    <2> QED
      BY <1>1, <2>2, <2>3 DEF OutsiderWrites
  <1>2. ASSUME NEW a \in Attempts, GetsOld(a) PROVE TypeInv'
    BY <1>2 DEF GetsOld, TypeInv, TypeOK, MeOK
  <1> QED
    BY <1>1, <1>2

LEMMA TypeInvariant == Spec => []TypeInv
  <1>1. Init => TypeInv
    <2> SUFFICES ASSUME Init PROVE TypeInv
      OBVIOUS
    <2>1. NoLedger \in Ledgers
      BY DEF NoLedger, Ledgers, LedgerStates, ArtStates, Planned
    <2>2. disk \in Disks
      BY <2>1 DEF Init, Disks
    <2>3. MeOK
      BY IdleOK DEF Init, MeOK, LocalOK
    <2> QED
      BY <2>2, <2>3 DEF Init, TypeInv, TypeOK, MeOK
  <1>2. TypeInv /\ [Next]_vars => TypeInv'
    <2> SUFFICES ASSUME TypeInv, [Next]_vars PROVE TypeInv'
      OBVIOUS
    <2>1. CASE UNCHANGED vars
      BY <2>1 DEF vars, TypeInv, TypeOK, MeOK
    <2>2. CASE Next
      BY <2>2, RecoverTypes, ClaimTypes, PublishTypes, ProfileTypes, CleanupTypes,
         ErrorTypes, OtherTypes DEF Next
    <2> QED
      BY <2>1, <2>2
  <1> QED
    BY <1>1, <1>2, PTL DEF Spec

\* Every variable keeps its type: the directory, and what each request holds of it.
THEOREM TypeCorrect == Spec => []TypeOK
  BY TypeInvariant, PTL DEF TypeInv

--------------------------------------------------------------------------------
(* What a step may do to the files under the final names.                  *)

FinalKept == disk'.final = disk.final

\* Only a link, a cleanup and another program touch them.
LEMMA FinalSteps ==
    ASSUME TypeInv, [Next]_vars
    PROVE  \/ FinalKept
           \/ \E r \in Requests : Link(r) /\ disk.final[me[r].at] = Nobody
           \/ \E r \in Requests : CleanFinal(r) /\ disk.final[me[r].at] # Outsider
           \/ OutsiderWrites
  <1> USE DEF FinalKept
  <1>1. disk \in Disks
    BY DEF TypeInv, TypeOK
  <1>2. CASE UNCHANGED vars
    BY <1>2 DEF vars
  <1>3. ASSUME NEW r \in Requests, RecoverStep(r) PROVE FinalKept
    BY <1>1, <1>3 DEF RecoverStep, Recover, Unclaim, Scan, Lookup, Verify,
       RemoveClaim, DiskKept, DiskIs, Disks
  <1>4. ASSUME NEW r \in Requests, ClaimStep(r) PROVE FinalKept
    BY <1>1, <1>4 DEF ClaimStep, Fetch, CheckEmpty, CreateClaim, FillClaim, Recheck, Withdraw,
       MakeDir, FirstLedger, NoteClaimed, RemoveClaim, WriteClaim, WriteLedger, WithLedger,
       DiskKept, DiskIs, Disks
  <1>5. ASSUME NEW r \in Requests, PublishStep(r), ~Link(r) PROVE FinalKept
    BY <1>1, <1>5 DEF PublishStep, Stage, RecordStaged, NoteStaged, Announce,
       RecordPublished, Unlink, NotePublished, WriteClaim, WriteLedger, WithLedger,
       DiskKept, DiskIs, Disks
  <1>6. ASSUME NEW r \in Requests, ProfileStep(r) PROVE FinalKept
    BY <1>1, <1>6 DEF ProfileStep, CreateProfile, RecordProfile, NoteProfile, RecordComplete,
       Complete, RemoveClaim, WriteClaim, WriteLedger, WithLedger, DiskKept, DiskIs, Disks
  <1>7. ASSUME NEW r \in Requests, CleanupStep(r), ~CleanFinal(r) PROVE FinalKept
    BY <1>1, <1>7 DEF CleanupStep, CleanStaged, RemoveLedger, RemoveDir, RemoveStaging,
       CleanupEnds, RemoveClaim, DiskKept, DiskIs, Disks
  <1>8. ASSUME NEW r \in Requests, Fail(r) \/ Crash(r) PROVE FinalKept
    BY <1>1, <1>8 DEF Fail, Crash, CutShort, Disks
  <1>9. ASSUME NEW a \in Attempts, GetsOld(a) PROVE FinalKept
    BY <1>9 DEF GetsOld
  <1>10. ASSUME NEW r \in Requests, Link(r)
         PROVE  FinalKept \/ disk.final[me[r].at] = Nobody
    BY <1>10 DEF Link, DiskKept
  <1>11. ASSUME NEW r \in Requests, CleanFinal(r)
         PROVE  FinalKept \/ disk.final[me[r].at] # Outsider
    BY <1>11 DEF CleanFinal, DiskKept
  <1> QED
    BY <1>2, <1>3, <1>4, <1>5, <1>6, <1>7, <1>8, <1>9, <1>10, <1>11 DEF Next

\* No file of anybody else is removed or replaced, whatever fails and dies, by requests of
\* one worker or of several (_publish_artifacts, _cleanup_ledger).
THEOREM ForeignFilesCorrect == Spec => ForeignFilesKept
  <1> DEFINE Safe(i) == disk.final[i] = Outsider => disk'.final[i] = Outsider
  <1>1. ASSUME TypeInv, [Next]_vars, NEW i \in Artifacts PROVE Safe(i)
    <2>1. /\ disk \in Disks
          /\ \A r \in Requests : me[r].at \in Artifacts /\ me[r].of \in Attempts \cup {Nobody}
          /\ Nobody # Outsider
      BY <1>1, OwnersAssumption DEF TypeInv, TypeOK, Locals
    <2>2. CASE FinalKept
      BY <2>2 DEF FinalKept
    <2>3. ASSUME NEW r \in Requests, Link(r), disk.final[me[r].at] = Nobody PROVE Safe(i)
      BY <2>1, <2>3 DEF Link, DiskIs, Disks
    <2>4. ASSUME NEW r \in Requests, CleanFinal(r), disk.final[me[r].at] # Outsider PROVE Safe(i)
      BY <2>1, <2>4 DEF CleanFinal, DiskKept, DiskIs, Disks
    <2>5. CASE OutsiderWrites
      BY <2>1, <2>5 DEF OutsiderWrites, Disks
    <2> QED
      BY <1>1, <2>2, <2>3, <2>4, <2>5, FinalSteps
  <1>2. TypeInv /\ [Next]_vars => [\A i \in Artifacts : Safe(i)]_vars
    BY <1>1
  <1> QED
    BY <1>2, TypeInvariant, PTL DEF Spec, ForeignFilesKept

--------------------------------------------------------------------------------
(* One worker: at most one request is between two awaits, and what it does *)
(* to the directory fits its own ledger.                                   *)


Early == {"unclaim", "scan"}
Bare == {"create", "write", "recheck", "mkdir"}
Staging == {"ledger", "noteClaimed", "stage", "recordStaged", "noteStaged"}
BeforeProfile == {"noteClaimed", "stage", "recordStaged", "noteStaged", "announce", "link",
                  "recordPublished", "unlink", "notePublished", "profile"}
AfterProfile == {"recordProfile", "noteProfile", "recordComplete", "complete"}

Gone(d, i) == d.final[i] \notin Attempts
There(d, i) == d.final[i] # Nobody

\* What holds of the directory d and the profile p while a request's memory is l.

\* Until its first link no attempt has a final file, and until it makes its directory
\* none has one.
Fresh(d, p, l) ==
    /\ l.pc \in Early \cup Bare \cup Staging => ~p /\ \A i \in Artifacts : Gone(d, i)
    /\ l.pc \in Bare => \A a \in Attempts : d.dir[a] = "none"

\* The attempt it creates is the one that has a directory, and what is published of it
\* is in its memory.
OwnDir(d, l) == \A a \in Attempts : d.dir[a] # "none" <=> a = l.of
OwnFinals(d, l) ==
    \A i \in Artifacts : ~Gone(d, i) => d.final[i] = l.of /\ l.art[i] = "published"
OwnOnly(d, l) ==
    /\ l.pc \in {"ledger"} \cup Creating => OwnDir(d, l)
    /\ l.pc \in {"ledger"} \cup Creating \cup Cleaning => OwnFinals(d, l)

\* Published files are dropped until the profile exists and never after.
DropsUntilProfile(p, l) ==
    /\ l.pc \in {"write", "recheck", "mkdir", "ledger"} => l.drop
    /\ l.pc \in BeforeProfile => ~p /\ l.drop
    /\ l.pc \in AfterProfile => p /\ ~l.drop
    /\ l.pc \in Cleaning => (l.drop <=> ~p)
    /\ l.pc \in Cleaning /\ l.then = "done" => ~l.drop

\* The final names are taken in order, each after its ledger says so.
PublishesInOrder(d, l) ==
    /\ l.pc \in {"announce", "link"} =>
         \A i \in Artifacts : (i < l.at => There(d, i)) /\ (i >= l.at => Gone(d, i))
    /\ l.pc \in {"recordPublished", "unlink"} =>
         \A i \in Artifacts : (i <= l.at => There(d, i)) /\ (i > l.at => Gone(d, i))
    /\ l.pc \in {"notePublished", "profile"} => \A i \in Artifacts : There(d, i)
    /\ l.pc = "link" => /\ d.ledger[l.of].state # "none"
                        /\ d.ledger[l.of].art[l.at] = "publishing"
    /\ l.pc = "recordPublished" => l.state = "published"

\* A cleanup that drops leaves no final file of an attempt behind it; one that goes on
\* with the recovery began without any.
CleansUp(d, l) ==
    l.pc \in Cleaning =>
      /\ l.then \in Early => l.drop /\ \A i \in Artifacts : Gone(d, i)
      /\ l.drop =>
           \A i \in Artifacts :
              \/ l.pc \in {"rmLedger", "rmDir", "rmStaging", "rmClaim"}
              \/ l.pc = "cleanFinal" /\ i < l.at
              \/ l.pc = "cleanStaged" /\ i <= l.at
              => Gone(d, i)

WorkOn(d, p, l) ==
    /\ Fresh(d, p, l)
    /\ OwnOnly(d, l)
    /\ DropsUntilProfile(p, l)
    /\ PublishesInOrder(d, l)
    /\ CleansUp(d, l)

\* What the runs check, and that attempts have their directories in the staging directory.
DiskInv ==
    /\ ProfileHasItsFiles
    /\ OneAttemptOnDisk
    /\ PublishedIsRecorded
    /\ \A a \in Attempts : disk.dir[a] # "none" => disk.staging

OneAtATime == \A r, q \in Requests : r # q => me[r].pc \in Awaiting \/ me[q].pc \in Awaiting

WorkInv ==
    /\ DiskInv
    /\ OneAtATime
    /\ \A r \in Requests : WorkOn(disk, profile, me[r])

--------------------------------------------------------------------------------
(* The frame of a step.                                                    *)

\* Nothing is known or wanted of a request that is at an await or about to read.
LEMMA NothingKnown ==
    ASSUME NEW d, NEW p, NEW l, l.pc \in Awaiting \cup {"lookup", "check", "withdraw"}
    PROVE  WorkOn(d, p, l)
  BY DEF WorkOn, Fresh, OwnOnly, OwnFinals, DropsUntilProfile, PublishesInOrder, CleansUp, Awaiting,
     Early, Bare, Staging, BeforeProfile, AfterProfile, Creating, Cleaning

LEMMA IdleWork ==
    ASSUME NEW d, NEW p PROVE WorkOn(d, p, Idle)
  <1>1. Idle.pc \in Awaiting
    BY DEF Idle, Awaiting
  <1> QED
    BY <1>1, NothingKnown

\* One request steps; the others are at an await.
LEMMA Alone ==
    ASSUME OneWorker, TypeInv, NEW r \in Requests, Turn(r), NEW l,
           me' = [me EXCEPT ![r] = l], WorkOn(disk', profile', l), DiskInv'
    PROVE  WorkInv'
  <1>1. me'[r] = l /\ \A q \in Requests \ {r} : me'[q] = me[q] /\ me[q].pc \in Awaiting
    BY DEF Turn, TypeInv, TypeOK
  <1>2. OneAtATime'
    BY <1>1 DEF OneAtATime
  <1>3. ASSUME NEW q \in Requests PROVE WorkOn(disk', profile', me'[q])
    BY <1>1, NothingKnown
  <1> QED
    BY <1>2, <1>3 DEF WorkInv

LEMMA AnswerAlone ==
    ASSUME OneWorker, TypeInv, NEW r \in Requests, Turn(r), Answer(r), DiskInv'
    PROVE  WorkInv'
  BY Alone, IdleWork DEF Answer

\* The memory of a request that goes on at a label.
Moved(l, label) == [l EXCEPT !.pc = label]

LEMMA MovedFields ==
    ASSUME NEW l \in Locals, NEW label
    PROVE  /\ Moved(l, label).pc = label
           /\ Moved(l, label).of = l.of
           /\ Moved(l, label).state = l.state
           /\ Moved(l, label).art = l.art
           /\ Moved(l, label).at = l.at
           /\ Moved(l, label).drop = l.drop
           /\ Moved(l, label).then = l.then
  BY DEF Moved, Locals

LEMMA GoAlone ==
    ASSUME OneWorker, TypeInv, NEW r \in Requests, Turn(r), NEW label, Go(r, label), DiskInv',
           WorkOn(disk', profile', Moved(me[r], label))
    PROVE  WorkInv'
  <1>1. me' = [me EXCEPT ![r] = Moved(me[r], label)]
    BY DEF Go, Moved
  <1> QED
    BY <1>1, Alone

\* Claims, staged files and other entries are in none of the parts.
Quiet(d, e) ==
    e.final = d.final /\ e.dir = d.dir /\ e.ledger = d.ledger /\ e.staging = d.staging

LEMMA QuietDisk ==
    ASSUME DiskInv, Quiet(disk, disk'), UNCHANGED profile
    PROVE  DiskInv'
  BY DEF DiskInv, Quiet, ProfileHasItsFiles, OneAttemptOnDisk, PublishedIsRecorded, HasLedger

LEMMA QuietWork ==
    ASSUME NEW d, NEW e, Quiet(d, e), NEW p, NEW l, WorkOn(d, p, l)
    PROVE  WorkOn(e, p, l)
  BY DEF WorkOn, Quiet, Fresh, OwnOnly, OwnDir, OwnFinals, PublishesInOrder, CleansUp, Gone, There

LEMMA QuietUpdates ==
    ASSUME TypeInv
    PROVE  /\ Quiet(disk, disk)
           /\ \A c : Quiet(disk, [disk EXCEPT !.claim = c])
           /\ \A b : Quiet(disk, [disk EXCEPT !.foreign = b])
           /\ \A a, i, v : Quiet(disk, [disk EXCEPT !.staged[a][i] = v])
  BY DEF TypeInv, TypeOK, Disks, Quiet

LEMMA QuietKept ==
    ASSUME TypeInv, DiskInv, DiskKept
    PROVE  DiskInv' /\ disk' = disk /\ profile' = profile
  BY QuietDisk, QuietUpdates DEF DiskKept

LEMMA QuietIs ==
    ASSUME TypeInv, DiskInv, NEW d, Quiet(disk, d), DiskIs(d)
    PROVE  DiskInv' /\ disk' = d /\ profile' = profile
  BY QuietDisk DEF DiskIs

LEMMA RemoveClaimQuiet ==
    ASSUME TypeInv, DiskInv, NEW r, NEW label, RemoveClaim(r, label)
    PROVE  DiskInv' /\ Quiet(disk, disk') /\ profile' = profile
  BY QuietIs, QuietUpdates DEF RemoveClaim

\* It goes on at the first artifact.
Restarted(l, label) == [l EXCEPT !.pc = label, !.at = 1]

LEMMA RestartedFields ==
    ASSUME NEW l \in Locals, NEW label
    PROVE  /\ Restarted(l, label).pc = label
           /\ Restarted(l, label).at = 1
           /\ Restarted(l, label).of = l.of
           /\ Restarted(l, label).state = l.state
           /\ Restarted(l, label).art = l.art
           /\ Restarted(l, label).drop = l.drop
           /\ Restarted(l, label).then = l.then
  BY DEF Restarted, Locals

LEMMA WriteClaimQuiet ==
    ASSUME TypeInv, DiskInv, NEW r \in Requests, NEW label, NEW at, NEW next,
           WriteClaim(r, label, at, next)
    PROVE  /\ DiskInv' /\ Quiet(disk, disk') /\ profile' = profile
           /\ Turn(r) /\ me[r].pc = label
           /\ me' = [me EXCEPT ![r] = Restarted(me[r], next)]
  <1>1. DiskInv' /\ Quiet(disk, disk') /\ profile' = profile
    <2> DEFINE d == [disk EXCEPT !.claim = [by |-> me[r].of, at |-> at]]
    <2>1. Quiet(disk, d) /\ DiskIs(d)
      BY QuietUpdates DEF WriteClaim
    <2> HIDE DEF d
    <2> QED
      BY <2>1, QuietIs
  <1> QED
    BY <1>1 DEF WriteClaim, At, Restarted

\* A directory with markers only has no profile and no attempt's final file.
LEMMA OnlyMarkersEmpty ==
    ASSUME DiskInv, OnlyMarkers
    PROVE  /\ ~profile
           /\ \A i \in Artifacts : disk.final[i] = Nobody /\ Gone(disk, i)
  BY FirstArtifact, OwnersAssumption DEF DiskInv, OnlyMarkers, ProfileHasItsFiles, Gone

LEMMA ClaimableEmpty ==
    ASSUME DiskInv, Claimable
    PROVE  /\ ~profile
           /\ \A i \in Artifacts : Gone(disk, i)
           /\ \A a \in Attempts : disk.dir[a] = "none"
  BY OnlyMarkersEmpty DEF DiskInv, Claimable

LEMMA MeFields ==
    ASSUME TypeInv, NEW r \in Requests
    PROVE  /\ me[r] \in Locals
           /\ me[r].at \in Artifacts
           /\ me[r].at \in Nat
           /\ me[r].art \in [Artifacts -> ArtStates]
           /\ me[r].pc \in Owning => me[r].of \in Attempts
  BY DEF TypeInv, TypeOK, MeOK, LocalOK, Locals, Artifacts

\* A request goes on to look at the markers.
LEMMA EarlyWork ==
    ASSUME NEW d, NEW p, NEW l, l.pc \in Early, ~p, \A i \in Artifacts : Gone(d, i)
    PROVE  WorkOn(d, p, l)
  <1>1. /\ l.pc \notin {"write", "recheck", "mkdir", "ledger"} \cup Creating \cup Cleaning
        /\ l.pc \notin Bare \cup BeforeProfile \cup AfterProfile
    BY DEF Early, Bare, Creating, Cleaning, BeforeProfile, AfterProfile
  <1>2. PublishesInOrder(d, l)
    BY DEF PublishesInOrder, Early
  <1>3. DropsUntilProfile(p, l)
    BY <1>1 DEF DropsUntilProfile
  <1> QED
    BY <1>1, <1>2, <1>3 DEF WorkOn, Fresh, OwnOnly, CleansUp

LEMMA BareWork ==
    ASSUME NEW d, NEW p, NEW l, l.pc \in Bare, l.pc # "create" => l.drop, ~p,
           \A i \in Artifacts : Gone(d, i), \A a \in Attempts : d.dir[a] = "none"
    PROVE  WorkOn(d, p, l)
  <1>1. /\ l.pc \notin {"ledger"} \cup Creating \cup Cleaning
        /\ l.pc \notin BeforeProfile \cup AfterProfile
    BY DEF Bare, Creating, Cleaning, BeforeProfile, AfterProfile
  <1>2. PublishesInOrder(d, l)
    BY DEF PublishesInOrder, Bare
  <1>3. DropsUntilProfile(p, l)
    BY <1>1 DEF DropsUntilProfile
  <1> QED
    BY <1>1, <1>2, <1>3 DEF WorkOn, Fresh, OwnOnly, CleansUp

\* The cleanup of a dead attempt begins: none of its files is final.
LEMMA RecoverLedgerWork ==
    ASSUME OneWorker, TypeInv, WorkInv, NEW r \in Requests, Turn(r), DiskKept, ~profile,
           \A i \in Artifacts : Gone(disk, i),
           NEW a \in Attempts, NEW then \in Early, RecoverLedger(r, a, then)
    PROVE  WorkInv'
  <1> DEFINE l == [pc |-> "cleanFinal", of |-> a, state |-> disk.ledger[a].state,
                   art |-> disk.ledger[a].art, at |-> 1, drop |-> TRUE, then |-> then]
  <1>1. DiskInv' /\ disk' = disk /\ profile' = profile
    BY QuietKept DEF WorkInv
  <1>2. CASE Answer(r)
    BY <1>1, <1>2, AnswerAlone
  <1>3. CASE me' = [me EXCEPT ![r] = l]
    <2>1. l.pc = "cleanFinal" /\ l.drop = TRUE /\ l.then # "done"
      BY DEF Early
    <2> HIDE DEF l
    <2>2. WorkOn(disk, profile, l)
      BY <2>1 DEF WorkOn, Fresh, OwnOnly, OwnFinals, DropsUntilProfile, PublishesInOrder, CleansUp, Early,
         Bare, Staging, BeforeProfile, AfterProfile, Creating, Cleaning
    <2> QED
      BY <1>1, <1>3, <2>2, Alone
  <1> QED
    BY <1>2, <1>3 DEF RecoverLedger

\* What is known where a request is.
LEMMA EarlyKnown ==
    ASSUME WorkInv, NEW r \in Requests, me[r].pc \in Early
    PROVE  ~profile /\ \A i \in Artifacts : Gone(disk, i)
  BY DEF WorkInv, WorkOn, Fresh

LEMMA BareKnown ==
    ASSUME WorkInv, NEW r \in Requests, me[r].pc \in Bare
    PROVE  /\ ~profile
           /\ \A i \in Artifacts : Gone(disk, i)
           /\ \A a \in Attempts : disk.dir[a] = "none"
           /\ me[r].pc # "create" => me[r].drop
  BY DEF WorkInv, WorkOn, Fresh, DropsUntilProfile, Bare

LEMMA RecoverWork ==
    ASSUME OneWorker, TypeInv, WorkInv, NEW r \in Requests, RecoverStep(r)
    PROVE  WorkInv'
  <1> USE MeFields, MovedFields
  <1> DiskInv
    BY DEF WorkInv
  <1>1. ASSUME Recover(r) PROVE WorkInv'
    <2>1. Turn(r) /\ DiskKept /\ DiskInv' /\ disk' = disk /\ profile' = profile
      BY <1>1, QuietKept DEF Recover, At
    <2>2. CASE Go(r, "lookup")
      BY <2>1, <2>2, GoAlone, NothingKnown
    <2>3. CASE OnlyMarkers /\ \E label \in Early : Go(r, label)
      <3>1. PICK label \in Early : Go(r, label)
        BY <2>3
      <3>2. ~profile /\ \A i \in Artifacts : Gone(disk, i)
        BY <2>3, OnlyMarkersEmpty DEF TypeInv, TypeOK
      <3>3. WorkOn(disk, profile, Moved(me[r], label))
        BY <3>2, EarlyWork
      <3> QED
        BY <2>1, <3>1, <3>2, <3>3, GoAlone
    <2>4. CASE OnlyMarkers /\ disk.claim.by \in old /\ RecoverLedger(r, disk.claim.by, "unclaim")
      BY <2>1, <2>4, OnlyMarkersEmpty, RecoverLedgerWork DEF Early, TypeInv, TypeOK
    <2> QED
      BY <1>1, <2>2, <2>3, <2>4 DEF Recover, Early
  <1>2. ASSUME Unclaim(r) PROVE WorkInv'
    <2>1. Turn(r) /\ me[r].pc \in Early /\ Go(r, "scan")
      BY <1>2 DEF Unclaim, RemoveClaim, At, Early
    <2>2. DiskInv' /\ Quiet(disk, disk') /\ profile' = profile
      BY <1>2, RemoveClaimQuiet DEF Unclaim
    <2>3. ~profile /\ \A i \in Artifacts : Gone(disk, i)
      BY <2>1, EarlyKnown
    <2>4. WorkOn(disk, profile, Moved(me[r], "scan"))
      BY <2>3, EarlyWork DEF Early
    <2> QED
      BY <2>1, <2>2, <2>3, <2>4, QuietWork, GoAlone
  <1>3. ASSUME Scan(r) PROVE WorkInv'
    <2>1. Turn(r) /\ me[r].pc \in Early
      BY <1>3 DEF Scan, At, Early
    <2>2. ~profile /\ \A i \in Artifacts : Gone(disk, i)
      BY <2>1, EarlyKnown
    <2>3. CASE /\ \A a \in Attempts : disk.dir[a] = "none"
               /\ DiskIs([disk EXCEPT !.staging = FALSE])
               /\ Go(r, "lookup")
      <3>1. disk'.final = disk.final /\ disk'.dir = disk.dir /\ disk'.ledger = disk.ledger
        BY <2>3 DEF DiskIs, TypeInv, TypeOK, Disks
      <3>2. DiskInv'
        BY <2>3, <3>1 DEF DiskIs, DiskInv, ProfileHasItsFiles, OneAttemptOnDisk,
           PublishedIsRecorded, HasLedger
      <3> QED
        BY <2>1, <2>3, <3>2, GoAlone, NothingKnown
    <2>4. ASSUME NEW a \in Attempts, DiskKept, RecoverLedger(r, a, "scan") \/ Answer(r)
          PROVE  WorkInv'
      BY <2>1, <2>2, <2>4, RecoverLedgerWork, QuietKept, AnswerAlone DEF Early
    <2> QED
      BY <1>3, <2>3, <2>4 DEF Scan
  <1>4. ASSUME Lookup(r) PROVE WorkInv'
    <2>1. Turn(r) /\ {"verify", "fetch"} \subseteq Awaiting
      BY <1>4 DEF Lookup, At, Awaiting
    <2>2. CASE DiskIs([disk EXCEPT !.claim = NoClaim]) /\ Go(r, "verify")
      BY <2>1, <2>2, QuietIs, QuietUpdates, GoAlone, NothingKnown
    <2>3. CASE DiskKept /\ (Answer(r) \/ Go(r, "fetch"))
      BY <2>1, <2>3, QuietKept, GoAlone, AnswerAlone, NothingKnown
    <2> QED
      BY <1>4, <2>2, <2>3 DEF Lookup
  <1>5. ASSUME Verify(r) PROVE WorkInv'
    BY <1>5, QuietKept, AnswerAlone DEF Verify, At
  <1> QED
    BY <1>1, <1>2, <1>3, <1>4, <1>5 DEF RecoverStep

LEMMA ClaimWork ==
    ASSUME OneWorker, TypeInv, WorkInv, NEW r \in Requests, ClaimStep(r),
           ~MakeDir(r), ~FirstLedger(r), ~NoteClaimed(r)
    PROVE  WorkInv'
  <1> USE MeFields, MovedFields
  <1> DiskInv
    BY DEF WorkInv
  <1>1. ASSUME Fetch(r) PROVE WorkInv'
    BY <1>1, QuietKept, GoAlone, AnswerAlone, NothingKnown DEF Fetch, At
  <1>2. ASSUME CheckEmpty(r) PROVE WorkInv'
    <2>1. Turn(r) /\ DiskInv' /\ disk' = disk /\ profile' = profile
      BY <1>2, QuietKept DEF CheckEmpty, At
    <2>2. CASE Answer(r)
      BY <2>1, <2>2, AnswerAlone
    <2>3. CASE EmptyTarget /\ Go(r, "create")
      <3>1. WorkOn(disk, profile, Moved(me[r], "create"))
        BY <2>3, ClaimableEmpty, BareWork DEF EmptyTarget, Bare
      <3> QED
        BY <2>1, <2>3, <3>1, GoAlone
    <2> QED
      BY <1>2, <2>2, <2>3 DEF CheckEmpty
  <1>3. ASSUME CreateClaim(r) PROVE WorkInv'
    <2>1. Turn(r) /\ me[r].pc \in Bare
      BY <1>3 DEF CreateClaim, At, Bare
    <2>2. CASE DiskKept /\ Answer(r)
      BY <2>1, <2>2, QuietKept, AnswerAlone
    <2>3. ASSUME NEW a \in Attempts,
                 disk' = [disk EXCEPT !.claim = [by |-> a, at |-> "torn"]],
                 UNCHANGED profile,
                 me' = [me EXCEPT ![r] = [Idle EXCEPT !.pc = "write", !.of = a, !.state = "claimed"]]
          PROVE  WorkInv'
      <3> DEFINE l == [Idle EXCEPT !.pc = "write", !.of = a, !.state = "claimed"]
      <3>1. l.pc \in Bare /\ l.drop
        BY DEF Idle, Bare
      <3> HIDE DEF l
      <3>2. Quiet(disk, disk') /\ DiskInv'
        BY <2>3, QuietDisk, QuietUpdates
      <3>3. WorkOn(disk, profile, l)
        BY <2>1, <3>1, BareKnown, BareWork
      <3>4. me' = [me EXCEPT ![r] = l]
        BY <2>3 DEF l
      <3> QED
        BY <2>1, <2>3, <3>2, <3>3, <3>4, QuietWork, Alone
    <2> QED
      BY <1>3, <2>2, <2>3 DEF CreateClaim
  <1>4. ASSUME FillClaim(r) PROVE WorkInv'
    <2> DEFINE l == Restarted(me[r], "recheck")
    <2>0. WriteClaim(r, "write", "new", "recheck")
      BY <1>4 DEF FillClaim
    <2>1. Turn(r) /\ me[r].pc = "write" /\ me' = [me EXCEPT ![r] = l]
      BY <2>0, WriteClaimQuiet
    <2>2. DiskInv' /\ Quiet(disk, disk') /\ profile' = profile
      BY <2>0, WriteClaimQuiet
    <2>3. l.pc = "recheck" /\ l.drop = me[r].drop
      BY RestartedFields
    <2> HIDE DEF l
    <2>4. WorkOn(disk, profile, l)
      BY <2>1, <2>3, BareKnown, BareWork DEF Bare
    <2> QED
      BY <2>1, <2>2, <2>4, QuietWork, Alone
  <1>5. ASSUME Recheck(r) PROVE WorkInv'
    <2>1. Turn(r) /\ me[r].pc = "recheck" /\ DiskInv' /\ disk' = disk /\ profile' = profile
      BY <1>5, QuietKept DEF Recheck, At
    <2>2. CASE Go(r, "withdraw")
      BY <2>1, <2>2, GoAlone, NothingKnown
    <2>3. CASE Go(r, "mkdir")
      <3>1. WorkOn(disk, profile, Moved(me[r], "mkdir"))
        BY <2>1, BareKnown, BareWork DEF Bare
      <3> QED
        BY <2>1, <2>3, <3>1, GoAlone
    <2> QED
      BY <1>5, <2>2, <2>3 DEF Recheck
  <1>6. ASSUME Withdraw(r) PROVE WorkInv'
    BY <1>6, RemoveClaimQuiet, AnswerAlone DEF Withdraw, RemoveClaim, At
  <1> QED
    BY <1>1, <1>2, <1>3, <1>4, <1>5, <1>6 DEF ClaimStep

--------------------------------------------------------------------------------
(* The creation of an attempt.                                             *)

Publishing == {"announce", "link", "recordPublished", "unlink", "notePublished", "profile"}

LEMMA CreatingLabels ==
    /\ {"ledger"} \cup Creating = Staging \cup Publishing \cup AfterProfile
    /\ BeforeProfile = (Staging \ {"ledger"}) \cup Publishing
    /\ Staging \cap (Publishing \cup AfterProfile \cup Early \cup Bare \cup Cleaning) = {}
    /\ Publishing \cap (AfterProfile \cup Early \cup Bare \cup Cleaning) = {}
    /\ AfterProfile \cap (Early \cup Bare \cup Cleaning) = {}
    /\ Cleaning \cap (Early \cup Bare) = {}
    /\ {"write", "recheck", "mkdir"} \subseteq Bare
    /\ Staging \cup Publishing \cup AfterProfile \cup Cleaning \subseteq Owning
  BY DEF Creating, Cleaning, Preparing, Owning, Staging, Publishing, BeforeProfile, AfterProfile,
     Early, Bare

\* What is to be known at each phase is what is known there.
LEMMA AtStaging ==
    ASSUME NEW d, NEW p, NEW l, l.pc \in Staging
    PROVE  WorkOn(d, p, l) <=> /\ ~p /\ l.drop
                               /\ \A i \in Artifacts : Gone(d, i)
                               /\ OwnDir(d, l)
  <1>1. /\ l.pc \in {"ledger"} \cup Creating
        /\ l.pc \notin Early \cup Bare \cup Publishing \cup AfterProfile \cup Cleaning
        /\ l.pc = "ledger" \/ l.pc \in BeforeProfile
        /\ l.pc \notin {"write", "recheck", "mkdir"}
    BY CreatingLabels
  <1>2. PublishesInOrder(d, l)
    BY <1>1 DEF PublishesInOrder, Publishing
  <1>3. DropsUntilProfile(p, l) /\ ~p <=> ~p /\ l.drop
    BY <1>1, CreatingLabels DEF DropsUntilProfile
  <1>4. CleansUp(d, l)
    BY <1>1 DEF CleansUp
  <1>5. OwnOnly(d, l) <=> OwnDir(d, l) /\ OwnFinals(d, l)
    BY <1>1 DEF OwnOnly
  <1>6. Fresh(d, p, l) <=> ~p /\ \A i \in Artifacts : Gone(d, i)
    BY <1>1 DEF Fresh
  <1>7. (\A i \in Artifacts : Gone(d, i)) => OwnFinals(d, l)
    BY DEF OwnFinals
  <1> QED
    BY <1>2, <1>3, <1>4, <1>5, <1>6, <1>7 DEF WorkOn

LEMMA AtPublishing ==
    ASSUME NEW d, NEW p, NEW l, l.pc \in Publishing
    PROVE  WorkOn(d, p, l) <=> /\ ~p /\ l.drop
                               /\ OwnDir(d, l) /\ OwnFinals(d, l)
                               /\ PublishesInOrder(d, l)
  <1>1. /\ l.pc \in {"ledger"} \cup Creating
        /\ l.pc \notin Early \cup Bare \cup Staging \cup AfterProfile \cup Cleaning
        /\ l.pc \in BeforeProfile
        /\ l.pc \notin {"write", "recheck", "mkdir", "ledger"}
    BY CreatingLabels DEF Staging
  <1>2. DropsUntilProfile(p, l) <=> ~p /\ l.drop
    BY <1>1 DEF DropsUntilProfile
  <1>3. CleansUp(d, l)
    BY <1>1 DEF CleansUp
  <1>4. OwnOnly(d, l) <=> OwnDir(d, l) /\ OwnFinals(d, l)
    BY <1>1 DEF OwnOnly
  <1>5. Fresh(d, p, l)
    BY <1>1 DEF Fresh
  <1> QED
    BY <1>2, <1>3, <1>4, <1>5 DEF WorkOn

LEMMA AtAfterProfile ==
    ASSUME NEW d, NEW p, NEW l, l.pc \in AfterProfile
    PROVE  WorkOn(d, p, l) <=> p /\ ~l.drop /\ OwnDir(d, l) /\ OwnFinals(d, l)
  <1>1. /\ l.pc \in {"ledger"} \cup Creating
        /\ l.pc \notin Early \cup Bare \cup Staging \cup Publishing \cup Cleaning
        /\ l.pc \notin BeforeProfile
        /\ l.pc \notin {"write", "recheck", "mkdir", "ledger"}
    BY CreatingLabels DEF Staging
  <1>2. DropsUntilProfile(p, l) <=> p /\ ~l.drop
    BY <1>1 DEF DropsUntilProfile
  <1>3. CleansUp(d, l) /\ PublishesInOrder(d, l)
    BY <1>1 DEF CleansUp, PublishesInOrder, Publishing
  <1>4. OwnOnly(d, l) <=> OwnDir(d, l) /\ OwnFinals(d, l)
    BY <1>1 DEF OwnOnly
  <1>5. Fresh(d, p, l)
    BY <1>1 DEF Fresh
  <1> QED
    BY <1>2, <1>3, <1>4, <1>5 DEF WorkOn

LEMMA AtCleaning ==
    ASSUME NEW d, NEW p, NEW l, l.pc \in Cleaning
    PROVE  WorkOn(d, p, l) <=> /\ l.drop <=> ~p
                               /\ l.then = "done" => ~l.drop
                               /\ OwnFinals(d, l)
                               /\ CleansUp(d, l)
  <1>1. /\ l.pc \notin {"ledger"} \cup Creating
        /\ l.pc \notin Early \cup Bare \cup Staging \cup Publishing \cup AfterProfile
        /\ l.pc \notin BeforeProfile
        /\ l.pc \notin {"write", "recheck", "mkdir", "ledger"}
    BY CreatingLabels DEF Staging
  <1>2. DropsUntilProfile(p, l) <=> (l.drop <=> ~p) /\ (l.then = "done" => ~l.drop)
    BY <1>1 DEF DropsUntilProfile
  <1>3. PublishesInOrder(d, l)
    BY <1>1 DEF PublishesInOrder, Publishing
  <1>4. OwnOnly(d, l) <=> OwnFinals(d, l)
    BY <1>1 DEF OwnOnly
  <1>5. Fresh(d, p, l)
    BY <1>1 DEF Fresh
  <1> QED
    BY <1>2, <1>3, <1>4, <1>5 DEF WorkOn

LEMMA Busy ==
    ASSUME WorkInv, NEW r \in Requests
    PROVE  WorkOn(disk, profile, me[r]) /\ DiskInv
  BY DEF WorkInv

\* A ledger is written where the attempt has its directory: nothing else changes.
LEMMA LedgerWritten ==
    ASSUME TypeInv, DiskInv, NEW r \in Requests, me[r].of \in Attempts,
           disk.dir[me[r].of] # "none", NEW v, DiskIs(WithLedger(r, v)),
           profile \/ \A i \in Artifacts : disk.final[i] = me[r].of
                        => v.state # "none" /\ v.art[i] \in {"publishing", "published"}
    PROVE  /\ DiskInv' /\ profile' = profile
           /\ disk'.final = disk.final /\ disk'.dir = disk.dir
           /\ disk'.ledger[me[r].of] = v
  <1> DEFINE a == me[r].of
  <1>1. disk.staging
    BY DEF DiskInv
  <1>2. /\ disk'.final = disk.final
        /\ disk'.dir = [disk.dir EXCEPT ![a] = IF @ = "none" THEN "clean" ELSE @]
        /\ disk'.ledger = [disk.ledger EXCEPT ![a] = v]
        /\ disk'.staging
        /\ profile' = profile
    BY DEF DiskIs, WithLedger, TypeInv, TypeOK, Disks
  <1>3. disk.dir \in [Attempts -> {"none", "clean", "littered"}] /\ DOMAIN disk.ledger = Attempts
    BY DEF TypeInv, TypeOK, Disks
  <1>4. disk'.dir = disk.dir
    BY <1>2, <1>3
  <1>5. disk'.ledger[a] = v /\ \A b \in Attempts : b # a => disk'.ledger[b] = disk.ledger[b]
    BY <1>2, <1>3
  <1>6. PublishedIsRecorded'
    BY <1>2, <1>5 DEF DiskInv, PublishedIsRecorded, HasLedger
  <1>7. ProfileHasItsFiles' /\ OneAttemptOnDisk'
    BY <1>2, <1>4 DEF DiskInv, ProfileHasItsFiles, OneAttemptOnDisk
  <1> QED
    BY <1>2, <1>4, <1>5, <1>6, <1>7, <1>1 DEF DiskInv

\* Staged, final files and directories are all that matters but at a link.
LEMMA SameFiles ==
    ASSUME NEW d, NEW e, e.final = d.final, e.dir = d.dir, NEW p, NEW l, l.pc # "link",
           WorkOn(d, p, l)
    PROVE  WorkOn(e, p, l)
  BY DEF WorkOn, Fresh, OwnOnly, OwnDir, OwnFinals, PublishesInOrder, CleansUp, Gone, There

LEMMA CreatingKnown ==
    ASSUME TypeInv, WorkInv, NEW r \in Requests, me[r].pc \in {"ledger"} \cup Creating
    PROVE  /\ me[r].of \in Attempts
           /\ OwnDir(disk, me[r]) /\ OwnFinals(disk, me[r])
           /\ disk.dir[me[r].of] # "none"
           /\ \A i \in Artifacts : disk.final[i] = me[r].of => me[r].art[i] = "published"
  <1>1. me[r].of \in Attempts
    BY MeFields, CreatingLabels
  <1>2. OwnDir(disk, me[r]) /\ OwnFinals(disk, me[r])
    BY Busy DEF WorkOn, OwnOnly
  <1> QED
    BY <1>1, <1>2 DEF OwnDir, OwnFinals, Gone

\* A request writes its ledger, or its claim, and goes on.
LEMMA WriteLedgerWork ==
    ASSUME OneWorker, TypeInv, WorkInv, NEW r \in Requests, NEW label \in {"ledger"} \cup Creating,
           NEW next, WriteLedger(r, label, next), next # "link",
           WorkOn(disk, profile, Moved(me[r], next)),
           profile \/ me[r].state # "none" \/ \A i \in Artifacts : Gone(disk, i)
    PROVE  WorkInv'
  <1> DEFINE v == LedgerOf(r)
  <1>1. Turn(r) /\ me[r].pc = label /\ DiskIs(WithLedger(r, v)) /\ Go(r, next)
    BY DEF WriteLedger, At
  <1>2. v.state = me[r].state /\ v.art = me[r].art
    BY DEF LedgerOf
  <1> HIDE DEF v
  <1>3. /\ me[r].of \in Attempts /\ disk.dir[me[r].of] # "none"
        /\ \A i \in Artifacts : disk.final[i] = me[r].of => v.art[i] = "published"
    BY <1>1, <1>2, CreatingKnown
  <1>4. DiskInv' /\ profile' = profile /\ disk'.final = disk.final /\ disk'.dir = disk.dir
    <2>1. CASE profile
      BY <1>1, <1>3, <2>1, LedgerWritten, Busy
    <2>2. CASE v.state # "none"
      BY <1>1, <1>3, <2>2, LedgerWritten, Busy
    <2>3. CASE \A i \in Artifacts : Gone(disk, i)
      <3>1. \A i \in Artifacts : disk.final[i] # me[r].of
        BY <1>3, <2>3 DEF Gone
      <3> QED
        BY <1>1, <1>3, <3>1, LedgerWritten, Busy
    <2> QED
      BY <1>2, <2>1, <2>2, <2>3
  <1>5. Moved(me[r], next).pc = next
    BY MeFields, MovedFields
  <1> QED
    BY <1>1, <1>4, <1>5, SameFiles, GoAlone

LEMMA WriteClaimWork ==
    ASSUME OneWorker, TypeInv, WorkInv, NEW r \in Requests, NEW label, NEW at, NEW next,
           WriteClaim(r, label, at, next), WorkOn(disk, profile, Restarted(me[r], next))
    PROVE  WorkInv'
  <1>1. /\ DiskInv' /\ Quiet(disk, disk') /\ profile' = profile
        /\ Turn(r) /\ me' = [me EXCEPT ![r] = Restarted(me[r], next)]
    BY WriteClaimQuiet, Busy
  <1> QED
    BY <1>1, QuietWork, Alone

\* Its directory is the first thing an attempt has, and nobody else has one.
LEMMA MakeDirWork ==
    ASSUME OneWorker, TypeInv, WorkInv, NEW r \in Requests, MakeDir(r)
    PROVE  WorkInv'
  <1> DEFINE a == me[r].of
             l == Moved(me[r], "ledger")
  <1>1. /\ Turn(r) /\ me[r].pc = "mkdir" /\ Go(r, "ledger") /\ profile' = profile
        /\ disk' = [disk EXCEPT !.dir[a] = "clean", !.staging = TRUE]
    BY DEF MakeDir, At, DiskIs
  <1>2. a \in Attempts
    BY <1>1, MeFields, CreatingLabels DEF Owning, Preparing
  <1>3. /\ disk'.final = disk.final /\ disk'.ledger = disk.ledger /\ disk'.staging
        /\ disk'.dir = [disk.dir EXCEPT ![a] = "clean"]
        /\ DOMAIN disk.dir = Attempts
    BY <1>1 DEF TypeInv, TypeOK, Disks
  <1>4. /\ ~profile /\ me[r].drop
        /\ \A i \in Artifacts : Gone(disk, i)
        /\ \A b \in Attempts : disk.dir[b] = "none"
    BY <1>1, BareKnown DEF Bare
  <1>5. \A b \in Attempts : disk'.dir[b] # "none" <=> b = a
    BY <1>2, <1>3, <1>4
  <1>6. \A i \in Artifacts : Gone(disk', i)
    BY <1>3, <1>4 DEF Gone
  <1>7. DiskInv'
    BY <1>1, <1>3, <1>4, <1>5, <1>6 DEF DiskInv, ProfileHasItsFiles, OneAttemptOnDisk,
       PublishedIsRecorded, Gone
  <1>8. l.pc \in Staging /\ l.drop = me[r].drop /\ l.of = a
    BY MeFields, MovedFields DEF Staging
  <1> HIDE DEF l
  <1>9. OwnDir(disk', l) /\ ~profile' /\ l.drop
    BY <1>1, <1>4, <1>5, <1>8 DEF OwnDir
  <1>10. WorkOn(disk', profile', l)
    BY <1>6, <1>8, <1>9, AtStaging
  <1> QED
    BY <1>1, <1>7, <1>10, GoAlone DEF l

LEMMA StagingKnown ==
    ASSUME WorkInv, NEW r \in Requests, me[r].pc \in Staging
    PROVE  /\ ~profile /\ me[r].drop
           /\ \A i \in Artifacts : Gone(disk, i)
           /\ OwnDir(disk, me[r])
  BY Busy, AtStaging

LEMMA PublishingKnown ==
    ASSUME WorkInv, NEW r \in Requests, me[r].pc \in Publishing
    PROVE  /\ ~profile /\ me[r].drop
           /\ OwnDir(disk, me[r]) /\ OwnFinals(disk, me[r])
           /\ PublishesInOrder(disk, me[r])
  BY Busy, AtPublishing

LEMMA AfterProfileKnown ==
    ASSUME WorkInv, NEW r \in Requests, me[r].pc \in AfterProfile
    PROVE  /\ profile /\ ~me[r].drop
           /\ OwnDir(disk, me[r]) /\ OwnFinals(disk, me[r])
  BY Busy, AtAfterProfile

\* A request that stages goes on staging: only its attempt and what it drops matter.
LEMMA StagesOn ==
    ASSUME WorkInv, NEW r \in Requests, me[r].pc \in Staging, NEW l, l.pc \in Staging,
           l.of = me[r].of, l.drop = me[r].drop
    PROVE  WorkOn(disk, profile, l)
  BY StagingKnown, AtStaging DEF OwnDir

LEMMA FinishesOn ==
    ASSUME WorkInv, NEW r \in Requests, me[r].pc \in AfterProfile, NEW l, l.pc \in AfterProfile,
           l.of = me[r].of, l.drop = me[r].drop, l.art = me[r].art
    PROVE  WorkOn(disk, profile, l)
  BY AfterProfileKnown, AtAfterProfile DEF OwnDir, OwnFinals

LEMMA StageWork ==
    ASSUME OneWorker, TypeInv, WorkInv, NEW r \in Requests, Stage(r)
    PROVE  WorkInv'
  <1> DEFINE a == me[r].of
             i == me[r].at
             d(v) == [disk EXCEPT !.staged[a][i] = v]
  <1>1. Turn(r) /\ me[r].pc = "stage" /\ me[r].pc \in Staging
    BY DEF Stage, At, Staging
  <1>2. CASE DiskIs(d("partial")) /\ UNCHANGED me
    <2>1. DiskInv' /\ disk' = d("partial") /\ profile' = profile /\ Quiet(disk, d("partial"))
      BY <1>2, QuietIs, QuietUpdates, Busy
    <2> HIDE DEF d
    <2>2. \A q \in Requests : WorkOn(disk', profile', me[q])
      BY <2>1, QuietWork, Busy
    <2> QED
      BY <1>2, <2>1, <2>2 DEF WorkInv, OneAtATime
  <1>3. ASSUME DiskIs(d("full")),
               me' = [me EXCEPT ![r].art[i] = "staged",
                                ![r].at = IF LastArtifact(r) THEN 1 ELSE i + 1,
                                ![r].state = IF LastArtifact(r) THEN "staged" ELSE @,
                                ![r].pc = IF LastArtifact(r) THEN "recordStaged" ELSE @]
        PROVE  WorkInv'
    <2> DEFINE pc == IF LastArtifact(r) THEN "recordStaged" ELSE me[r].pc
               at == IF LastArtifact(r) THEN 1 ELSE i + 1
               state == IF LastArtifact(r) THEN "staged" ELSE me[r].state
               art == [me[r].art EXCEPT ![i] = "staged"]
               l == [me[r] EXCEPT !.art = art, !.at = at, !.state = state, !.pc = pc]
    <2>1. DiskInv' /\ disk' = d("full") /\ profile' = profile /\ Quiet(disk, d("full"))
      BY <1>3, QuietIs, QuietUpdates, Busy
    <2> HIDE DEF d
    <2>2. me' = [me EXCEPT ![r] = l]
      BY <1>3
    <2>3. pc \in Staging
      BY <1>1 DEF Staging
    <2> HIDE DEF pc, at, state, art
    <2>4. l.pc \in Staging /\ l.of = me[r].of /\ l.drop = me[r].drop
      BY <2>3, MeFields DEF Locals
    <2> HIDE DEF l
    <2>5. WorkOn(disk', profile', l)
      BY <1>1, <2>1, <2>4, StagesOn, QuietWork
    <2> QED
      BY <1>1, <2>1, <2>2, <2>5, Alone
  <1> QED
    BY <1>1, <1>2, <1>3 DEF Stage

\* The steps that only write a ledger or a claim.
LEMMA NotesWork ==
    ASSUME OneWorker, TypeInv, WorkInv, NEW r \in Requests,
           \/ FirstLedger(r) \/ NoteClaimed(r) \/ RecordStaged(r) \/ NoteStaged(r)
           \/ RecordPublished(r) \/ NotePublished(r) \/ RecordProfile(r) \/ NoteProfile(r)
    PROVE  WorkInv'
  <1> DEFINE moved(label) == Moved(me[r], label)
             again(label) == Restarted(me[r], label)
  <1>1. /\ me[r].at \in Nat
        /\ \A label : /\ moved(label).pc = label /\ moved(label).at = me[r].at
                      /\ moved(label).of = me[r].of /\ moved(label).drop = me[r].drop
                      /\ moved(label).art = me[r].art
        /\ \A label : /\ again(label).pc = label /\ again(label).at = 1
                      /\ again(label).of = me[r].of /\ again(label).drop = me[r].drop
                      /\ again(label).art = me[r].art
    BY MeFields, MovedFields, RestartedFields
  <1>2. \A i \in Artifacts : i \in Nat /\ i >= 1
    BY DEF Artifacts
  <1> HIDE DEF moved, again
  <1>3. ASSUME FirstLedger(r) PROVE WorkInv'
    <2>1. WriteLedger(r, "ledger", "noteClaimed") /\ me[r].pc = "ledger"
      BY <1>3 DEF FirstLedger, WriteLedger, At
    <2>2. WorkOn(disk, profile, moved("noteClaimed")) /\ \A i \in Artifacts : Gone(disk, i)
      BY <1>1, <2>1, StagesOn, StagingKnown DEF Staging
    <2> QED
      BY <2>1, <2>2, WriteLedgerWork DEF moved
  <1>4. ASSUME NoteClaimed(r) PROVE WorkInv'
    <2>1. WriteClaim(r, "noteClaimed", "claimed", "stage") /\ me[r].pc = "noteClaimed"
      BY <1>4 DEF NoteClaimed, WriteClaim, At
    <2>2. WorkOn(disk, profile, again("stage"))
      BY <1>1, <2>1, StagesOn DEF Staging
    <2> QED
      BY <2>1, <2>2, WriteClaimWork DEF again
  <1>5. ASSUME RecordStaged(r) PROVE WorkInv'
    <2>1. WriteLedger(r, "recordStaged", "noteStaged") /\ me[r].pc = "recordStaged"
      BY <1>5 DEF RecordStaged, WriteLedger, At
    <2>2. WorkOn(disk, profile, moved("noteStaged")) /\ \A i \in Artifacts : Gone(disk, i)
      BY <1>1, <2>1, StagesOn, StagingKnown DEF Staging
    <2> QED
      BY <2>1, <2>2, WriteLedgerWork DEF moved, Creating
  <1>6. ASSUME NoteStaged(r) PROVE WorkInv'
    <2> DEFINE l == again("announce")
    <2>1. WriteClaim(r, "noteStaged", "staged", "announce") /\ me[r].pc \in Staging
      BY <1>6 DEF NoteStaged, WriteClaim, At, Staging
    <2>2. /\ ~profile /\ me[r].drop
          /\ \A i \in Artifacts : Gone(disk, i)
          /\ OwnDir(disk, me[r])
      BY <2>1, StagingKnown
    <2>3. l.pc = "announce" /\ l.at = 1 /\ l.of = me[r].of /\ l.drop = me[r].drop
      BY <1>1
    <2> HIDE DEF l
    <2>4. OwnDir(disk, l) /\ OwnFinals(disk, l) /\ PublishesInOrder(disk, l)
      BY <1>2, <2>2, <2>3 DEF OwnDir, OwnFinals, PublishesInOrder
    <2>5. WorkOn(disk, profile, l)
      <3>1. l.pc \in Publishing /\ l.drop
        BY <2>2, <2>3 DEF Publishing
      <3> QED
        BY <2>2, <2>4, <3>1, AtPublishing
    <2> QED
      BY <2>1, <2>5, WriteClaimWork DEF again, l
  <1>7. ASSUME RecordPublished(r) PROVE WorkInv'
    <2> DEFINE l == moved("unlink")
    <2>1. /\ WriteLedger(r, "recordPublished", "unlink")
          /\ me[r].pc = "recordPublished" /\ me[r].pc \in Publishing
      BY <1>7 DEF RecordPublished, WriteLedger, At, Publishing
    <2>2. /\ ~profile /\ me[r].drop
          /\ OwnDir(disk, me[r]) /\ OwnFinals(disk, me[r])
          /\ PublishesInOrder(disk, me[r])
      BY <2>1, PublishingKnown
    <2>3. /\ l.pc = "unlink" /\ l.at = me[r].at /\ l.of = me[r].of
          /\ l.drop = me[r].drop /\ l.art = me[r].art
      BY <1>1
    <2> HIDE DEF l
    <2>4. OwnDir(disk, l) /\ OwnFinals(disk, l) /\ PublishesInOrder(disk, l)
      BY <2>1, <2>2, <2>3 DEF OwnDir, OwnFinals, PublishesInOrder
    <2>5. WorkOn(disk, profile, l)
      <3>1. l.pc \in Publishing /\ l.drop
        BY <2>2, <2>3 DEF Publishing
      <3> QED
        BY <2>2, <2>4, <3>1, AtPublishing
    <2>6. me[r].state # "none"
      BY <2>1, <2>2 DEF PublishesInOrder
    <2> QED
      BY <2>1, <2>5, <2>6, WriteLedgerWork DEF moved, l, Creating
  <1>8. ASSUME NotePublished(r) PROVE WorkInv'
    <2> DEFINE l == again("profile")
    <2>1. /\ WriteClaim(r, "notePublished", "published", "profile")
          /\ me[r].pc = "notePublished" /\ me[r].pc \in Publishing
      BY <1>8 DEF NotePublished, WriteClaim, At, Publishing
    <2>2. /\ ~profile /\ me[r].drop
          /\ OwnDir(disk, me[r]) /\ OwnFinals(disk, me[r])
          /\ PublishesInOrder(disk, me[r])
      BY <2>1, PublishingKnown
    <2>3. l.pc = "profile" /\ l.of = me[r].of /\ l.drop = me[r].drop /\ l.art = me[r].art
      BY <1>1
    <2> HIDE DEF l
    <2>4. OwnDir(disk, l) /\ OwnFinals(disk, l) /\ PublishesInOrder(disk, l)
      BY <2>1, <2>2, <2>3 DEF OwnDir, OwnFinals, PublishesInOrder
    <2>5. WorkOn(disk, profile, l)
      <3>1. l.pc \in Publishing /\ l.drop
        BY <2>2, <2>3 DEF Publishing
      <3> QED
        BY <2>2, <2>4, <3>1, AtPublishing
    <2> QED
      BY <2>1, <2>5, WriteClaimWork DEF again, l
  <1>9. ASSUME RecordProfile(r) PROVE WorkInv'
    <2>1. WriteLedger(r, "recordProfile", "noteProfile") /\ me[r].pc = "recordProfile"
      BY <1>9 DEF RecordProfile, WriteLedger, At
    <2>2. WorkOn(disk, profile, moved("noteProfile")) /\ profile
      BY <1>1, <2>1, FinishesOn, AfterProfileKnown DEF AfterProfile
    <2> QED
      BY <2>1, <2>2, WriteLedgerWork DEF moved, Creating
  <1>10. ASSUME NoteProfile(r) PROVE WorkInv'
    <2>1. /\ WriteClaim(r, "noteProfile", "profile_created", "recordComplete")
          /\ me[r].pc = "noteProfile"
      BY <1>10 DEF NoteProfile, WriteClaim, At
    <2>2. WorkOn(disk, profile, again("recordComplete"))
      BY <1>1, <2>1, FinishesOn DEF AfterProfile
    <2> QED
      BY <2>1, <2>2, WriteClaimWork DEF again
  <1> QED
    BY <1>3, <1>4, <1>5, <1>6, <1>7, <1>8, <1>9, <1>10

\* The ledger of an attempt says "publishing" before its link.
LEMMA AnnounceWork ==
    ASSUME OneWorker, TypeInv, WorkInv, NEW r \in Requests, Announce(r)
    PROVE  WorkInv'
  <1> DEFINE a == me[r].of
             i == me[r].at
             art == [me[r].art EXCEPT ![i] = "publishing"]
             v == [state |-> "publishing", art |-> art]
             l == [me[r] EXCEPT !.pc = "link", !.state = "publishing", !.art = art]
  <1>1. /\ Turn(r) /\ me[r].pc = "announce" /\ me[r].pc \in Publishing
        /\ DiskIs(WithLedger(r, v)) /\ me' = [me EXCEPT ![r] = l]
    BY DEF Announce, At, Publishing
  <1>2. /\ a \in Attempts /\ OwnFinals(disk, me[r]) /\ OwnDir(disk, me[r])
        /\ disk.dir[a] # "none"
        /\ \A j \in Artifacts : disk.final[j] = a => me[r].art[j] = "published"
    BY <1>1, CreatingKnown, CreatingLabels
  <1>3. i \in Artifacts /\ me[r].art \in [Artifacts -> ArtStates] /\ me[r] \in Locals
    BY MeFields
  <1>4. ~profile /\ me[r].drop /\ PublishesInOrder(disk, me[r])
    BY <1>1, PublishingKnown
  <1>5. \A j \in Artifacts : (j < i => There(disk, j)) /\ (j >= i => Gone(disk, j))
    BY <1>1, <1>4 DEF PublishesInOrder
  <1>6. Gone(disk, i)
    BY <1>3, <1>5 DEF Artifacts
  <1>7. art[i] = "publishing" /\ \A j \in Artifacts : j # i => art[j] = me[r].art[j]
    BY <1>3
  <1> HIDE DEF art
  <1>8. v.state = "publishing" /\ v.art = art
    OBVIOUS
  <1>9. \A j \in Artifacts : disk.final[j] = a => v.art[j] = "published"
    BY <1>2, <1>6, <1>7, <1>8 DEF Gone
  <1> HIDE DEF v
  <1>10. /\ DiskInv' /\ profile' = profile
         /\ disk'.final = disk.final /\ disk'.dir = disk.dir
         /\ disk'.ledger[a] = v
    BY <1>1, <1>2, <1>8, <1>9, LedgerWritten, Busy
  <1>11. /\ l.pc = "link" /\ l.of = a /\ l.at = i /\ l.drop = me[r].drop /\ l.art = art
    BY <1>3 DEF Locals
  <1> HIDE DEF l
  <1>12. OwnDir(disk', l) /\ OwnFinals(disk', l)
    BY <1>2, <1>6, <1>7, <1>10, <1>11 DEF OwnDir, OwnFinals, Gone
  <1>13. PublishesInOrder(disk', l)
    BY <1>5, <1>7, <1>8, <1>10, <1>11 DEF PublishesInOrder, Gone, There
  <1>14. l.pc \in Publishing /\ l.drop
    BY <1>4, <1>11 DEF Publishing
  <1>15. WorkOn(disk', profile', l)
    BY <1>4, <1>10, <1>12, <1>13, <1>14, AtPublishing
  <1> QED
    BY <1>1, <1>10, <1>15, Alone

\* The request's own cleanup begins.
LEMMA StartCleanupWork ==
    ASSUME OneWorker, TypeInv, NEW r \in Requests, Turn(r), StartCleanup(r), DiskInv',
           OwnFinals(disk', me[r]), me[r].drop <=> ~profile'
    PROVE  WorkInv'
  <1> DEFINE l == [me[r] EXCEPT !.pc = "cleanFinal", !.at = 1, !.then = "refused"]
  <1>1. me' = [me EXCEPT ![r] = l]
    BY DEF StartCleanup
  <1>2. /\ l.pc = "cleanFinal" /\ l.at = 1 /\ l.then = "refused"
        /\ l.of = me[r].of /\ l.art = me[r].art /\ l.drop = me[r].drop
    BY MeFields DEF Locals
  <1> HIDE DEF l
  <1>3. l.pc \in Cleaning /\ OwnFinals(disk', l)
    BY <1>2 DEF Cleaning, OwnFinals
  <1>4. CleansUp(disk', l)
    <2>1. \A i \in Artifacts : ~(i < 1)
      BY DEF Artifacts
    <2> QED
      BY <1>2, <2>1 DEF CleansUp, Early
  <1>5. (l.drop <=> ~profile') /\ l.then # "done"
    BY <1>2
  <1>6. WorkOn(disk', profile', l)
    BY <1>3, <1>4, <1>5, AtCleaning
  <1> QED
    BY <1>1, <1>6, Alone

LEMMA LinkWork ==
    ASSUME OneWorker, TypeInv, WorkInv, NEW r \in Requests, Link(r)
    PROVE  WorkInv'
  <1> DEFINE a == me[r].of
             i == me[r].at
             art == [me[r].art EXCEPT ![i] = "published"]
             l == [me[r] EXCEPT !.pc = "recordPublished", !.state = "published", !.art = art]
  <1>1. Turn(r) /\ me[r].pc = "link" /\ me[r].pc \in Publishing
    BY DEF Link, At, Publishing
  <1>2. /\ a \in Attempts /\ OwnFinals(disk, me[r]) /\ OwnDir(disk, me[r])
        /\ disk.dir[a] # "none"
    BY <1>1, CreatingKnown, CreatingLabels
  <1>3. i \in Artifacts /\ me[r].art \in [Artifacts -> ArtStates] /\ me[r] \in Locals
    BY MeFields
  <1>4. ~profile /\ me[r].drop /\ PublishesInOrder(disk, me[r])
    BY <1>1, PublishingKnown
  <1>5. /\ \A j \in Artifacts : (j < i => There(disk, j)) /\ (j >= i => Gone(disk, j))
        /\ disk.ledger[a].state # "none" /\ disk.ledger[a].art[i] = "publishing"
    BY <1>1, <1>4 DEF PublishesInOrder
  <1>6. CASE DiskKept /\ StartCleanup(r)
    BY <1>1, <1>2, <1>4, <1>6, QuietKept, Busy, StartCleanupWork
  <1>7. ASSUME DiskIs([disk EXCEPT !.final[i] = a]),
               me' = [me EXCEPT ![r].pc = "recordPublished", ![r].state = "published",
                                ![r].art[i] = "published"]
        PROVE  WorkInv'
    <2>1. me' = [me EXCEPT ![r] = l]
      BY <1>7
    <2>2. /\ disk'.dir = disk.dir /\ disk'.ledger = disk.ledger /\ disk'.staging = disk.staging
          /\ disk'.final = [disk.final EXCEPT ![i] = a] /\ DOMAIN disk.final = Artifacts
          /\ profile' = profile
      BY <1>7 DEF DiskIs, TypeInv, TypeOK, Disks
    <2>3. disk'.final[i] = a /\ \A j \in Artifacts : j # i => disk'.final[j] = disk.final[j]
      BY <1>3, <2>2
    <2>4. art[i] = "published" /\ \A j \in Artifacts : j # i => art[j] = me[r].art[j]
      BY <1>3
    <2> HIDE DEF art
    <2>5. /\ l.pc = "recordPublished" /\ l.of = a /\ l.at = i /\ l.state = "published"
          /\ l.drop = me[r].drop /\ l.art = art
      BY <1>3 DEF Locals
    <2> HIDE DEF l
    <2>6. OwnDir(disk', l) /\ OwnFinals(disk', l)
      BY <1>2, <2>2, <2>3, <2>4, <2>5 DEF OwnDir, OwnFinals, Gone
    <2>7. \A j \in Artifacts : (j <= i => There(disk', j)) /\ (j > i => Gone(disk', j))
      BY <1>2, <1>3, <1>5, <2>3, OwnersAssumption DEF There, Gone, Artifacts
    <2>8. PublishesInOrder(disk', l)
      BY <2>5, <2>7 DEF PublishesInOrder
    <2>9. l.pc \in Publishing /\ l.drop
      BY <1>4, <2>5 DEF Publishing
    <2>10. WorkOn(disk', profile', l)
      BY <1>4, <2>2, <2>6, <2>8, <2>9, AtPublishing
    <2>11. OneAttemptOnDisk'
      <3>1. \A b \in Attempts : disk'.dir[b] # "none" => b = a
        BY <1>2, <2>2 DEF OwnDir
      <3>2. \A b \in Attempts, j \in Artifacts : disk'.final[j] = b => b = a
        BY <1>2, <2>3 DEF OwnFinals, Gone
      <3> QED
        BY <3>1, <3>2 DEF OneAttemptOnDisk
    <2>12. PublishedIsRecorded'
      <3>1. ASSUME NEW j \in Artifacts, NEW b \in Attempts, disk'.final[j] = b
            PROVE  HasLedger(b)' /\ disk'.ledger[b].art[j] \in {"publishing", "published"}
        <4>1. CASE j = i
          BY <1>5, <2>2, <2>3, <3>1, <4>1 DEF HasLedger
        <4>2. CASE j # i
          BY <1>4, <2>2, <2>3, <3>1, <4>2, Busy DEF DiskInv, PublishedIsRecorded, HasLedger
        <4> QED
          BY <4>1, <4>2
      <3> QED
        BY <3>1 DEF PublishedIsRecorded
    <2>13. ProfileHasItsFiles' /\ \A b \in Attempts : disk'.dir[b] # "none" => disk'.staging
      BY <1>4, <2>2, Busy DEF DiskInv, ProfileHasItsFiles
    <2> QED
      BY <1>1, <2>1, <2>10, <2>11, <2>12, <2>13, Alone DEF DiskInv
  <1> QED
    BY <1>6, <1>7 DEF Link

LEMMA UnlinkWork ==
    ASSUME OneWorker, TypeInv, WorkInv, NEW r \in Requests, Unlink(r)
    PROVE  WorkInv'
  <1> DEFINE pc == IF LastArtifact(r) THEN "notePublished" ELSE "announce"
             at == IF LastArtifact(r) THEN 1 ELSE me[r].at + 1
             l == [me[r] EXCEPT !.pc = pc, !.at = at]
             d == [disk EXCEPT !.staged[me[r].of][me[r].at] = "none"]
  <1>1. /\ Turn(r) /\ me[r].pc = "unlink" /\ me[r].pc \in Publishing
        /\ DiskIs(d) /\ me' = [me EXCEPT ![r] = l]
    BY DEF Unlink, At, Publishing
  <1>2. Quiet(disk, d)
    BY QuietUpdates
  <1> HIDE DEF d
  <1>3. DiskInv' /\ Quiet(disk, disk') /\ profile' = profile
    BY <1>1, <1>2, QuietIs, Busy
  <1>4. /\ ~profile /\ me[r].drop
        /\ OwnDir(disk, me[r]) /\ OwnFinals(disk, me[r])
        /\ PublishesInOrder(disk, me[r])
    BY <1>1, PublishingKnown
  <1>5. me[r].at \in Nat /\ \A j \in Artifacts : j \in Nat /\ j <= N
    BY MeFields, ArtifactsAssumption DEF Artifacts
  <1>6. \A j \in Artifacts : (j <= me[r].at => There(disk, j)) /\ (j > me[r].at => Gone(disk, j))
    BY <1>1, <1>4 DEF PublishesInOrder
  <1>7. /\ l.pc = pc /\ l.at = at /\ l.of = me[r].of
        /\ l.drop = me[r].drop /\ l.art = me[r].art
    BY MeFields DEF Locals
  <1> HIDE DEF l
  <1>8. PublishesInOrder(disk, l)
    <2>1. CASE LastArtifact(r)
      BY <1>5, <1>6, <1>7, <2>1 DEF PublishesInOrder, LastArtifact
    <2>2. CASE ~LastArtifact(r)
      <3>1. l.pc = "announce" /\ l.at = me[r].at + 1
        BY <1>7, <2>2
      <3>2. \A j \in Artifacts : (j < me[r].at + 1 => There(disk, j))
                              /\ (j >= me[r].at + 1 => Gone(disk, j))
        BY <1>5, <1>6
      <3> QED
        BY <3>1, <3>2 DEF PublishesInOrder
    <2> QED
      BY <2>1, <2>2
  <1>9. OwnDir(disk, l) /\ OwnFinals(disk, l)
    BY <1>4, <1>7 DEF OwnDir, OwnFinals
  <1>10. l.pc \in Publishing /\ l.drop
    BY <1>4, <1>7 DEF Publishing
  <1>11. WorkOn(disk, profile, l)
    BY <1>4, <1>8, <1>9, <1>10, AtPublishing
  <1> QED
    BY <1>1, <1>3, <1>11, QuietWork, Alone

--------------------------------------------------------------------------------
(* The profile, and the end of an attempt.                                 *)

LEMMA CreateProfileWork ==
    ASSUME OneWorker, TypeInv, WorkInv, NEW r \in Requests, CreateProfile(r)
    PROVE  WorkInv'
  <1> DEFINE l == [me[r] EXCEPT !.pc = "recordProfile", !.state = "profile_created", !.drop = FALSE]
  <1>1. Turn(r) /\ me[r].pc = "profile" /\ me[r].pc \in Publishing /\ disk' = disk
    BY DEF CreateProfile, At, Publishing
  <1>2. /\ ~profile /\ me[r].drop
        /\ OwnDir(disk, me[r]) /\ OwnFinals(disk, me[r])
        /\ PublishesInOrder(disk, me[r])
    BY <1>1, PublishingKnown
  <1>3. \A i \in Artifacts : disk.final[i] # Nobody
    BY <1>1, <1>2 DEF PublishesInOrder, There
  <1>4. CASE profile' = TRUE /\ me' = [me EXCEPT ![r].pc = "recordProfile",
                                                 ![r].state = "profile_created", ![r].drop = FALSE]
    <2>1. me' = [me EXCEPT ![r] = l]
      BY <1>4
    <2>2. /\ l.pc = "recordProfile" /\ l.of = me[r].of /\ l.art = me[r].art /\ l.drop = FALSE
      BY MeFields DEF Locals
    <2> HIDE DEF l
    <2>3. OwnDir(disk, l) /\ OwnFinals(disk, l)
      BY <1>2, <2>2 DEF OwnDir, OwnFinals
    <2>4. l.pc \in AfterProfile /\ profile' /\ ~l.drop
      BY <1>4, <2>2 DEF AfterProfile
    <2>5. WorkOn(disk, profile', l)
      BY <2>3, <2>4, AtAfterProfile
    <2>6. DiskInv'
      BY <1>1, <1>3, <1>4, Busy DEF DiskInv, ProfileHasItsFiles, OneAttemptOnDisk,
         PublishedIsRecorded
    <2> QED
      BY <1>1, <2>1, <2>5, <2>6, Alone
  <1>5. CASE StartCleanup(r) /\ UNCHANGED profile
    <2>1. DiskInv' /\ OwnFinals(disk', me[r]) /\ (me[r].drop <=> ~profile')
      BY <1>1, <1>2, <1>5, QuietDisk, Busy DEF Quiet
    <2> QED
      BY <1>1, <1>5, <2>1, StartCleanupWork
  <1> QED
    BY <1>4, <1>5 DEF CreateProfile

LEMMA RecordCompleteWork ==
    ASSUME OneWorker, TypeInv, WorkInv, NEW r \in Requests, RecordComplete(r)
    PROVE  WorkInv'
  <1> DEFINE v == [state |-> "complete", art |-> me[r].art]
             l == [me[r] EXCEPT !.pc = "complete", !.state = "complete"]
  <1>1. /\ Turn(r) /\ me[r].pc = "recordComplete" /\ me[r].pc \in AfterProfile
        /\ DiskIs(WithLedger(r, v)) /\ me' = [me EXCEPT ![r] = l]
    BY DEF RecordComplete, At, AfterProfile
  <1>2. profile /\ me[r].of \in Attempts /\ disk.dir[me[r].of] # "none"
    BY <1>1, AfterProfileKnown, CreatingKnown, CreatingLabels
  <1> HIDE DEF v
  <1>3. DiskInv' /\ profile' = profile /\ disk'.final = disk.final /\ disk'.dir = disk.dir
    BY <1>1, <1>2, LedgerWritten, Busy
  <1>4. l.pc = "complete" /\ l.of = me[r].of /\ l.drop = me[r].drop /\ l.art = me[r].art
    BY MeFields DEF Locals
  <1> HIDE DEF l
  <1>5. WorkOn(disk, profile, l) /\ l.pc # "link"
    BY <1>1, <1>4, FinishesOn DEF AfterProfile
  <1> QED
    BY <1>1, <1>3, <1>5, SameFiles, Alone

LEMMA CompleteWork ==
    ASSUME OneWorker, TypeInv, WorkInv, NEW r \in Requests, Complete(r)
    PROVE  WorkInv'
  <1> DEFINE l == [me[r] EXCEPT !.pc = "rmLedger", !.then = "done"]
  <1>1. /\ Turn(r) /\ me[r].pc \in AfterProfile /\ RemoveClaim(r, "complete")
        /\ me' = [me EXCEPT ![r] = l]
    BY DEF Complete, RemoveClaim, At, AfterProfile
  <1>2. DiskInv' /\ Quiet(disk, disk') /\ profile' = profile
    BY <1>1, RemoveClaimQuiet, Busy
  <1>3. profile /\ ~me[r].drop /\ OwnFinals(disk, me[r])
    BY <1>1, AfterProfileKnown
  <1>4. /\ l.pc = "rmLedger" /\ l.then = "done" /\ l.of = me[r].of
        /\ l.drop = me[r].drop /\ l.art = me[r].art
    BY MeFields DEF Locals
  <1> HIDE DEF l
  <1>5. OwnFinals(disk, l) /\ ~l.drop /\ l.pc \in Cleaning
    BY <1>3, <1>4 DEF OwnFinals, Cleaning
  <1>6. CleansUp(disk, l)
    BY <1>4, <1>5 DEF CleansUp, Early
  <1>7. WorkOn(disk, profile, l)
    BY <1>3, <1>5, <1>6, AtCleaning
  <1> QED
    BY <1>1, <1>2, <1>7, QuietWork, Alone

--------------------------------------------------------------------------------
(* The cleanup.                                                            *)

LEMMA CleaningKnown ==
    ASSUME TypeInv, WorkInv, NEW r \in Requests, me[r].pc \in Cleaning
    PROVE  /\ me[r].drop <=> ~profile
           /\ me[r].then = "done" => ~me[r].drop
           /\ OwnFinals(disk, me[r])
           /\ CleansUp(disk, me[r])
           /\ me[r].of \in Attempts
  BY Busy, AtCleaning, MeFields, CreatingLabels

LEMMA CleanFinalWork ==
    ASSUME OneWorker, TypeInv, WorkInv, NEW r \in Requests, CleanFinal(r)
    PROVE  WorkInv'
  <1> DEFINE i == me[r].at
             removing == me[r].drop /\ me[r].art[i] = "published" /\ disk.final[i] # Nobody
             l == Moved(me[r], "cleanStaged")
  <1>1. Turn(r) /\ me[r].pc = "cleanFinal" /\ me[r].pc \in Cleaning
    BY DEF CleanFinal, At, Cleaning
  <1>2. /\ me[r].drop <=> ~profile
        /\ me[r].then = "done" => ~me[r].drop
        /\ OwnFinals(disk, me[r])
        /\ CleansUp(disk, me[r])
        /\ me[r].of \in Attempts
    BY <1>1, CleaningKnown
  <1>3. i \in Artifacts /\ i \in Nat /\ \A j \in Artifacts : j \in Nat
    BY MeFields DEF Artifacts
  <1>4. /\ l.pc = "cleanStaged" /\ l.pc \in Cleaning /\ l.of = me[r].of /\ l.at = i
        /\ l.art = me[r].art /\ l.drop = me[r].drop /\ l.then = me[r].then
    BY MeFields, MovedFields DEF Cleaning
  <1>5. /\ me[r].then \in Early => me[r].drop /\ \A j \in Artifacts : Gone(disk, j)
        /\ me[r].drop => \A j \in Artifacts : j < i => Gone(disk, j)
    BY <1>1, <1>2 DEF CleansUp
  <1> HIDE DEF l
  <1>6. CASE ~removing /\ DiskKept /\ Go(r, "cleanStaged")
    <2>1. DiskInv' /\ disk' = disk /\ profile' = profile
      BY <1>6, QuietKept, Busy
    <2>2. me[r].drop => Gone(disk, i)
      BY <1>2, <1>3, <1>6, OwnersAssumption DEF OwnFinals, Gone
    <2>3. me[r].drop => \A j \in Artifacts : j <= i => Gone(disk, j)
      BY <1>3, <1>5, <2>2
    <2>4. CleansUp(disk, l) /\ OwnFinals(disk, l)
      BY <1>2, <1>4, <1>5, <2>3 DEF CleansUp, OwnFinals
    <2>5. (l.drop <=> ~profile) /\ (l.then = "done" => ~l.drop)
      BY <1>2, <1>4
    <2>6. WorkOn(disk, profile, l)
      BY <1>4, <2>4, <2>5, AtCleaning
    <2> QED
      BY <1>1, <1>6, <2>1, <2>6, GoAlone DEF l
  <1>7. CASE DiskKept /\ Answer(r)
    BY <1>1, <1>7, QuietKept, AnswerAlone, Busy
  <1>8. CASE removing /\ DiskIs([disk EXCEPT !.final[i] = Nobody]) /\ Go(r, "cleanStaged")
    <2>1. /\ disk'.dir = disk.dir /\ disk'.ledger = disk.ledger /\ disk'.staging = disk.staging
          /\ disk'.final = [disk.final EXCEPT ![i] = Nobody] /\ DOMAIN disk.final = Artifacts
          /\ profile' = profile
      BY <1>8 DEF DiskIs, TypeInv, TypeOK, Disks
    <2>2. disk'.final[i] = Nobody /\ \A j \in Artifacts : j # i => disk'.final[j] = disk.final[j]
      BY <1>3, <2>1
    <2>3. Gone(disk', i) /\ \A j \in Artifacts : Gone(disk, j) => Gone(disk', j)
      BY <2>2, OwnersAssumption DEF Gone
    <2>4. \A j \in Artifacts, a \in Attempts : disk'.final[j] = a => disk.final[j] = a
      BY <2>2, OwnersAssumption
    <2>5. ~profile /\ me[r].drop
      BY <1>2, <1>8
    <2>6. DiskInv'
      <3>1. ProfileHasItsFiles' /\ \A a \in Attempts : disk'.dir[a] # "none" => disk'.staging
        BY <2>1, <2>5, Busy DEF DiskInv, ProfileHasItsFiles
      <3>2. OneAttemptOnDisk'
        BY <2>1, <2>4, Busy DEF DiskInv, OneAttemptOnDisk
      <3>3. PublishedIsRecorded'
        BY <2>1, <2>4, Busy DEF DiskInv, PublishedIsRecorded, HasLedger
      <3> QED
        BY <3>1, <3>2, <3>3 DEF DiskInv
    <2>7. OwnFinals(disk', l)
      BY <1>2, <1>4, <2>2, <2>3 DEF OwnFinals, Gone
    <2>8. \A j \in Artifacts : j <= i => Gone(disk', j)
      BY <1>3, <1>5, <2>3, <2>5
    <2>9. CleansUp(disk', l)
      BY <1>4, <1>5, <2>3, <2>8 DEF CleansUp
    <2>10. (l.drop <=> ~profile') /\ (l.then = "done" => ~l.drop)
      BY <1>2, <1>4, <2>1
    <2>11. WorkOn(disk', profile', l)
      BY <1>4, <2>7, <2>9, <2>10, AtCleaning
    <2> QED
      BY <1>1, <1>8, <2>6, <2>11, GoAlone DEF l
  <1> QED
    BY <1>6, <1>7, <1>8 DEF CleanFinal

LEMMA CleanStagedWork ==
    ASSUME OneWorker, TypeInv, WorkInv, NEW r \in Requests, CleanStaged(r)
    PROVE  WorkInv'
  <1> DEFINE pc == IF LastArtifact(r) THEN "rmLedger" ELSE "cleanFinal"
             at == IF LastArtifact(r) THEN 1 ELSE me[r].at + 1
             l == [me[r] EXCEPT !.pc = pc, !.at = at]
             d == [disk EXCEPT !.staged[me[r].of][me[r].at] = "none"]
  <1>1. Turn(r) /\ me[r].pc = "cleanStaged" /\ me[r].pc \in Cleaning
    BY DEF CleanStaged, At, Cleaning
  <1>2. CASE DiskKept /\ Answer(r)
    BY <1>1, <1>2, QuietKept, AnswerAlone, Busy
  <1>3. CASE DiskIs(d) /\ me' = [me EXCEPT ![r] = l]
    <2>1. Quiet(disk, d)
      BY QuietUpdates
    <2> HIDE DEF d
    <2>2. DiskInv' /\ Quiet(disk, disk') /\ profile' = profile
      BY <1>3, <2>1, QuietIs, Busy
    <2>3. /\ me[r].drop <=> ~profile
          /\ me[r].then = "done" => ~me[r].drop
          /\ OwnFinals(disk, me[r])
          /\ CleansUp(disk, me[r])
      BY <1>1, CleaningKnown
    <2>4. me[r].at \in Nat /\ \A j \in Artifacts : j \in Nat /\ j <= N
      BY MeFields, ArtifactsAssumption DEF Artifacts
    <2>5. /\ l.pc = pc /\ l.of = me[r].of /\ l.at = at
          /\ l.art = me[r].art /\ l.drop = me[r].drop /\ l.then = me[r].then
      BY MeFields DEF Locals
    <2> HIDE DEF l
    <2>6. /\ me[r].then \in Early => me[r].drop /\ \A j \in Artifacts : Gone(disk, j)
          /\ me[r].drop => \A j \in Artifacts : j <= me[r].at => Gone(disk, j)
      BY <1>1, <2>3 DEF CleansUp
    <2>7. CleansUp(disk, l)
      <3>1. CASE LastArtifact(r)
        BY <2>4, <2>5, <2>6, <3>1 DEF CleansUp, LastArtifact
      <3>2. CASE ~LastArtifact(r)
        <4>1. l.pc = "cleanFinal" /\ l.at = me[r].at + 1
          BY <2>5, <3>2
        <4>2. me[r].drop => \A j \in Artifacts : j < me[r].at + 1 => Gone(disk, j)
          BY <2>4, <2>6
        <4> QED
          BY <2>5, <2>6, <4>1, <4>2 DEF CleansUp
      <3> QED
        BY <3>1, <3>2
    <2>8. OwnFinals(disk, l) /\ l.pc \in Cleaning
      BY <2>3, <2>5 DEF OwnFinals, Cleaning
    <2>9. (l.drop <=> ~profile) /\ (l.then = "done" => ~l.drop)
      BY <2>3, <2>5
    <2>10. WorkOn(disk, profile, l)
      BY <2>7, <2>8, <2>9, AtCleaning
    <2> QED
      BY <1>1, <1>3, <2>2, <2>10, QuietWork, Alone
  <1>4. (DiskKept /\ Answer(r)) \/ (DiskIs(d) /\ me' = [me EXCEPT ![r] = l])
    BY DEF CleanStaged
  <1> QED
    BY <1>2, <1>3, <1>4

\* In the rest of the cleanup a request knows the same at every step.
LEMMA CleansOn ==
    ASSUME NEW d, NEW e, e.final = d.final, NEW p, NEW l, NEW m,
           l.pc \in {"rmLedger", "rmDir", "rmStaging", "rmClaim"},
           m.pc \in {"rmLedger", "rmDir", "rmStaging", "rmClaim"},
           m.of = l.of, m.art = l.art, m.drop = l.drop, m.then = l.then, WorkOn(d, p, l)
    PROVE  WorkOn(e, p, m)
  <1>1. l.pc \in Cleaning /\ m.pc \in Cleaning
    BY DEF Cleaning
  <1>2. (l.drop <=> ~p) /\ (l.then = "done" => ~l.drop) /\ OwnFinals(d, l) /\ CleansUp(d, l)
    BY <1>1, AtCleaning
  <1>3. OwnFinals(e, m) /\ CleansUp(e, m)
    BY <1>1, <1>2 DEF OwnFinals, CleansUp, Gone
  <1>4. (m.drop <=> ~p) /\ (m.then = "done" => ~m.drop)
    BY <1>2
  <1> QED
    BY <1>1, <1>3, <1>4, AtCleaning

LEMMA MarkersWork ==
    ASSUME OneWorker, TypeInv, WorkInv, NEW r \in Requests,
           RemoveLedger(r) \/ RemoveDir(r) \/ RemoveStaging(r) \/ CleanupEnds(r)
    PROVE  WorkInv'
  <1> DEFINE a == me[r].of
             Rest == {"rmLedger", "rmDir", "rmStaging", "rmClaim"}
  <1>1. /\ Turn(r) /\ me[r].pc \in Rest /\ me[r].pc \in Cleaning
        /\ me[r].pc \notin {"cleanFinal", "cleanStaged"}
    BY DEF RemoveLedger, RemoveDir, RemoveStaging, CleanupEnds, RemoveClaim, At, Cleaning
  <1>2. /\ me[r].drop <=> ~profile
        /\ OwnFinals(disk, me[r])
        /\ CleansUp(disk, me[r])
        /\ a \in Attempts
    BY <1>1, CleaningKnown
  <1>3. /\ me[r].drop => \A i \in Artifacts : Gone(disk, i)
        /\ me[r].then \in Early => me[r].drop
    BY <1>1, <1>2 DEF CleansUp
  <1>4. ASSUME NEW label \in Rest, Go(r, label), DiskInv', disk'.final = disk.final,
               profile' = profile
        PROVE  WorkInv'
    <2>1. /\ Moved(me[r], label).pc = label /\ Moved(me[r], label).of = me[r].of
          /\ Moved(me[r], label).art = me[r].art /\ Moved(me[r], label).drop = me[r].drop
          /\ Moved(me[r], label).then = me[r].then
      BY MeFields, MovedFields
    <2>2. WorkOn(disk', profile', Moved(me[r], label))
      BY <1>1, <1>4, <2>1, CleansOn, Busy
    <2> QED
      BY <1>1, <1>4, <2>2, GoAlone
  <1>5. ASSUME RemoveLedger(r) PROVE WorkInv'
    <2>1. Go(r, "rmDir") /\ DiskIs([disk EXCEPT !.ledger[a] = NoLedger])
      BY <1>5 DEF RemoveLedger
    <2>2. /\ disk'.dir = disk.dir /\ disk'.final = disk.final /\ disk'.staging = disk.staging
          /\ profile' = profile
      BY <2>1 DEF DiskIs, TypeInv, TypeOK, Disks
    <2>3. PublishedIsRecorded'
      BY <1>2, <1>3, <2>2 DEF PublishedIsRecorded, Gone
    <2>4. DiskInv'
      BY <2>2, <2>3, Busy DEF DiskInv, ProfileHasItsFiles, OneAttemptOnDisk
    <2> QED
      BY <1>4, <2>1, <2>2, <2>4
  <1>6. ASSUME RemoveDir(r) PROVE WorkInv'
    <2>1. CASE DiskIs([disk EXCEPT !.dir[a] = "none"]) /\ Go(r, "rmStaging")
      <3>1. /\ disk'.dir = [disk.dir EXCEPT ![a] = "none"] /\ DOMAIN disk.dir = Attempts
            /\ disk'.final = disk.final /\ disk'.staging = disk.staging
            /\ disk'.ledger = disk.ledger /\ profile' = profile
        BY <2>1 DEF DiskIs, TypeInv, TypeOK, Disks
      <3>2. \A b \in Attempts : disk'.dir[b] # "none" => disk.dir[b] # "none"
        BY <1>2, <3>1
      <3>3. DiskInv'
        BY <3>1, <3>2, Busy DEF DiskInv, ProfileHasItsFiles, OneAttemptOnDisk,
           PublishedIsRecorded, HasLedger
      <3> QED
        BY <1>4, <2>1, <3>1, <3>3
    <2>2. CASE DiskKept /\ StartCleanup(r)
      <3>1. DiskInv' /\ disk' = disk /\ profile' = profile
        BY <2>2, QuietKept, Busy
      <3> QED
        BY <1>1, <1>2, <2>2, <3>1, StartCleanupWork
    <2>3. CASE DiskKept /\ Answer(r)
      BY <1>1, <2>3, QuietKept, AnswerAlone, Busy
    <2> QED
      BY <1>6, <2>1, <2>2, <2>3 DEF RemoveDir
  <1>7. ASSUME RemoveStaging(r) PROVE WorkInv'
    <2> DEFINE someDir == \E b \in Attempts : disk.dir[b] # "none"
    <2>1. DiskIs([disk EXCEPT !.staging = someDir]) /\ (Answer(r) \/ Go(r, "rmClaim"))
      BY <1>7 DEF RemoveStaging
    <2>2. /\ disk'.dir = disk.dir /\ disk'.final = disk.final /\ disk'.ledger = disk.ledger
          /\ disk'.staging = someDir /\ profile' = profile
      BY <2>1 DEF DiskIs, TypeInv, TypeOK, Disks
    <2>3. DiskInv'
      BY <2>2, Busy DEF DiskInv, ProfileHasItsFiles, OneAttemptOnDisk, PublishedIsRecorded,
         HasLedger
    <2> QED
      BY <1>1, <1>4, <2>1, <2>2, <2>3, AnswerAlone
  <1>8. ASSUME CleanupEnds(r) PROVE WorkInv'
    <2>1. DiskInv' /\ Quiet(disk, disk') /\ profile' = profile
      BY <1>8, RemoveClaimQuiet, Busy DEF CleanupEnds
    <2>2. CASE Answer(r)
      BY <1>1, <2>1, <2>2, AnswerAlone
    <2>3. CASE me[r].then # "refused" /\ Go(r, me[r].then)
      <3>1. me[r].then \in Early
        BY <1>8, <2>3, Known DEF CleanupEnds, RemoveClaim, At, Finishing, Early
      <3>2. ~profile /\ \A i \in Artifacts : Gone(disk, i)
        BY <1>2, <1>3, <3>1
      <3>3. WorkOn(disk, profile, Moved(me[r], me[r].then))
        BY <3>1, <3>2, EarlyWork, MeFields, MovedFields
      <3> QED
        BY <1>1, <2>1, <2>3, <3>3, QuietWork, GoAlone
    <2> QED
      BY <1>8, <2>2, <2>3 DEF CleanupEnds
  <1> QED
    BY <1>5, <1>6, <1>7, <1>8

--------------------------------------------------------------------------------
(* Errors, crashes and other programs.                                     *)

\* A write that is cut short leaves no final file and no directory that was not there.
LEMMA CutShortDisk ==
    ASSUME TypeInv, WorkInv, NEW r \in Requests, CutShort(r), UNCHANGED profile
    PROVE  DiskInv' /\ disk'.final = disk.final
  <1> DEFINE a == me[r].of
  <1>1. CASE UNCHANGED disk \/ disk' = [disk EXCEPT !.foreign = TRUE]
    <2>1. Quiet(disk, disk')
      BY <1>1, QuietUpdates DEF Quiet
    <2> QED
      BY <2>1, QuietDisk, Busy DEF Quiet
  <1>2. CASE /\ me[r].pc \in {"ledger", "recordStaged", "announce", "recordPublished",
                              "recordProfile", "recordComplete"}
             /\ disk' = [disk EXCEPT !.dir[a] = "littered"]
    <2>1. me[r].pc \in {"ledger"} \cup Creating
      BY <1>2 DEF Creating
    <2>2. a \in Attempts /\ disk.dir[a] # "none"
      BY <2>1, CreatingKnown
    <2>3. /\ disk'.dir = [disk.dir EXCEPT ![a] = "littered"] /\ DOMAIN disk.dir = Attempts
          /\ disk'.final = disk.final /\ disk'.staging = disk.staging
          /\ disk'.ledger = disk.ledger
      BY <1>2 DEF TypeInv, TypeOK, Disks
    <2>4. \A b \in Attempts : disk'.dir[b] # "none" => disk.dir[b] # "none"
      BY <2>2, <2>3
    <2> QED
      BY <2>3, <2>4, Busy DEF DiskInv, ProfileHasItsFiles, OneAttemptOnDisk,
         PublishedIsRecorded, HasLedger
  <1> QED
    BY <1>1, <1>2 DEF CutShort

\* Wherever an error starts the cleanup, what it will drop fits the profile.
LEMMA DropsFit ==
    ASSUME TypeInv, WorkInv, NEW r \in Requests, me[r].pc \in Creating \cup Cleaning
    PROVE  OwnFinals(disk, me[r]) /\ (me[r].drop <=> ~profile)
  <1>1. CASE me[r].pc \in Staging \cup Publishing
    <2>1. ~profile /\ me[r].drop
      BY <1>1, StagingKnown, PublishingKnown
    <2>2. OwnFinals(disk, me[r])
      BY <1>1, CreatingKnown, CreatingLabels
    <2> QED
      BY <2>1, <2>2
  <1>2. CASE me[r].pc \in AfterProfile
    BY <1>2, AfterProfileKnown
  <1>3. CASE me[r].pc \in Cleaning
    BY <1>3, CleaningKnown
  <1> QED
    BY <1>1, <1>2, <1>3, CreatingLabels

LEMMA FailWork ==
    ASSUME OneWorker, TypeInv, WorkInv, NEW r \in Requests, Fail(r)
    PROVE  WorkInv'
  <1>1. Turn(r) /\ DiskInv' /\ disk'.final = disk.final /\ profile' = profile
    BY CutShortDisk DEF Fail
  <1>2. CASE me[r].pc \in Creating \cup Cleaning /\ StartCleanup(r)
    <2>1. OwnFinals(disk', me[r]) /\ (me[r].drop <=> ~profile')
      BY <1>1, <1>2, DropsFit DEF OwnFinals, Gone
    <2> QED
      BY <1>1, <1>2, <2>1, StartCleanupWork
  <1>3. CASE Go(r, "withdraw")
    BY <1>1, <1>3, GoAlone, NothingKnown, MeFields, MovedFields
  <1>4. CASE Answer(r)
    BY <1>1, <1>4, AnswerAlone
  <1> QED
    BY <1>2, <1>3, <1>4 DEF Fail

LEMMA CrashWork ==
    ASSUME OneWorker, TypeInv, WorkInv, NEW r \in Requests, Crash(r)
    PROVE  WorkInv'
  <1>1. DiskInv' /\ me' = [q \in Requests |-> Idle]
    BY CutShortDisk DEF Crash
  <1>2. \A q \in Requests : WorkOn(disk', profile', me'[q])
    BY <1>1, IdleWork
  <1>3. OneAtATime'
    BY <1>1 DEF OneAtATime, Idle, Awaiting
  <1> QED
    BY <1>1, <1>2, <1>3 DEF WorkInv

\* Somebody else's files are no attempt's, and take a name as well as any.
LEMMA OutsiderWork ==
    ASSUME TypeInv, WorkInv, OutsiderWrites
    PROVE  WorkInv'
  <1>1. UNCHANGED <<profile, me>> /\ OneAtATime'
    BY DEF OutsiderWrites, WorkInv, OneAtATime
  <1>2. CASE disk' = [disk EXCEPT !.foreign = TRUE]
    <2>1. Quiet(disk, disk')
      BY <1>2, QuietUpdates
    <2>2. \A r \in Requests : WorkOn(disk', profile', me'[r])
      BY <1>1, <2>1, QuietWork, Busy
    <2>3. DiskInv'
      BY <1>1, <2>1, QuietDisk DEF WorkInv
    <2> QED
      BY <1>1, <2>2, <2>3 DEF WorkInv
  <1>3. ASSUME NEW i \in Artifacts, disk' = [disk EXCEPT !.final[i] = Outsider]
        PROVE  WorkInv'
    <2>1. /\ disk'.dir = disk.dir /\ disk'.ledger = disk.ledger /\ disk'.staging = disk.staging
          /\ disk'.final = [disk.final EXCEPT ![i] = Outsider] /\ DOMAIN disk.final = Artifacts
      BY <1>3 DEF TypeInv, TypeOK, Disks
    <2>2. \A j \in Artifacts : disk'.final[j] = Outsider \/ disk'.final[j] = disk.final[j]
      BY <2>1
    <2>3. /\ \A j \in Artifacts : Gone(disk, j) => Gone(disk', j)
          /\ \A j \in Artifacts : There(disk, j) => There(disk', j)
          /\ \A j \in Artifacts : ~Gone(disk', j) => ~Gone(disk, j) /\ disk'.final[j] = disk.final[j]
          /\ \A j \in Artifacts, a \in Attempts : disk'.final[j] = a => disk.final[j] = a
      BY <2>2, OwnersAssumption DEF Gone, There
    <2>4. DiskInv'
      <3>1. ProfileHasItsFiles' /\ \A a \in Attempts : disk'.dir[a] # "none" => disk'.staging
        BY <1>1, <2>1, <2>3 DEF WorkInv, DiskInv, ProfileHasItsFiles, There
      <3>2. OneAttemptOnDisk'
        BY <2>1, <2>3 DEF WorkInv, DiskInv, OneAttemptOnDisk
      <3>3. PublishedIsRecorded'
        BY <1>1, <2>1, <2>3 DEF WorkInv, DiskInv, PublishedIsRecorded, HasLedger
      <3> QED
        BY <3>1, <3>2, <3>3 DEF DiskInv
    <2>5. ASSUME NEW r \in Requests PROVE WorkOn(disk', profile', me'[r])
      <3> DEFINE l == me[r]
      <3>1. WorkOn(disk, profile, l)
        BY Busy
      <3> HIDE DEF l
      <3>2. Fresh(disk', profile, l)
        BY <2>1, <2>3, <3>1 DEF WorkOn, Fresh
      <3>3. OwnOnly(disk', l)
        BY <2>1, <2>3, <3>1 DEF WorkOn, OwnOnly, OwnDir, OwnFinals
      <3>4. PublishesInOrder(disk', l)
        BY <2>1, <2>3, <3>1 DEF WorkOn, PublishesInOrder
      <3>5. CleansUp(disk', l)
        BY <2>3, <3>1 DEF WorkOn, CleansUp
      <3> QED
        BY <1>1, <3>1, <3>2, <3>3, <3>4, <3>5 DEF WorkOn, l
    <2> QED
      BY <1>1, <2>4, <2>5 DEF WorkInv
  <1> QED
    BY <1>2, <1>3 DEF OutsiderWrites

--------------------------------------------------------------------------------
(* The invariant and what it gives.                                        *)

LEMMA WorkInvariant == ASSUME OneWorker PROVE Spec => []WorkInv
  <1>1. Init => WorkInv
    <2> SUFFICES ASSUME Init PROVE WorkInv
      OBVIOUS
    <2>1. /\ ~profile
          /\ \A i \in Artifacts : disk.final[i] = Nobody
          /\ \A a \in Attempts : disk.dir[a] = "none"
          /\ \A r \in Requests : me[r] = Idle
      BY DEF Init
    <2>2. DiskInv
      BY <2>1, OwnersAssumption DEF DiskInv, ProfileHasItsFiles, OneAttemptOnDisk,
         PublishedIsRecorded
    <2>3. OneAtATime
      BY <2>1 DEF OneAtATime, Idle, Awaiting
    <2> QED
      BY <2>1, <2>2, <2>3, IdleWork DEF WorkInv
  <1>2. TypeInv /\ WorkInv /\ [Next]_vars => WorkInv'
    <2> SUFFICES ASSUME TypeInv, WorkInv, [Next]_vars PROVE WorkInv'
      OBVIOUS
    <2>1. CASE UNCHANGED vars
      BY <2>1 DEF vars, WorkInv, DiskInv, OneAtATime, ProfileHasItsFiles, OneAttemptOnDisk,
         PublishedIsRecorded, HasLedger
    <2>2. ASSUME NEW r \in Requests, RecoverStep(r) PROVE WorkInv'
      BY <2>2, RecoverWork
    <2>3. ASSUME NEW r \in Requests, ClaimStep(r) PROVE WorkInv'
      BY <2>3, ClaimWork, MakeDirWork, NotesWork
    <2>4. ASSUME NEW r \in Requests, PublishStep(r) PROVE WorkInv'
      BY <2>4, StageWork, NotesWork, AnnounceWork, LinkWork, UnlinkWork DEF PublishStep
    <2>5. ASSUME NEW r \in Requests, ProfileStep(r) PROVE WorkInv'
      BY <2>5, CreateProfileWork, NotesWork, RecordCompleteWork, CompleteWork DEF ProfileStep
    <2>6. ASSUME NEW r \in Requests, CleanupStep(r) PROVE WorkInv'
      BY <2>6, CleanFinalWork, CleanStagedWork, MarkersWork DEF CleanupStep
    <2>7. ASSUME NEW r \in Requests, Fail(r) \/ Crash(r) PROVE WorkInv'
      BY <2>7, FailWork, CrashWork
    <2>8. ASSUME NEW a \in Attempts, GetsOld(a) PROVE WorkInv'
      BY <2>8 DEF GetsOld, WorkInv, DiskInv, OneAtATime, ProfileHasItsFiles, OneAttemptOnDisk,
         PublishedIsRecorded, HasLedger
    <2> QED
      BY <2>1, <2>2, <2>3, <2>4, <2>5, <2>6, <2>7, <2>8, OutsiderWork DEF Next
  <1> QED
    BY <1>1, <1>2, TypeInvariant, PTL DEF Spec

\* In one worker a profile has its files from its creation on, whatever fails, dies and
\* is cleaned up after it (execute_create_server).
THEOREM FilesCorrect == ASSUME OneWorker PROVE Spec => []ProfileHasItsFiles
  <1>1. WorkInv => ProfileHasItsFiles
    BY DEF WorkInv, DiskInv
  <1> QED
    BY <1>1, WorkInvariant, PTL

\* In one worker no attempt begins beside the files of another (_claim_target).
THEOREM OneAttemptCorrect == ASSUME OneWorker PROVE Spec => []OneAttemptOnDisk
  <1>1. WorkInv => OneAttemptOnDisk
    BY DEF WorkInv, DiskInv
  <1> QED
    BY <1>1, WorkInvariant, PTL

\* In one worker the ledger accounts for every published file until the profile exists,
\* between any two steps (_publish_artifacts).
THEOREM RecordedCorrect == ASSUME OneWorker PROVE Spec => []PublishedIsRecorded
  <1>1. WorkInv => PublishedIsRecorded
    BY DEF WorkInv, DiskInv
  <1> QED
    BY <1>1, WorkInvariant, PTL

\* In one worker a cleanup removes no other attempt's files, as it may when several
\* workers share a directory (_cleanup_ledger).
THEOREM OwnArtifactsCorrect == ASSUME OneWorker PROVE Spec => OnlyOwnArtifactsRemoved
  <1> DEFINE Own(i, a) ==
        disk.final[i] = a /\ disk'.final[i] = Nobody
          => \E r \in Requests : me[r].pc = "cleanFinal" /\ me[r].of = a
  <1>1. ASSUME TypeInv, WorkInv, [Next]_vars, NEW i \in Artifacts, NEW a \in Attempts
        PROVE  Own(i, a)
    <2>1. DOMAIN disk.final = Artifacts /\ Nobody # Outsider /\ Nobody \notin Attempts
      BY <1>1, OwnersAssumption DEF TypeInv, TypeOK, Disks
    <2>2. CASE FinalKept
      BY <2>1, <2>2 DEF FinalKept
    <2>3. ASSUME NEW r \in Requests, Link(r), disk.final[me[r].at] = Nobody PROVE Own(i, a)
      <3>1. FinalKept \/ disk'.final = [disk.final EXCEPT ![me[r].at] = me[r].of]
        BY <1>1, <2>3 DEF Link, DiskIs, DiskKept, FinalKept, TypeInv, TypeOK, Disks
      <3> QED
        BY <2>1, <2>2, <2>3, <3>1
    <2>4. ASSUME NEW r \in Requests, CleanFinal(r) PROVE Own(i, a)
      <3>1. me[r].pc = "cleanFinal" /\ me[r].pc \in Cleaning
        BY <2>4 DEF CleanFinal, At, Cleaning
      <3>2. disk.final[i] = a => me[r].of = a
        BY <1>1, <3>1, CleaningKnown DEF OwnFinals, Gone
      <3> QED
        BY <3>1, <3>2
    <2>5. CASE OutsiderWrites
      <3>1. disk'.final[i] \in {disk.final[i], Outsider}
        BY <1>1, <2>1, <2>5 DEF OutsiderWrites, TypeInv, TypeOK, Disks
      <3> QED
        BY <2>1, <3>1
    <2> QED
      BY <1>1, <2>2, <2>3, <2>4, <2>5, FinalSteps
  <1>2. TypeInv /\ WorkInv /\ [Next]_vars
          => [\A i \in Artifacts, a \in Attempts : Own(i, a)]_vars
    BY <1>1
  <1> QED
    BY <1>2, TypeInvariant, WorkInvariant, PTL DEF Spec, OnlyOwnArtifactsRemoved
================================================================================
