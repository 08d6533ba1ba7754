----------------------------- MODULE SetupExecutor -----------------------------
(***************************************************************************)
(* The guarded creation of a Minecraft server directory                    *)
(* (services/minecraft_setup_executor.py): a request takes a claim file,   *)
(* keeps a ledger of what it does, stages every artifact, links it to its  *)
(* final name, creates the profile and removes its markers; a later        *)
(* request cleans up after one that died.  One target directory, which     *)
(* exists, and one payload, so that every attempt writes the same bytes.   *)
(*                                                                         *)
(* A step is at most one change of the directory, so that a crash or an    *)
(* error may fall between any two.  In one worker the code between two     *)
(* awaits runs alone (Turn); with OneWorker = FALSE every request is a     *)
(* worker of its own and only the files are between them.                  *)
(***************************************************************************)
EXTENDS Naturals

CONSTANTS
    Requests,       \* calls of execute_create_server
    Attempts,       \* attempt ids; one without a trace is as good as a new one
    N,              \* number of artifacts, in the order they are published
    Validated,      \* the artifacts inspect_server_directory asks for
    OneWorker,      \* do the requests share an event loop?
    Nobody,         \* owner of a final name that is free
    Outsider        \* owner of a file that is not an attempt's

Artifacts == 1..N

ASSUME ArtifactsAssumption == N \in Nat \ {0} /\ Validated \subseteq Artifacts
ASSUME WorkerAssumption == OneWorker \in BOOLEAN
ASSUME OwnersAssumption == Nobody # Outsider /\ {Nobody, Outsider} \cap Attempts = {}

VARIABLES
    disk,           \* the target directory
    profile,        \* is the profile in the settings?
    old,            \* attempts whose markers are older than CLAIM_STALE_SECONDS
    me              \* what each request holds in memory

vars == <<disk, profile, old, me>>

NoClaim == [by |-> Nobody, at |-> "none"]
Claims == [by : Attempts, at : {"torn", "new", "claimed", "staged", "published", "profile_created"}]
ArtStates == {"planned", "staged", "publishing", "published"}
LedgerStates == {"none", "claimed", "staged", "publishing", "published", "profile_created", "complete"}
Planned == [i \in Artifacts |-> "planned"]
NoLedger == [state |-> "none", art |-> Planned]
Ledgers == [state : LedgerStates, art : [Artifacts -> ArtStates]]

Recovering == {"unclaim", "scan", "lookup"}
Claiming == {"check", "create", "write", "recheck"}
Preparing == {"mkdir", "ledger"}
Creating == {"noteClaimed", "stage", "recordStaged", "noteStaged", "announce", "link",
             "recordPublished", "unlink", "notePublished", "profile", "recordProfile",
             "noteProfile", "recordComplete", "complete"}
Cleaning == {"cleanFinal", "cleanStaged", "rmLedger", "rmDir", "rmStaging", "rmClaim"}
Awaiting == {"idle", "verify", "fetch"}
PCs == Awaiting \cup Recovering \cup Claiming \cup {"withdraw"} \cup Preparing \cup Creating \cup Cleaning

Idle == [pc |-> "idle", of |-> Nobody, state |-> "none", art |-> Planned,
         at |-> 1, drop |-> TRUE, then |-> "refused"]

Disks == [claim : Claims \cup {NoClaim},
          ledger : [Attempts -> Ledgers],
          dir : [Attempts -> {"none", "clean", "littered"}],
          staging : BOOLEAN,
          staged : [Attempts -> [Artifacts -> {"none", "partial", "full"}]],
          final : [Artifacts -> Attempts \cup {Nobody, Outsider}],
          foreign : BOOLEAN]
Locals == [pc : PCs, of : Attempts \cup {Nobody}, state : LedgerStates,
           art : [Artifacts -> ArtStates], at : Artifacts, drop : BOOLEAN,
           then : {"unclaim", "scan", "refused", "done"}]

TypeOK ==
    /\ disk \in Disks
    /\ profile \in BOOLEAN
    /\ old \subseteq Attempts
    /\ me \in [Requests -> Locals]

Init ==
    /\ disk = [claim |-> NoClaim,
               ledger |-> [a \in Attempts |-> NoLedger],
               dir |-> [a \in Attempts |-> "none"],
               staging |-> FALSE,
               staged |-> [a \in Attempts |-> [i \in Artifacts |-> "none"]],
               final |-> [i \in Artifacts |-> Nobody],
               foreign |-> FALSE]
    /\ profile = FALSE
    /\ old = {}
    /\ me = [r \in Requests |-> Idle]

--------------------------------------------------------------------------------
(* What a request sees of the directory.                                   *)

OnlyMarkers == ~disk.foreign /\ \A i \in Artifacts : disk.final[i] = Nobody
\* Mutant of Claimable: the staging directory is allowed too.
ClaimableWithStaging == OnlyMarkers

\* _assert_target_claimable with the claim allowed, and without.
Claimable == OnlyMarkers /\ ~disk.staging
EmptyTarget == Claimable /\ disk.claim = NoClaim
HasLedger(a) == disk.ledger[a].state # "none"
Used == {a \in Attempts : HasLedger(a) \/ disk.dir[a] # "none" \/ disk.claim.by = a
                             \/ \E i \in Artifacts : disk.final[i] = a
                             \/ \E r \in Requests : me[r].of = a}

\* A synchronous section holds the event loop.
Turn(r) == OneWorker => \A q \in Requests \ {r} : me[q].pc \in Awaiting

At(r, label) == me[r].pc = label /\ Turn(r)
Go(r, label) == me' = [me EXCEPT ![r].pc = label]
Answer(r) == me' = [me EXCEPT ![r] = Idle]
StartCleanup(r) == me' = [me EXCEPT ![r].pc = "cleanFinal", ![r].at = 1, ![r].then = "refused"]

DiskKept == UNCHANGED <<disk, profile, old>>
DiskIs(d) == disk' = d /\ UNCHANGED <<profile, old>>

\* _write_ledger of what the request has in memory.
LedgerOf(r) == [state |-> me[r].state, art |-> me[r].art]
WithLedger(r, l) == [disk EXCEPT !.ledger[me[r].of] = l, !.staging = TRUE,
                                 !.dir[me[r].of] = IF @ = "none" THEN "clean" ELSE @]

\* _write_claim replaces whatever claim is there.
WriteClaim(r, label, at, next) ==
    /\ At(r, label)
    /\ DiskIs([disk EXCEPT !.claim = [by |-> me[r].of, at |-> at]])
    /\ me' = [me EXCEPT ![r].pc = next, ![r].at = 1]

WriteLedger(r, label, next) ==
    /\ At(r, label)
    /\ DiskIs(WithLedger(r, LedgerOf(r)))
    /\ Go(r, next)

--------------------------------------------------------------------------------
(* _recover_target_setup_markers and _existing_profile_result.             *)

\* _recover_ledger, up to the cleanup it calls.
RecoverLedger(r, a, then) ==
    IF disk.ledger[a].state = "profile_created"
    THEN Answer(r)
    ELSE me' = [me EXCEPT ![r] = [pc |-> "cleanFinal", of |-> a,
                                  state |-> disk.ledger[a].state, art |-> disk.ledger[a].art,
                                  at |-> 1, drop |-> TRUE, then |-> then]]

\* The request begins; a final name or an unknown entry ends the recovery at once.
Recover(r) ==
    /\ At(r, "idle")
    /\ DiskKept
    /\ \/ (EmptyTarget \/ ~OnlyMarkers) /\ Go(r, "lookup")
       \/ OnlyMarkers /\ disk.claim = NoClaim /\ disk.staging /\ Go(r, "scan")
       \/ /\ OnlyMarkers
          /\ disk.claim.by \in old
          /\ disk.claim.at # "torn"
          /\ IF disk.claim.at # "new" /\ HasLedger(disk.claim.by)
             THEN RecoverLedger(r, disk.claim.by, "unclaim")
             ELSE Go(r, "unclaim")

\* _remove_claim_only: whatever claim is there now; one that cannot be read is an error (Fail).
RemoveClaim(r, label) ==
    /\ At(r, label)
    /\ disk.claim.at # "torn"
    /\ DiskIs([disk EXCEPT !.claim = NoClaim])

Unclaim(r) == RemoveClaim(r, "unclaim") /\ Go(r, "scan")

\* Every attempt directory must have an old ledger.
Scan(r) ==
    /\ At(r, "scan")
    /\ \/ /\ \A a \in Attempts : disk.dir[a] = "none"
          /\ DiskIs([disk EXCEPT !.staging = FALSE])
          /\ Go(r, "lookup")
       \/ \E a \in Attempts :
             /\ disk.dir[a] # "none"
             /\ DiskKept
             /\ IF HasLedger(a) /\ a \in old THEN RecoverLedger(r, a, "scan") ELSE Answer(r)

\* _guard_existing_profile_markers lets the existing profile be used.
GuardPasses ==
    /\ disk.claim # NoClaim => /\ disk.claim.by \in old
                               /\ disk.claim.at \in {"new", "claimed", "staged"}
                               /\ ~disk.staging
    /\ \A a \in Attempts : disk.dir[a] = "none"

\* The profile exists, or the preflight finds the directory empty.
Lookup(r) ==
    /\ At(r, "lookup")
    /\ \/ /\ profile /\ GuardPasses
          /\ DiskIs([disk EXCEPT !.claim = NoClaim])
          /\ Go(r, "verify")
       \/ /\ profile /\ ~GuardPasses
          /\ DiskKept /\ Answer(r)
       \/ /\ ~profile
          /\ DiskKept
          /\ IF EmptyTarget THEN Go(r, "fetch") ELSE Answer(r)

\* _verify_existing_setup_artifacts only reads: either answer ends the request.
Verify(r) == At(r, "verify") /\ DiskKept /\ Answer(r)

\* The Paper target is resolved and its jar downloaded, or not.
Fetch(r) == At(r, "fetch") /\ DiskKept /\ (Go(r, "check") \/ Answer(r))

--------------------------------------------------------------------------------
(* _claim_target and _create_attempt_ledger.                               *)

CheckEmpty(r) ==
    /\ At(r, "check")
    /\ DiskKept
    /\ IF EmptyTarget THEN Go(r, "create") ELSE Answer(r)

\* _create_claim_file: O_EXCL, then the content.
CreateClaim(r) ==
    /\ At(r, "create")
    /\ IF disk.claim = NoClaim
       THEN \E a \in Attempts \ Used :
               /\ disk' = [disk EXCEPT !.claim = [by |-> a, at |-> "torn"]]
               /\ old' = old \ {a}
               /\ UNCHANGED profile
               /\ me' = [me EXCEPT ![r] = [Idle EXCEPT !.pc = "write", !.of = a, !.state = "claimed"]]
       ELSE DiskKept /\ Answer(r)

FillClaim(r) == WriteClaim(r, "write", "new", "recheck")

Recheck(r) ==
    /\ At(r, "recheck")
    /\ DiskKept
    /\ Go(r, IF Claimable THEN "mkdir" ELSE "withdraw")

Withdraw(r) == RemoveClaim(r, "withdraw") /\ Answer(r)

MakeDir(r) ==
    /\ At(r, "mkdir")
    /\ DiskIs([disk EXCEPT !.dir[me[r].of] = "clean", !.staging = TRUE])
    /\ Go(r, "ledger")

FirstLedger(r) == WriteLedger(r, "ledger", "noteClaimed")
NoteClaimed(r) == WriteClaim(r, "noteClaimed", "claimed", "stage")

--------------------------------------------------------------------------------
(* _stage_artifacts and _publish_artifacts.                                *)

\* Mutant of LastArtifact: the loop goes one too far.
LastPast(r) == me[r].at > N

LastArtifact(r) == me[r].at = N

\* The file is created, then written.
Stage(r) ==
    LET a == me[r].of  i == me[r].at IN
    /\ At(r, "stage")
    /\ \/ /\ disk.staged[a][i] = "none"
          /\ DiskIs([disk EXCEPT !.staged[a][i] = "partial"])
          /\ UNCHANGED me
       \/ /\ disk.staged[a][i] = "partial"
          /\ DiskIs([disk EXCEPT !.staged[a][i] = "full"])
          /\ me' = [me EXCEPT ![r].art[i] = "staged",
                              ![r].at = IF LastArtifact(r) THEN 1 ELSE i + 1,
                              ![r].state = IF LastArtifact(r) THEN "staged" ELSE @,
                              ![r].pc = IF LastArtifact(r) THEN "recordStaged" ELSE @]

RecordStaged(r) == WriteLedger(r, "recordStaged", "noteStaged")
NoteStaged(r) == WriteClaim(r, "noteStaged", "staged", "announce")

\* Mutant of Announce: the ledger is written only after the link.
AnnounceInMemory(r) ==
    /\ At(r, "announce")
    /\ DiskKept
    /\ me' = [me EXCEPT ![r].pc = "link", ![r].state = "publishing",
                        ![r].art[me[r].at] = "publishing"]

\* The ledger says "publishing" before the final name exists.
Announce(r) ==
    LET art == [me[r].art EXCEPT ![me[r].at] = "publishing"] IN
    /\ At(r, "announce")
    /\ DiskIs(WithLedger(r, [state |-> "publishing", art |-> art]))
    /\ me' = [me EXCEPT ![r].pc = "link", ![r].state = "publishing", ![r].art = art]

\* Mutant of Link: a rename in its place, which replaces what has the name.
LinkReplacing(r) ==
    /\ At(r, "link")
    /\ DiskIs([disk EXCEPT !.final[me[r].at] = me[r].of])
    /\ me' = [me EXCEPT ![r].pc = "recordPublished", ![r].state = "published",
                        ![r].art[me[r].at] = "published"]

Link(r) ==
    LET i == me[r].at IN
    /\ At(r, "link")
    /\ IF disk.final[i] = Nobody
       THEN /\ DiskIs([disk EXCEPT !.final[i] = me[r].of])
            /\ me' = [me EXCEPT ![r].pc = "recordPublished", ![r].state = "published",
                                ![r].art[i] = "published"]
       ELSE DiskKept /\ StartCleanup(r)

RecordPublished(r) == WriteLedger(r, "recordPublished", "unlink")

Unlink(r) ==
    /\ At(r, "unlink")
    /\ DiskIs([disk EXCEPT !.staged[me[r].of][me[r].at] = "none"])
    /\ me' = [me EXCEPT ![r].pc = IF LastArtifact(r) THEN "notePublished" ELSE "announce",
                        ![r].at = IF LastArtifact(r) THEN 1 ELSE @ + 1]

NotePublished(r) == WriteClaim(r, "notePublished", "published", "profile")

--------------------------------------------------------------------------------
(* _create_profile_metadata and _complete_attempt.                         *)

\* Mutant of CreateProfile: profile_created is not noted.
CreateProfileUnnoted(r) ==
    /\ At(r, "profile")
    /\ profile' = TRUE
    /\ me' = [me EXCEPT ![r].pc = "recordProfile", ![r].state = "profile_created"]
    /\ UNCHANGED <<disk, old>>

CreateProfile(r) ==
    /\ At(r, "profile")
    /\ UNCHANGED <<disk, old>>
    /\ IF profile \/ \A i \in Validated : disk.final[i] # Nobody
       THEN /\ profile' = TRUE
            /\ me' = [me EXCEPT ![r].pc = "recordProfile", ![r].state = "profile_created",
                                ![r].drop = FALSE]
       ELSE StartCleanup(r) /\ UNCHANGED profile

RecordProfile(r) == WriteLedger(r, "recordProfile", "noteProfile")
NoteProfile(r) == WriteClaim(r, "noteProfile", "profile_created", "recordComplete")

RecordComplete(r) ==
    /\ At(r, "recordComplete")
    /\ DiskIs(WithLedger(r, [state |-> "complete", art |-> me[r].art]))
    /\ me' = [me EXCEPT ![r].pc = "complete", ![r].state = "complete"]

Complete(r) ==
    /\ RemoveClaim(r, "complete")
    /\ me' = [me EXCEPT ![r].pc = "rmLedger", ![r].then = "done"]

--------------------------------------------------------------------------------
(* _cleanup_ledger, for a dead attempt or for the request's own.           *)

\* A published final goes if it has the attempt's content, which is every attempt's.
CleanFinal(r) ==
    LET i == me[r].at
        removing == me[r].drop /\ me[r].art[i] = "published" /\ disk.final[i] # Nobody IN
    /\ At(r, "cleanFinal")
    /\ \/ ~removing /\ DiskKept /\ Go(r, "cleanStaged")
       \/ removing /\ disk.final[i] = Outsider /\ DiskKept /\ Answer(r)
       \/ /\ removing /\ disk.final[i] # Outsider
          /\ DiskIs([disk EXCEPT !.final[i] = Nobody])
          /\ Go(r, "cleanStaged")

\* A half-written staged file has not the attempt's content.
CleanStaged(r) ==
    LET a == me[r].of  i == me[r].at IN
    /\ At(r, "cleanStaged")
    /\ IF disk.staged[a][i] = "partial"
       THEN DiskKept /\ Answer(r)
       ELSE /\ DiskIs([disk EXCEPT !.staged[a][i] = "none"])
            /\ me' = [me EXCEPT ![r].pc = IF LastArtifact(r) THEN "rmLedger" ELSE "cleanFinal",
                                ![r].at = IF LastArtifact(r) THEN 1 ELSE @ + 1]

RemoveLedger(r) ==
    /\ At(r, "rmLedger")
    /\ DiskIs([disk EXCEPT !.ledger[me[r].of] = NoLedger])
    /\ Go(r, "rmDir")

\* rmdir fails on a directory that is not empty.
RemoveDir(r) ==
    LET a == me[r].of IN
    /\ At(r, "rmDir")
    /\ IF disk.dir[a] # "littered" /\ \A i \in Artifacts : disk.staged[a][i] = "none"
       THEN DiskIs([disk EXCEPT !.dir[a] = "none"]) /\ Go(r, "rmStaging")
       ELSE /\ DiskKept
            /\ IF me[r].then = "done" THEN StartCleanup(r) ELSE Answer(r)

RemoveStaging(r) ==
    /\ At(r, "rmStaging")
    /\ DiskIs([disk EXCEPT !.staging = \E a \in Attempts : disk.dir[a] # "none"])
    /\ IF me[r].then = "done" THEN Answer(r) ELSE Go(r, "rmClaim")

CleanupEnds(r) ==
    /\ RemoveClaim(r, "rmClaim")
    /\ IF me[r].then = "refused" THEN Answer(r) ELSE Go(r, me[r].then)

--------------------------------------------------------------------------------
(* Errors, crashes, time and other programs.                               *)

\* _write_json_atomic leaves its temporary file when it is cut short.
CutShort(r) ==
    \/ UNCHANGED disk
    \/ /\ me[r].pc \in {"noteClaimed", "noteStaged", "notePublished", "noteProfile"}
       /\ disk' = [disk EXCEPT !.foreign = TRUE]
    \/ /\ me[r].pc \in {"ledger", "recordStaged", "announce", "recordPublished",
                        "recordProfile", "recordComplete"}
       /\ disk' = [disk EXCEPT !.dir[me[r].of] = "littered"]

\* A system call of the request raises: execute_create_server's except clauses.
Fail(r) ==
    /\ me[r].pc \notin Awaiting /\ Turn(r)
    /\ CutShort(r)
    /\ UNCHANGED <<profile, old>>
    /\ IF me[r].pc \in Creating \/ (me[r].pc \in Cleaning /\ me[r].then = "done")
       THEN StartCleanup(r)
       ELSE IF me[r].pc \in Preparing THEN Go(r, "withdraw") ELSE Answer(r)

\* A worker dies in the middle of a request, with all its requests.
Crash(r) ==
    /\ me[r].pc # "idle" /\ Turn(r)
    /\ CutShort(r)
    /\ UNCHANGED <<profile, old>>
    /\ me' = IF OneWorker THEN [q \in Requests |-> Idle] ELSE [me EXCEPT ![r] = Idle]

\* An hour passes, longer than any synchronous section lasts.
GetsOld(a) ==
    /\ a \in Used \ old
    /\ \A r \in Requests : me[r].pc \in Awaiting
    /\ old' = old \cup {a}
    /\ UNCHANGED <<disk, profile, me>>

\* Somebody else writes a file into the directory; nobody else removes one.
OutsiderWrites ==
    /\ \/ ~disk.foreign /\ disk' = [disk EXCEPT !.foreign = TRUE]
       \/ \E i \in Artifacts : /\ disk.final[i] # Outsider
                               /\ disk' = [disk EXCEPT !.final[i] = Outsider]
    /\ UNCHANGED <<profile, old, me>>

RecoverStep(r) == Recover(r) \/ Unclaim(r) \/ Scan(r) \/ Lookup(r) \/ Verify(r)
ClaimStep(r) ==
    \/ Fetch(r) \/ CheckEmpty(r) \/ CreateClaim(r) \/ FillClaim(r) \/ Recheck(r) \/ Withdraw(r)
    \/ MakeDir(r) \/ FirstLedger(r) \/ NoteClaimed(r)
PublishStep(r) ==
    \/ Stage(r) \/ RecordStaged(r) \/ NoteStaged(r)
    \/ Announce(r) \/ Link(r) \/ RecordPublished(r) \/ Unlink(r) \/ NotePublished(r)
ProfileStep(r) ==
    CreateProfile(r) \/ RecordProfile(r) \/ NoteProfile(r) \/ RecordComplete(r) \/ Complete(r)
CleanupStep(r) ==
    \/ CleanFinal(r) \/ CleanStaged(r) \/ RemoveLedger(r)
    \/ RemoveDir(r) \/ RemoveStaging(r) \/ CleanupEnds(r)

Next ==
    \/ \E r \in Requests : RecoverStep(r)
    \/ \E r \in Requests : ClaimStep(r)
    \/ \E r \in Requests : PublishStep(r)
    \/ \E r \in Requests : ProfileStep(r)
    \/ \E r \in Requests : CleanupStep(r)
    \/ \E r \in Requests : Fail(r)
    \/ \E r \in Requests : Crash(r)
    \/ \E a \in Attempts : GetsOld(a)
    \/ OutsiderWrites

Spec == Init /\ [][Next]_vars

--------------------------------------------------------------------------------
(* Properties.                                                             *)

\* A file that an attempt did not write is never removed or replaced, whatever an
\* attempt has announced, published or recorded under that name (_publish_artifacts,
\* _cleanup_ledger).
ForeignFilesKept ==
    [][\A i \in Artifacts : disk.final[i] = Outsider => disk'.final[i] = Outsider]_vars

\* A published file is removed only by a cleanup that works on the ledger of the attempt
\* that published it (_cleanup_ledger, _recover_target_setup_markers).
OnlyOwnArtifactsRemoved ==
    [][\A i \in Artifacts, a \in Attempts :
          disk.final[i] = a /\ disk'.final[i] = Nobody
             => \E r \in Requests : me[r].pc = "cleanFinal" /\ me[r].of = a]_vars

\* Once the settings hold the profile, every file of the server is there and stays,
\* whatever fails afterwards (execute_create_server's delete_publishing_finals).
ProfileHasItsFiles == profile => \A i \in Artifacts : disk.final[i] # Nobody

\* One attempt at most has files, staged or final, in the directory: an attempt begins
\* only where no other left anything (_claim_target, _recover_target_setup_markers).
OneAttemptOnDisk ==
    \A a, b \in Attempts :
        /\ disk.dir[a] # "none" \/ \E i \in Artifacts : disk.final[i] = a
        /\ disk.dir[b] # "none" \/ \E i \in Artifacts : disk.final[i] = b
        => a = b

\* Until the profile exists, a published file is in the ledger of its attempt, so that a
\* crash leaves no file that nobody can account for (_publish_artifacts, _cleanup_ledger).
PublishedIsRecorded ==
    \A i \in Artifacts, a \in Attempts :
        disk.final[i] = a /\ ~profile
            => HasLedger(a) /\ disk.ledger[a].art[i] \in {"publishing", "published"}
================================================================================
