------------------------------ MODULE StaffAccess ------------------------------
(***************************************************************************)
(* What a staff account may do (services/permissions.py), and how the      *)
(* owner makes it a manager and a staff member again                       *)
(* (services/minecraft_admin_tiers.py, routers/admin_rbac.py).             *)
(*                                                                         *)
(* Three JSON files hold the state: rbac_settings.json (a role, grants and *)
(* revokes per account), staff_settings.json (hidden features, which the   *)
(* first start migrates to revokes) and minecraft_admin_tiers.json (who is *)
(* a manager, and the rights to give back on demotion).  Each is           *)
(* overwritten in place: a save may be refused, or leave a torn file,      *)
(* which the next load reads as empty.  Nobody looks at the result, and a  *)
(* demotion is a series of such saves.                                     *)
(***************************************************************************)
EXTENDS Sequences, SequencesExt

CONSTANTS
    Helpers,       \* accounts of STAFF_EMAILS
    Permissions,   \* ALL_PERMISSIONS
    Capabilities,  \* MANAGER_ADMIN_CAPABILITY_PERMISSIONS
    Presets,       \* ROLE_PRESETS: the permissions of each role
    HiddenRevokes, \* what _V1_FEATURE_TO_REVOKES makes of hidden features
    Nobody         \* no role, no account, rights not known

ASSUME AccessAssumption ==
    /\ IsFiniteSet(Permissions)
    /\ \A r \in DOMAIN Presets : Presets[r] \subseteq Permissions
    /\ Capabilities \cup HiddenRevokes \subseteq Permissions
    /\ Nobody \notin Helpers \cup DOMAIN Presets

VARIABLES
    access,        \* the accounts' rights, the migration flag, whose features are hidden
    tiers,         \* the manager entries: active, and the staff snapshot
    edits,         \* requests whose target was checked and whose body is awaited
    before,        \* history: an account's rights when its snapshot should have been taken
    demoted        \* history: whom the last step demoted with every save written

accessVars == <<access, tiers, edits, before, demoted>>

Blank == [role |-> Nobody, grants |-> {}, revokes |-> {}]

\* get_user_rbac.
EntryOf(m) == IF m \in DOMAIN access.users THEN access.users[m] ELSE Blank

\* get_effective_permissions: (role | grants) - revokes.
Effective(e) ==
    (e.grants \cup (IF e.role = Nobody THEN {} ELSE Presets[e.role])) \ e.revokes

SetRole(e, role) == [e EXCEPT !.role = role]
Granted(e, p)    == [e EXCEPT !.grants = @ \cup {p}, !.revokes = @ \ {p}]
Revoked(e, p)    == [e EXCEPT !.grants = @ \ {p}, !.revokes = @ \cup {p}]

\* A change of one account's settings, as the services' calls make it.
Change(kind, what) == [kind |-> kind, what |-> what]

Reset(f, m) == [f EXCEPT !.users = [n \in DOMAIN @ \ {m} |-> @[n]]]

Changed(f, m, c) ==
    LET e == IF m \in DOMAIN f.users THEN f.users[m] ELSE Blank
        new == CASE c.kind = "role" -> SetRole(e, c.what)
                 [] c.kind = "grant" -> Granted(e, c.what)
                 [] OTHER -> Revoked(e, c.what)
    IN CASE c.kind = "reset" -> Reset(f, m)
         [] c.kind = "hide" -> [f EXCEPT !.hidden = IF c.what THEN @ \cup {m} ELSE @ \ {m}]
         [] OTHER -> [f EXCEPT !.users = [n \in DOMAIN @ \cup {m} |-> IF n = m THEN new ELSE @[n]]]

\* What the next load finds after a save that failed half-way.
Torn(f, c) ==
    IF c.kind = "hide" THEN [f EXCEPT !.hidden = {}]
    ELSE [f EXCEPT !.users = <<>>, !.migrated = FALSE]

\* One change, saved or not; a reset of an account without settings saves nothing.
Saves(f, m, c) ==
    IF c.kind = "reset" /\ m \notin DOMAIN f.users THEN {f}
    ELSE {f, Changed(f, m, c), Torn(f, c)}

\* migrate_from_v1, at every start until the flag is found set.
Migrated(f) ==
    IF f.migrated THEN f
    ELSE LET new == f.hidden \ DOMAIN f.users
         IN [f EXCEPT !.migrated = TRUE,
                      !.users = [m \in DOMAIN @ \cup new |->
                          IF m \in new THEN [Blank EXCEPT !.revokes = HiddenRevokes] ELSE @[m]]]

--------------------------------------------------------------------------------
(* Managers.                                                               *)

IsManager(m) == m \in DOMAIN tiers /\ tiers[m].active

Snapshot(m) == [entry |-> EntryOf(m), hidden |-> m \in access.hidden]

\* Mutant: every promotion takes a new snapshot.
SnapshotRetaken(m) == Snapshot(m)

\* The snapshot of an earlier promotion is kept, whatever has happened since.
SnapshotFor(m) == IF m \in DOMAIN tiers THEN tiers[m].snapshot ELSE Snapshot(m)

WithEntry(m, active, snapshot) ==
    [n \in DOMAIN tiers \cup {m} |->
        IF n = m THEN [active |-> active, snapshot |-> snapshot] ELSE tiers[n]]

\* _apply_staff_snapshot: forget everything, then replay the snapshot.
Replay(s) ==
    <<Change("reset", Nobody)>>
    \o (IF s.entry.role = Nobody THEN <<>> ELSE <<Change("role", s.entry.role)>>)
    \o [i \in DOMAIN SetToSeq(s.entry.grants) |-> Change("grant", SetToSeq(s.entry.grants)[i])]
    \o [i \in DOMAIN SetToSeq(s.entry.revokes) |-> Change("revoke", SetToSeq(s.entry.revokes)[i])]
    \o <<Change("hide", s.hidden)>>

Replayed(f, m, changes) == FoldLeft(LAMBDA g, c : Changed(g, m, c), f, changes)

\* The files after a replay in which one save failed.
Spoiled(m, changes) ==
    UNION {{Replayed(g, m, SubSeq(changes, i + 1, Len(changes))) :
                g \in Saves(Replayed(access, m, SubSeq(changes, 1, i - 1)), m, changes[i])} :
           i \in DOMAIN changes}

\* The files a replay leaves that the process did not survive.
CutShort(m, changes) ==
    UNION {Saves(Replayed(access, m, SubSeq(changes, 1, i - 1)), m, changes[i]) :
           i \in DOMAIN changes}

\* minecraft_admin_tiers.json written, refused, or torn and then read as empty.
TiersSaved(new) == tiers' = new
TiersLost == tiers' = <<>> /\ before' = [m \in Helpers |-> Nobody]

\* A staff account, or again a manager, is promoted by the owner.
Promote(m) ==
    /\ demoted' = Nobody
    /\ \/ /\ TiersSaved(WithEntry(m, TRUE, SnapshotFor(m)))
          /\ before' = [before EXCEPT ![m] =
                 IF m \notin DOMAIN tiers THEN Effective(EntryOf(m))
                 ELSE IF IsManager(m) THEN @ ELSE Nobody]
       \/ TiersLost
    /\ UNCHANGED <<access, edits>>

\* Any account with an entry can be demoted, an already demoted one too.
Demote(m) ==
    LET changes == Replay(tiers[m].snapshot)
        staff == WithEntry(m, FALSE, tiers[m].snapshot)
    IN /\ m \in DOMAIN tiers
       /\ \/ /\ access' = Replayed(access, m, changes)
             /\ TiersSaved(staff)
             /\ demoted' = m
             /\ UNCHANGED <<edits, before>>
          \/ /\ access' \in Spoiled(m, changes)
             /\ demoted' = Nobody
             /\ \/ TiersSaved(staff) /\ UNCHANGED before
                \/ TiersSaved(tiers) /\ UNCHANGED before
                \/ TiersLost
             /\ UNCHANGED edits
          \/ /\ \E f \in CutShort(m, changes) : access' = Migrated(f)
             /\ demoted' = Nobody
             /\ edits' = {}
             /\ UNCHANGED <<tiers, before>>

--------------------------------------------------------------------------------
(* Edits.  The target's tier is checked, then the body is awaited, then    *)
(* the change is made without another look.                                *)

\* A manager or the owner begins to change a staff account's role, grants or revokes.
EditStaff(m) ==
    /\ ~IsManager(m)
    /\ edits' = edits \cup {<<m, "staff">>}
    /\ demoted' = Nobody
    /\ UNCHANGED <<access, tiers, before>>

\* The owner begins to change a manager's capabilities.
EditManager(m) ==
    /\ IsManager(m)
    /\ edits' = edits \cup {<<m, "manager">>}
    /\ demoted' = Nobody
    /\ UNCHANGED <<access, tiers, before>>

Changes(kind) ==
    IF kind = "manager" THEN {Change(k, p) : k \in {"grant", "revoke"}, p \in Capabilities}
    ELSE {Change("role", r) : r \in DOMAIN Presets \cup {Nobody}}
         \cup {Change(k, p) : k \in {"grant", "revoke"}, p \in Permissions}

EditArrives(m, kind) ==
    /\ <<m, kind>> \in edits
    /\ edits' = edits \ {<<m, kind>>}
    /\ access' \in UNION {Saves(access, m, c) : c \in Changes(kind)}
    /\ demoted' = Nobody
    /\ UNCHANGED <<tiers, before>>

\* reset_rbac_user needs no body.
ResetStaff(m) ==
    /\ ~IsManager(m)
    /\ access' \in Saves(access, m, Change("reset", Nobody))
    /\ demoted' = Nobody
    /\ UNCHANGED <<tiers, edits, before>>

\* The process dies and is started again.
AppRestarts ==
    /\ edits' = {}
    /\ access' = Migrated(access)
    /\ demoted' = Nobody
    /\ UNCHANGED <<tiers, before>>

AccessInit ==
    /\ \E hidden \in SUBSET Helpers :
           access = Migrated([users |-> <<>>, migrated |-> FALSE, hidden |-> hidden])
    /\ tiers = <<>>
    /\ edits = {}
    /\ before = [m \in Helpers |-> Nobody]
    /\ demoted = Nobody

AccessNext ==
    \/ AppRestarts
    \/ \E m \in Helpers :
           \/ Promote(m)
           \/ Demote(m)
           \/ EditStaff(m)
           \/ EditManager(m)
           \/ ResetStaff(m)
           \/ \E kind \in {"staff", "manager"} : EditArrives(m, kind)

--------------------------------------------------------------------------------
Entries == [role : DOMAIN Presets \cup {Nobody}, grants : SUBSET Permissions, revokes : SUBSET Permissions]

AccessTypeOK ==
    /\ DOMAIN access.users \subseteq Helpers
    /\ \A m \in DOMAIN access.users : access.users[m] \in Entries
    /\ access.migrated \in BOOLEAN
    /\ access.hidden \subseteq Helpers
    /\ DOMAIN tiers \subseteq Helpers
    /\ \A m \in DOMAIN tiers :
           tiers[m] \in [active : BOOLEAN, snapshot : [entry : Entries, hidden : BOOLEAN]]
    /\ edits \subseteq Helpers \X {"staff", "manager"}
    /\ before \in [Helpers -> (SUBSET Permissions) \cup {Nobody}]
    /\ demoted \in Helpers \cup {Nobody}

\* A demotion whose saves were all written gives the account exactly the rights
\* it had when it was promoted: what was granted to the manager meanwhile is
\* gone, also when an earlier demotion was interrupted half-way or the manager
\* was promoted once more.  Only after a second promotion of a demoted account
\* are the rights of the first one given back instead (SnapshotFor).
DemotionRestores ==
    \A m \in Helpers :
        demoted = m /\ before[m] # Nobody => Effective(EntryOf(m)) = before[m]
================================================================================
