---------------------------- MODULE MCSetupAndAudit ----------------------------
(***************************************************************************)
(* The setup executor and the whitelist audit, which share nothing, on     *)
(* small instances for one run: a behaviour is one of the executor or, in  *)
(* one of three settings with bounds of their own, one of the audit.       *)
(***************************************************************************)
EXTENDS SetupExecutor, WhitelistAudit

VARIABLE setting  \* whose steps are taken, and within which bounds

\* No row and no record mentions the other players.
OnePlayer ==
    \A p \in Members \ {1} :
        p \notin whitelist /\ prunedAt[p] = Never /\ archiveRows[p] = NoRows[p] /\ liveRows[p] = NoRows[p]

\* One profile's logs over rotations, with a removal and a return; another profile
\* may be activated during a prune.
WithinLogs ==
    /\ prunes <= 1 /\ othersSyncs = 0 /\ othersCommands = 0
    /\ elsewhere => prune # NoPrune
    /\ OnePlayer

\* Another profile is active for a while, and its logs are read; nobody is added in
\* the game.
WithinProfiles == lines <= 2 /\ prunes = 0 /\ othersCommands = 0 /\ unrecorded = {} /\ OnePlayer

\* Removals and returns of two players and profiles, more than the list holds.
WithinCommands == lines <= 1 /\ now <= 1 /\ othersSyncs = 0 /\ sync = NoSync

WithinBounds ==
    \/ setting = "logs" /\ WithinLogs
    \/ setting = "profiles" /\ WithinProfiles
    \/ setting = "commands" /\ WithinCommands

MCInit == Init /\ AuditInit /\ setting \in {"setup", "logs", "profiles", "commands"}

MCNext ==
    /\ UNCHANGED setting
    /\ \/ setting = "setup" /\ Next /\ UNCHANGED auditVars
       \/ setting # "setup" /\ AuditNext /\ WithinBounds' /\ UNCHANGED vars

MCSpec == MCInit /\ [][MCNext]_<<setting, vars, auditVars>>
================================================================================
