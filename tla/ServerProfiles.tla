---------------------------- MODULE ServerProfiles ----------------------------
(***************************************************************************)
(* The server profiles (services/minecraft_settings.py, the profile routes *)
(* of routers/admin_server.py) and the servers run from them.              *)
(*                                                                         *)
(* Every path the server manager uses is the active profile's at that      *)
(* moment: the directory a server runs in, the pid file in the profile's   *)
(* state directory.  Activating another profile touches no process, looks  *)
(* at none and takes no lock, so it may come between the two halves of a   *)
(* start or a stop.  The manager itself is ServerLifecycle; here it is     *)
(* reduced to the steps that read the profile.                             *)
(***************************************************************************)
EXTENDS Naturals

CONSTANTS
    ProfileIds,     \* ids a profile can have
    SampleProfile,  \* SAMPLE_PROFILE_ID, always there and readonly
    LiveProfile,    \* DEFAULT_LIVE_PROFILE_ID
    Folders,        \* valid server directories
    SampleFolder,   \* the sample profile's directory: no server can run there
    NoServer        \* no profile, no directory

ASSUME ProfilesAssumption ==
    /\ {SampleProfile, LiveProfile} \subseteq ProfileIds
    /\ SampleProfile # LiveProfile
    /\ SampleFolder \notin Folders
    /\ NoServer \notin ProfileIds \cup Folders \cup {SampleFolder}

VARIABLES
    profiles,  \* the settings file: each profile's directory, and whether it is readonly
    active,    \* active_profile_id
    pidfiles,  \* profiles whose state directory holds server.pid
    servers,   \* each directory's server: the shell that starts it, or Java
    holder,       \* the start or stop that holds process_lock, and the directory it noted
    home,      \* history: the profile each directory's server was started from
    strayed    \* history: profiles left, or moved, while their server was not settled

profileVars == <<profiles, active, pidfiles, servers, holder, home, strayed>>

Free == [op |-> "none", folder |-> NoServer]

Profile(folder, readonly) == [folder |-> folder, readonly |-> readonly]

ActiveFolder == profiles[active].folder

\* _is_configured_minecraft_process: a Java server in the active directory.
ServerRunning == ActiveFolder \in Folders /\ servers[ActiveFolder] = "up"

\* _get_process_snapshot_sync: a pid file that names no such server is removed,
\* a server without one gets it.
PidFiles(running) == IF running THEN pidfiles \cup {active} ELSE pidfiles \ {active}

\* get_active_profile_operation_block; operations_enabled, which does nothing but
\* block too, is the `blocked` of ServerLifecycle.
Blocked == profiles[active].readonly

\* The active profile's server is visible and has its pid file, or there is none
\* and none is being started or stopped.
Settled ==
    /\ holder = Free
    /\ \/ ActiveFolder \notin Folders
       \/ servers[ActiveFolder] = "none"
       \/ servers[ActiveFolder] = "up" /\ active \in pidfiles

\* History: with servers s and holder j there is nothing left to remember of the
\* other folders, nor of profiles from which none of their servers was started.
Forgetting(s, j) ==
    /\ home' = [d \in Folders |->
           IF s[d] = "none" /\ j # [op |-> "start", folder |-> d] THEN NoServer ELSE home[d]]
    /\ strayed' = {p \in strayed : \E d \in Folders : home'[d] = p}

HasServer(p) == \E d \in Folders : home[d] = p

Leaving == IF HasServer(active) /\ ~Settled THEN strayed \cup {active} ELSE strayed

\* Profile p is given another directory while its server is there, or begun.
Moving(p) == IF HasServer(p) THEN strayed \cup {p} ELSE strayed

--------------------------------------------------------------------------------
(* Settings.                                                               *)

\* Anything that asks whether the server is running: a poll, the log tailer.
Look ==
    /\ pidfiles' = PidFiles(ServerRunning)
    /\ UNCHANGED <<profiles, active, servers, holder, home, strayed>>

\* activate_server_profile.
Activate(p) ==
    /\ p \in DOMAIN profiles
    /\ active' = p
    /\ strayed' = IF p = active THEN strayed ELSE Leaving
    /\ UNCHANGED <<profiles, pidfiles, servers, holder, home>>

WithProfile(p, record) == [q \in DOMAIN profiles \cup {p} |-> IF q = p THEN record ELSE profiles[q]]

\* create_server_profile; _unique_profile_id never returns an id in use.
CreateProfile(p, folder) ==
    /\ p \notin DOMAIN profiles
    /\ \E readonly \in BOOLEAN : profiles' = WithProfile(p, Profile(folder, readonly))
    /\ UNCHANGED <<active, pidfiles, servers, holder, home, strayed>>

\* update_server_profile with a directory: looks at the server only when the
\* profile is the active one (and then, too, at the backup scheduler, which may
\* refuse the change).
MoveProfile(p, folder) ==
    /\ p \in DOMAIN profiles
    /\ ~profiles[p].readonly
    /\ LET change == p = active /\ folder # ActiveFolder
       IN /\ change => ~ServerRunning
          /\ pidfiles' = IF change THEN PidFiles(FALSE) ELSE pidfiles
    /\ profiles' = [profiles EXCEPT ![p].folder = folder]
    /\ strayed' = IF folder = profiles[p].folder THEN strayed ELSE Moving(p)
    /\ UNCHANGED <<active, servers, holder, home>>

\* update_server_profile with the flag; once set it also forbids its own reset.
RestrictProfile(p) ==
    /\ p \in DOMAIN profiles
    /\ ~profiles[p].readonly
    /\ profiles' = [profiles EXCEPT ![p].readonly = TRUE]
    /\ UNCHANGED <<active, pidfiles, servers, holder, home, strayed>>

\* Mutant: the pid file is not looked for.
DeletableBlindly(p) ==
    /\ p \in DOMAIN profiles
    /\ p \notin {active, SampleProfile}
    /\ ~profiles[p].readonly

\* delete_server_profile and delete_profile.
Deletable(p) ==
    /\ p \in DOMAIN profiles
    /\ p \notin {active, SampleProfile}
    /\ p \notin pidfiles
    /\ ~profiles[p].readonly

DeleteProfile(p) ==
    /\ Deletable(p)
    /\ profiles' = [q \in DOMAIN profiles \ {p} |-> profiles[q]]
    /\ UNCHANGED <<active, pidfiles, servers, holder, home, strayed>>

\* set_server_directory: with a readonly profile active, it is the live profile
\* that gets the directory and becomes active; its server was not looked at.
Redirected == IF profiles[active].readonly THEN LiveProfile ELSE active

SetServerDirectory(folder) ==
    LET change == folder # ActiveFolder
        p == Redirected
        known == p \in DOMAIN profiles /\ ~profiles[p].readonly
    IN /\ change => ~ServerRunning
       /\ pidfiles' = IF change THEN PidFiles(FALSE) ELSE pidfiles
       /\ profiles' = WithProfile(p, IF known THEN [profiles[p] EXCEPT !.folder = folder] ELSE Profile(folder, FALSE))
       /\ active' = p
       /\ strayed' = (IF p = active THEN strayed ELSE Leaving)
              \cup (IF known /\ profiles[p].folder = folder THEN {} ELSE Moving(p))
       /\ UNCHANGED <<servers, holder, home>>

--------------------------------------------------------------------------------
(* Servers.                                                                *)

\* start_server, up to the wait for the old log tailer and the subscribers.
StartAsked ==
    /\ holder = Free
    /\ ~Blocked
    /\ pidfiles' = PidFiles(ServerRunning)
    /\ ~ServerRunning
    /\ ActiveFolder \in Folders
    /\ holder' = [op |-> "start", folder |-> ActiveFolder]
    /\ home' = [home EXCEPT ![ActiveFolder] = active]
    /\ UNCHANGED <<profiles, active, servers, strayed>>

\* The script runs in the noted directory; the pid is written for whichever
\* profile is active by now.
Launched ==
    /\ holder.op = "start"
    /\ servers' = [servers EXCEPT ![holder.folder] = IF @ = "up" THEN "up" ELSE "booting"]
    /\ pidfiles' = pidfiles \cup {active}
    /\ holder' = [holder EXCEPT !.op = "ready"]
    /\ UNCHANGED <<profiles, active, home, strayed>>

\* _wait_for_server_ready: polls, and takes the pid file away when the server is gone.
StartEnds ==
    /\ holder.op \in {"start", "ready"}
    /\ holder.op = "ready" => pidfiles' = PidFiles(ServerRunning)
    /\ holder.op = "start" => pidfiles' = pidfiles
    /\ holder' = Free
    /\ Forgetting(servers, Free)
    /\ UNCHANGED <<profiles, active, servers>>

\* stop_server notes the pid.
StopAsked ==
    /\ holder = Free
    /\ ~Blocked
    /\ ServerRunning
    /\ pidfiles' = PidFiles(TRUE)
    /\ holder' = [op |-> "stop", folder |-> ActiveFolder]
    /\ UNCHANGED <<profiles, active, servers, home, strayed>>

\* A poll no longer sees the active profile's server.
StopSeen ==
    /\ holder.op = "stop"
    /\ ~ServerRunning
    /\ pidfiles' = PidFiles(FALSE)
    /\ holder' = Free
    /\ Forgetting(servers, Free)
    /\ UNCHANGED <<profiles, active, servers>>

\* The noted process is killed; the pid file of the profile active by now goes.
StopForced ==
    /\ holder.op = "stop"
    /\ servers' = [servers EXCEPT ![holder.folder] = "none"]
    /\ pidfiles' = PidFiles(FALSE)
    /\ holder' = Free
    /\ Forgetting(servers', Free)
    /\ UNCHANGED <<profiles, active>>

\* Without force, a stop that sees the server to the end gives up.
StopGivesUp ==
    /\ holder.op = "stop"
    /\ ServerRunning
    /\ holder' = Free
    /\ Forgetting(servers, Free)
    /\ UNCHANGED <<profiles, active, pidfiles, servers>>

ServerBoots(d) ==
    /\ servers[d] = "booting"
    /\ servers' = [servers EXCEPT ![d] = "up"]
    /\ UNCHANGED <<profiles, active, pidfiles, holder, home, strayed>>

ServerEnds(d) ==
    /\ servers[d] # "none"
    /\ servers' = [servers EXCEPT ![d] = "none"]
    /\ Forgetting(servers', holder)
    /\ UNCHANGED <<profiles, active, pidfiles, holder>>

--------------------------------------------------------------------------------
\* A new installation, or the settings file of a version that knew one directory.
ProfilesInit ==
    /\ \/ active = SampleProfile /\ profiles = [p \in {SampleProfile} |-> Profile(SampleFolder, TRUE)]
       \/ /\ active = LiveProfile
          /\ \E d \in Folders : profiles = [p \in {SampleProfile, LiveProfile} |->
                 IF p = SampleProfile THEN Profile(SampleFolder, TRUE) ELSE Profile(d, FALSE)]
    /\ pidfiles = {}
    /\ servers = [d \in Folders |-> "none"]
    /\ holder = Free
    /\ home = [d \in Folders |-> NoServer]
    /\ strayed = {}

ProfilesNext ==
    \/ Look \/ StartAsked \/ Launched \/ StartEnds
    \/ StopAsked \/ StopSeen \/ StopForced \/ StopGivesUp
    \/ \E p \in ProfileIds : Activate(p) \/ RestrictProfile(p) \/ DeleteProfile(p)
    \/ \E d \in Folders :
           \/ ServerBoots(d) \/ ServerEnds(d)
           \/ SetServerDirectory(d)
           \/ \E p \in ProfileIds : MoveProfile(p, d) \/ CreateProfile(p, d)

ProfilesTypeOK ==
    /\ {SampleProfile, active} \subseteq DOMAIN profiles
    /\ DOMAIN profiles \subseteq ProfileIds
    /\ \A p \in DOMAIN profiles : profiles[p] \in
           [folder : Folders \cup {SampleFolder}, readonly : BOOLEAN]
    /\ pidfiles \subseteq ProfileIds
    /\ servers \in [Folders -> {"none", "booting", "up"}]
    /\ holder \in [op : {"none", "start", "ready", "stop"}, folder : Folders \cup {NoServer}]
    /\ home \in [Folders -> ProfileIds \cup {NoServer}]
    /\ strayed \subseteq ProfileIds

\* A profile is deleted only when none of its servers runs, although activation
\* and deletion look at no process: the pid file left in its state directory
\* stands in for them.  It does so only for a profile that was left with its
\* server settled, and not moved while the server ran; otherwise the pid may be
\* in another profile's directory, or nowhere.
KeptWhileRunning ==
    [][\A p \in ProfileIds :
           p \in DOMAIN profiles /\ p \notin DOMAIN profiles' /\ p \notin strayed =>
               \A d \in Folders : servers[d] = "none" \/ home[d] # p]_profileVars
================================================================================
