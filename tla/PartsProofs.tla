------------------------------- MODULE PartsProofs -------------------------------
(***************************************************************************)
(* Proofs about the whole dashboard: what was proved of each of its parts  *)
(* holds of it, and its profiles; and about the whitelist audit.  For any  *)
(* number of profiles, folders, players and lines.                         *)
(***************************************************************************)
EXTENDS Dashboard, WhitelistAudit, DashboardProofs, UpgradesProofs, ConsoleProofs

--------------------------------------------------------------------------------
(* The server profiles.                                                    *)

\* A start is under way in d that has launched nothing yet.
Launching(d) == holder.op = "start" /\ holder.folder = d

\* A server is where its profile points, unless that strayed.
AtHome ==
    \A p \in ProfileIds \ strayed : \A d \in Folders :
        home[d] = p => p \in DOMAIN profiles /\ profiles[p].folder = d

HomesLive == \A d \in Folders : home[d] # NoServer => servers[d] # "none" \/ Launching(d)

\* A profile that was left with its server settled keeps the pid file for as long
\* as the server is there.
LeftSettled ==
    \A p \in ProfileIds \ strayed : \A d \in Folders :
        home[d] = p /\ p # active => servers[d] = "up" /\ p \in pidfiles /\ ~Launching(d)

ProfilesInv == ProfilesTypeOK /\ AtHome /\ HomesLive /\ LeftSettled

LEMMA ProfileConstants ==
    /\ SampleProfile \in ProfileIds /\ LiveProfile \in ProfileIds
    /\ NoServer \notin ProfileIds /\ NoServer \notin Folders
  BY ProfilesAssumption

LEMMA PidFilesType ==
    ASSUME ProfilesTypeOK, NEW alive
    PROVE  PidFiles(alive) \subseteq ProfileIds /\ \A p \in ProfileIds \ {active} : p \in PidFiles(alive) <=> p \in pidfiles
  BY DEF PidFiles, ProfilesTypeOK

\* The active profile's server, unless the profile strays when it is left.
LEMMA LeavingSettled ==
    ASSUME ProfilesInv, active \notin Leaving, NEW d \in Folders, home[d] = active
    PROVE  /\ servers[d] = "up" /\ active \in pidfiles /\ holder = Free
           /\ d = ActiveFolder /\ ServerRunning
  <1>1. HasServer(active) /\ active \notin strayed /\ Settled
    BY DEF Leaving, HasServer
  <1>2. active \in ProfileIds /\ active # NoServer
    BY ProfileConstants DEF ProfilesInv, ProfilesTypeOK
  <1>3. d = ActiveFolder
    BY <1>1, <1>2 DEF ProfilesInv, AtHome, ActiveFolder
  <1>4. holder = Free /\ ~ Launching(d)
    BY <1>1 DEF Settled, Free, Launching
  <1>5. servers[d] # "none"
    BY <1>2, <1>4 DEF ProfilesInv, HomesLive
  <1> QED
    BY <1>1, <1>3, <1>4, <1>5 DEF Settled, ServerRunning

LEMMA LeavingGrows == strayed \subseteq Leaving /\ Leaving \subseteq strayed \cup {active}
  BY DEF Leaving

\* Nothing of the servers changes, and of the profiles nothing that is their home.
LEMMA ProfilesChange ==
    ASSUME ProfilesInv, ProfilesTypeOK', UNCHANGED <<servers, holder, home>>, strayed \subseteq strayed',
           \A p \in ProfileIds \ strayed' : \A d \in Folders :
              home[d] = p => /\ p \in DOMAIN profiles /\ profiles[p].folder = d
                                => p \in DOMAIN profiles' /\ profiles'[p].folder = d
                             /\ p # active' /\ p # active /\ p \in pidfiles => p \in pidfiles'
                             /\ p # active' /\ p = active =>
                                   servers[d] = "up" /\ p \in pidfiles' /\ ~Launching(d)
    PROVE  ProfilesInv'
  <1>1. AtHome'
    BY DEF ProfilesInv, AtHome
  <1>2. HomesLive'
    BY DEF ProfilesInv, HomesLive, Launching
  <1>3. LeftSettled'
    BY DEF ProfilesInv, LeftSettled, Launching
  <1> QED
    BY <1>1, <1>2, <1>3 DEF ProfilesInv

LEMMA LookKeeps ==
    ASSUME ProfilesInv, Look
    PROVE  ProfilesInv'
  <1>1. ProfilesTypeOK'
    BY PidFilesType DEF Look, ProfilesInv, ProfilesTypeOK
  <1> QED
    BY <1>1, PidFilesType, ProfilesChange DEF Look, ProfilesInv

LEMMA ActivateKeeps ==
    ASSUME ProfilesInv, NEW p \in ProfileIds, Activate(p)
    PROVE  ProfilesInv'
  <1>1. strayed' \subseteq ProfileIds /\ strayed \subseteq strayed'
    BY LeavingGrows DEF Activate, ProfilesInv, ProfilesTypeOK
  <1>2. ProfilesTypeOK'
    BY <1>1 DEF Activate, ProfilesInv, ProfilesTypeOK
  <1>3. ASSUME NEW q \in ProfileIds \ strayed', NEW d \in Folders, home[d] = q, q # active', q = active
        PROVE  servers[d] = "up" /\ q \in pidfiles' /\ ~ Launching(d)
    <2>1. active \notin Leaving
      BY <1>3 DEF Activate
    <2> QED
      BY <1>3, <2>1, LeavingSettled DEF Activate, Launching, Free
  <1> QED
    BY <1>1, <1>2, <1>3, ProfilesChange DEF Activate

LEMMA WithProfileType ==
    ASSUME ProfilesTypeOK, NEW p \in ProfileIds, NEW r \in [folder : Folders \cup {SampleFolder}, readonly : BOOLEAN]
    PROVE  /\ DOMAIN WithProfile(p, r) = DOMAIN profiles \cup {p}
           /\ DOMAIN WithProfile(p, r) \subseteq ProfileIds
           /\ WithProfile(p, r)[p] = r
           /\ \A q \in DOMAIN profiles \ {p} : WithProfile(p, r)[q] = profiles[q]
           /\ \A q \in DOMAIN profiles \cup {p} :
                 WithProfile(p, r)[q] \in [folder : Folders \cup {SampleFolder}, readonly : BOOLEAN]
  BY DEF WithProfile, ProfilesTypeOK

LEMMA CreateProfileKeeps ==
    ASSUME ProfilesInv, NEW p \in ProfileIds, NEW place \in Folders, CreateProfile(p, place)
    PROVE  ProfilesInv'
  <1>1. PICK readonly \in BOOLEAN : profiles' = WithProfile(p, Profile(place, readonly))
    BY DEF CreateProfile
  <1> DEFINE r == Profile(place, readonly)
  <1>2. r \in [folder : Folders \cup {SampleFolder}, readonly : BOOLEAN] /\ profiles' = WithProfile(p, r)
    BY <1>1 DEF Profile
  <1> HIDE DEF r
  <1>5. /\ DOMAIN profiles' = DOMAIN profiles \cup {p} /\ DOMAIN profiles' \subseteq ProfileIds
        /\ \A q \in DOMAIN profiles \ {p} : profiles'[q] = profiles[q]
        /\ \A q \in DOMAIN profiles' :
              profiles'[q] \in [folder : Folders \cup {SampleFolder}, readonly : BOOLEAN]
    <2>1. /\ DOMAIN WithProfile(p, r) = DOMAIN profiles \cup {p}
          /\ DOMAIN WithProfile(p, r) \subseteq ProfileIds
          /\ WithProfile(p, r)[p] = r
          /\ \A q \in DOMAIN profiles \ {p} : WithProfile(p, r)[q] = profiles[q]
          /\ \A q \in DOMAIN profiles \cup {p} :
                WithProfile(p, r)[q] \in [folder : Folders \cup {SampleFolder}, readonly : BOOLEAN]
      BY <1>2, WithProfileType DEF ProfilesInv
    <2> QED
      BY <1>2, <2>1
  <1>3. ProfilesTypeOK'
    BY <1>5 DEF CreateProfile, ProfilesInv, ProfilesTypeOK
  <1>4. \A q \in DOMAIN profiles : q \in DOMAIN profiles' /\ profiles'[q] = profiles[q]
    BY <1>5 DEF CreateProfile
  <1> QED
    BY <1>3, <1>4, ProfilesChange DEF CreateProfile

LEMMA MoveProfileKeeps ==
    ASSUME ProfilesInv, NEW p \in ProfileIds, NEW place \in Folders, MoveProfile(p, place)
    PROVE  ProfilesInv'
  <1>1. profiles' = [profiles EXCEPT ![p].folder = place] /\ p \in DOMAIN profiles
    BY DEF MoveProfile
  <1>2. /\ DOMAIN profiles' = DOMAIN profiles
        /\ profiles'[p] = [profiles[p] EXCEPT !.folder = place]
        /\ \A q \in DOMAIN profiles \ {p} : profiles'[q] = profiles[q]
    BY <1>1
  <1>3. /\ profiles[p] \in [folder : Folders \cup {SampleFolder}, readonly : BOOLEAN]
        /\ pidfiles' \subseteq ProfileIds
        /\ \A q \in ProfileIds \ {active} : q \in pidfiles' <=> q \in pidfiles
    BY <1>1, PidFilesType DEF MoveProfile, ProfilesInv, ProfilesTypeOK
  <1>4. strayed \subseteq strayed' /\ strayed' \subseteq ProfileIds
    BY DEF MoveProfile, Moving, ProfilesInv, ProfilesTypeOK
  <1>5. ProfilesTypeOK'
    BY <1>2, <1>3, <1>4 DEF MoveProfile, ProfilesInv, ProfilesTypeOK
  <1>6. ASSUME NEW q \in ProfileIds \ strayed', NEW d \in Folders, home[d] = q, q = p
        PROVE  profiles'[q].folder = profiles[q].folder
    BY <1>2, <1>3, <1>6 DEF MoveProfile, Moving, HasServer
  <1>7. UNCHANGED <<active, servers, holder, home>>
    BY DEF MoveProfile
  <1> QED
    BY <1>2, <1>3, <1>4, <1>5, <1>6, <1>7, ProfilesChange

LEMMA RestrictProfileKeeps ==
    ASSUME ProfilesInv, NEW p \in ProfileIds, RestrictProfile(p)
    PROVE  ProfilesInv'
  <1>1. /\ DOMAIN profiles' = DOMAIN profiles
        /\ profiles'[p] = [profiles[p] EXCEPT !.readonly = TRUE]
        /\ \A q \in DOMAIN profiles \ {p} : profiles'[q] = profiles[q]
        /\ profiles[p] \in [folder : Folders \cup {SampleFolder}, readonly : BOOLEAN]
    BY DEF RestrictProfile, ProfilesInv, ProfilesTypeOK
  <1>2. ProfilesTypeOK'
    BY <1>1 DEF RestrictProfile, ProfilesInv, ProfilesTypeOK
  <1>3. \A q \in DOMAIN profiles : profiles'[q].folder = profiles[q].folder
    BY <1>1
  <1> QED
    BY <1>1, <1>2, <1>3, ProfilesChange DEF RestrictProfile

\* A profile without a pid file that is deleted had no server, unless it strayed.
LEMMA DeletedHomeless ==
    ASSUME ProfilesInv, NEW p \in ProfileIds \ strayed, Deletable(p), NEW d \in Folders
    PROVE  home[d] # p
  BY DEF Deletable, ProfilesInv, LeftSettled

LEMMA DeleteProfileKeeps ==
    ASSUME ProfilesInv, NEW p \in ProfileIds, DeleteProfile(p)
    PROVE  ProfilesInv'
  <1>1. /\ DOMAIN profiles' = DOMAIN profiles \ {p}
        /\ \A q \in DOMAIN profiles \ {p} : profiles'[q] = profiles[q]
    BY DEF DeleteProfile
  <1>2. p \notin {active, SampleProfile}
    BY DEF DeleteProfile, Deletable
  <1>3. ProfilesTypeOK'
    BY <1>1, <1>2 DEF DeleteProfile, ProfilesInv, ProfilesTypeOK
  <1>4. p \notin strayed => \A d \in Folders : home[d] # p
    BY DeletedHomeless DEF DeleteProfile
  <1> QED
    BY <1>1, <1>3, <1>4, ProfilesChange DEF DeleteProfile

LEMMA SetServerDirectoryKeeps ==
    ASSUME ProfilesInv, NEW place \in Folders, SetServerDirectory(place)
    PROVE  ProfilesInv'
  <1> DEFINE change == place # ActiveFolder
             p == Redirected
             known == p \in DOMAIN profiles /\ ~profiles[p].readonly
             r == IF known THEN [profiles[p] EXCEPT !.folder = place] ELSE Profile(place, FALSE)
  <1>1. p \in ProfileIds
    BY ProfileConstants DEF Redirected, ProfilesInv, ProfilesTypeOK
  <1>2. r \in [folder : Folders \cup {SampleFolder}, readonly : BOOLEAN] /\ r.folder = place
    <2>1. CASE known
      <3>1. profiles[p] \in [folder : Folders \cup {SampleFolder}, readonly : BOOLEAN]
        BY <2>1 DEF ProfilesInv, ProfilesTypeOK
      <3> HIDE DEF p
      <3> QED
        BY <2>1, <3>1
    <2>2. CASE ~known
      BY <2>2 DEF Profile
    <2> QED
      BY <2>1, <2>2
  <1>3. /\ change => ~ServerRunning
        /\ pidfiles' = IF change THEN PidFiles(FALSE) ELSE pidfiles
        /\ profiles' = WithProfile(p, r)
        /\ active' = p
        /\ strayed' = (IF p = active THEN strayed ELSE Leaving)
               \cup (IF known /\ profiles[p].folder = place THEN {} ELSE Moving(p))
        /\ UNCHANGED <<servers, holder, home>>
    BY DEF SetServerDirectory
  <1> HIDE DEF change, p, r
  <1>4. /\ DOMAIN profiles' = DOMAIN profiles \cup {p} /\ DOMAIN profiles' \subseteq ProfileIds
        /\ profiles'[p].folder = place
        /\ \A q \in DOMAIN profiles \ {p} : profiles'[q] = profiles[q]
        /\ \A q \in DOMAIN profiles' :
              profiles'[q] \in [folder : Folders \cup {SampleFolder}, readonly : BOOLEAN]
    <2>1. /\ DOMAIN WithProfile(p, r) = DOMAIN profiles \cup {p}
          /\ DOMAIN WithProfile(p, r) \subseteq ProfileIds
          /\ WithProfile(p, r)[p] = r
          /\ \A q \in DOMAIN profiles \ {p} : WithProfile(p, r)[q] = profiles[q]
          /\ \A q \in DOMAIN profiles \cup {p} :
                WithProfile(p, r)[q] \in [folder : Folders \cup {SampleFolder}, readonly : BOOLEAN]
      BY <1>1, <1>2, WithProfileType DEF ProfilesInv
    <2> QED
      BY <1>2, <1>3, <2>1
  <1>5. /\ pidfiles' \subseteq ProfileIds
        /\ \A q \in ProfileIds \ {active} : q \in pidfiles' <=> q \in pidfiles
    BY <1>3, PidFilesType DEF ProfilesInv, ProfilesTypeOK
  <1>6. strayed \subseteq strayed' /\ strayed' \subseteq ProfileIds
    BY <1>1, <1>3, LeavingGrows DEF Moving, ProfilesInv, ProfilesTypeOK
  <1>7. ProfilesTypeOK'
    BY <1>1, <1>3, <1>4, <1>5, <1>6 DEF ProfilesInv, ProfilesTypeOK
  <1>8. ASSUME NEW q \in ProfileIds \ strayed', NEW d \in Folders, home[d] = q,
               q \in DOMAIN profiles, profiles[q].folder = d
        PROVE  q \in DOMAIN profiles' /\ profiles'[q].folder = d
    <2>1. CASE q = p
      <3>1. profiles[p].folder = place
        BY <1>3, <1>8, <2>1 DEF Moving, HasServer
      <3> QED
        BY <1>4, <1>8, <2>1, <3>1
    <2>2. CASE q # p
      BY <1>4, <1>8, <2>2
    <2> QED
      BY <2>1, <2>2
  <1>9. ASSUME NEW q \in ProfileIds \ strayed', NEW d \in Folders, home[d] = q, q # active', q = active
        PROVE  servers[d] = "up" /\ q \in pidfiles' /\ ~ Launching(d)
    <2>1. active \notin Leaving
      BY <1>3, <1>9
    <2>2. servers[d] = "up" /\ active \in pidfiles /\ holder = Free /\ ServerRunning
      BY <1>9, <2>1, LeavingSettled
    <2> QED
      BY <1>3, <1>9, <2>2 DEF Launching, Free
  <1> QED
    BY <1>3, <1>5, <1>6, <1>7, <1>8, <1>9, ProfilesChange

\* The history forgets the folders that have no server.
LEMMA Forgotten ==
    ASSUME ProfilesInv, NEW s, NEW h, Forgetting(s, h)
    PROVE  /\ home' \in [Folders -> ProfileIds \cup {NoServer}]
           /\ strayed' \subseteq strayed
           /\ \A d \in Folders :
                 /\ home'[d] = home[d] \/ home'[d] = NoServer
                 /\ home'[d] # NoServer => s[d] # "none" \/ h = [op |-> "start", folder |-> d]
           /\ \A p \in ProfileIds \ strayed' : \A d \in Folders : home'[d] = p => p \notin strayed
  <1>1. home' \in [Folders -> ProfileIds \cup {NoServer}]
    BY DEF Forgetting, ProfilesInv, ProfilesTypeOK
  <1>2. \A d \in Folders :
           home'[d] = IF s[d] = "none" /\ h # [op |-> "start", folder |-> d] THEN NoServer ELSE home[d]
    BY DEF Forgetting
  <1>3. strayed' = {p \in strayed : \E d \in Folders : home'[d] = p}
    BY DEF Forgetting
  <1> QED
    BY <1>1, <1>2, <1>3

\* A step of the servers, after which the history forgets: servers only go, or
\* boot, and the pid files of the profiles that were left stay.
LEMMA ServersChange ==
    ASSUME ProfilesInv, NEW s, NEW h, Forgetting(s, h), servers' = s, holder' = h,
           s \in [Folders -> {"none", "booting", "up"}],
           h \in [op : {"none", "start", "ready", "stop"}, folder : Folders \cup {NoServer}],
           UNCHANGED <<profiles, active>>, pidfiles' \subseteq ProfileIds,
           \A p \in ProfileIds \ {active} : p \in pidfiles' <=> p \in pidfiles,
           \A d \in Folders : servers[d] = "up" => s[d] \in {"up", "none"},
           \A d \in Folders : h = [op |-> "start", folder |-> d] => Launching(d)
    PROVE  ProfilesInv'
  <1>1. /\ home' \in [Folders -> ProfileIds \cup {NoServer}]
        /\ strayed' \subseteq strayed
        /\ \A d \in Folders :
              /\ home'[d] = home[d] \/ home'[d] = NoServer
              /\ home'[d] # NoServer => s[d] # "none" \/ h = [op |-> "start", folder |-> d]
        /\ \A p \in ProfileIds \ strayed' : \A d \in Folders : home'[d] = p => p \notin strayed
    BY Forgotten
  <1>2. ProfilesTypeOK'
    BY <1>1 DEF ProfilesInv, ProfilesTypeOK
  <1>3. \A d \in Folders : h = [op |-> "start", folder |-> d] <=> Launching(d)'
    BY DEF Launching
  <1>4. HomesLive'
    BY <1>1, <1>3 DEF HomesLive
  <1>5. AtHome'
    BY <1>1, ProfileConstants DEF ProfilesInv, AtHome
  <1>6. ASSUME NEW p \in ProfileIds \ strayed', NEW d \in Folders, home'[d] = p, p # active'
        PROVE  servers'[d] = "up" /\ p \in pidfiles' /\ ~ Launching(d)'
    <2>1. home[d] = p /\ p \notin strayed /\ p # NoServer
      BY <1>1, <1>6, ProfileConstants
    <2>2. servers[d] = "up" /\ p \in pidfiles /\ ~ Launching(d)
      BY <1>6, <2>1 DEF ProfilesInv, LeftSettled
    <2>3. ~ Launching(d)'
      BY <1>3, <2>2
    <2>4. s[d] # "none"
      BY <1>1, <1>3, <1>6, <2>1, <2>3
    <2> QED
      BY <1>6, <2>1, <2>2, <2>3, <2>4
  <1>7. LeftSettled'
    BY <1>6 DEF LeftSettled
  <1> QED
    BY <1>2, <1>4, <1>5, <1>7 DEF ProfilesInv

LEMMA HolderTypes ==
    ASSUME ProfilesTypeOK
    PROVE  /\ Free \in [op : {"none", "start", "ready", "stop"}, folder : Folders \cup {NoServer}]
           /\ \A d \in Folders : \A op \in {"start", "stop"} :
                 [op |-> op, folder |-> d] \in [op : {"none", "start", "ready", "stop"}, folder : Folders \cup {NoServer}]
           /\ \A d : Free # [op |-> "start", folder |-> d]
           /\ \A p \in ProfileIds \ {active} : p \in pidfiles \cup {active} <=> p \in pidfiles
  BY DEF Free

LEMMA StartAskedKeeps ==
    ASSUME ProfilesInv, StartAsked
    PROVE  ProfilesInv'
  <1> DEFINE f == ActiveFolder
  <1>1. /\ f \in Folders /\ holder = Free /\ holder' = [op |-> "start", folder |-> f]
        /\ home' = [home EXCEPT ![f] = active] /\ ~ServerRunning
        /\ UNCHANGED <<profiles, active, servers, strayed>>
    BY DEF StartAsked
  <1>2. /\ pidfiles' \subseteq ProfileIds
        /\ \A p \in ProfileIds \ {active} : p \in pidfiles' <=> p \in pidfiles
    BY PidFilesType DEF StartAsked, ProfilesInv
  <1>3. active \in DOMAIN profiles /\ active \in ProfileIds /\ profiles[active].folder = f
    BY DEF ProfilesInv, ProfilesTypeOK, ActiveFolder
  <1> HIDE DEF f
  <1>4. /\ home' \in [Folders -> ProfileIds \cup {NoServer}]
        /\ home'[f] = active /\ \A d \in Folders \ {f} : home'[d] = home[d]
    BY <1>1, <1>3 DEF ProfilesInv, ProfilesTypeOK
  <1>5. holder' \in [op : {"none", "start", "ready", "stop"}, folder : Folders \cup {NoServer}]
    BY <1>1
  <1>6. ProfilesTypeOK'
    BY <1>1, <1>2, <1>4, <1>5 DEF ProfilesInv, ProfilesTypeOK
  <1>7. AtHome'
    BY <1>1, <1>3, <1>4 DEF ProfilesInv, AtHome
  <1>8. (\A d \in Folders : ~ Launching(d)) /\ \A d \in Folders : Launching(d)' <=> d = f
    BY <1>1 DEF Launching, Free
  <1>9. HomesLive'
    BY <1>1, <1>4, <1>8 DEF ProfilesInv, HomesLive
  <1>10. LeftSettled'
    BY <1>1, <1>2, <1>4, <1>8 DEF ProfilesInv, LeftSettled
  <1> QED
    BY <1>6, <1>7, <1>9, <1>10 DEF ProfilesInv

LEMMA LaunchedKeeps ==
    ASSUME ProfilesInv, Launched
    PROVE  ProfilesInv'
  <1> DEFINE f == holder.folder
  <1>1. /\ holder.op = "start" /\ holder' = [holder EXCEPT !.op = "ready"]
        /\ servers' = [servers EXCEPT ![f] = IF @ = "up" THEN "up" ELSE "booting"]
        /\ pidfiles' = pidfiles \cup {active}
        /\ UNCHANGED <<profiles, active, home, strayed>>
    BY DEF Launched
  <1>2. f \in Folders \cup {NoServer}
    BY DEF ProfilesInv, ProfilesTypeOK
  <1> HIDE DEF f
  <1>3. /\ servers' \in [Folders -> {"none", "booting", "up"}]
        /\ \A d \in Folders : servers[d] = "up" => servers'[d] = "up"
        /\ \A d \in Folders : servers[d] # "none" => servers'[d] # "none"
        /\ \A d \in Folders : d = f => servers'[d] # "none"
    BY <1>1 DEF ProfilesInv, ProfilesTypeOK
  <1>4. holder' \in [op : {"none", "start", "ready", "stop"}, folder : Folders \cup {NoServer}] /\ holder'.op = "ready"
    BY <1>1 DEF ProfilesInv, ProfilesTypeOK
  <1>5. ProfilesTypeOK'
    BY <1>1, <1>3, <1>4 DEF ProfilesInv, ProfilesTypeOK
  <1>6. AtHome'
    BY <1>1 DEF ProfilesInv, AtHome
  <1>7. HomesLive'
    BY <1>1, <1>3 DEF ProfilesInv, HomesLive, Launching, f
  <1>8. LeftSettled'
    BY <1>1, <1>3, <1>4 DEF ProfilesInv, LeftSettled, Launching
  <1> QED
    BY <1>5, <1>6, <1>7, <1>8 DEF ProfilesInv

\* The ends of starts and stops, which free the lock.
LEMMA FreedKeeps ==
    ASSUME ProfilesInv, holder' = Free, UNCHANGED <<profiles, active>>,
           Forgetting(servers', Free),
           \/ UNCHANGED servers
           \/ \E d \in Folders \cup {NoServer} : servers' = [servers EXCEPT ![d] = "none"],
           pidfiles' = pidfiles \/ \E alive \in BOOLEAN : pidfiles' = PidFiles(alive)
    PROVE  ProfilesInv'
  <1>1. /\ servers' \in [Folders -> {"none", "booting", "up"}]
        /\ \A d \in Folders : servers[d] = "up" => servers'[d] \in {"up", "none"}
    BY DEF ProfilesInv, ProfilesTypeOK
  <1>2. /\ pidfiles' \subseteq ProfileIds
        /\ \A p \in ProfileIds \ {active} : p \in pidfiles' <=> p \in pidfiles
    BY PidFilesType DEF ProfilesInv, ProfilesTypeOK
  <1>3. /\ Free \in [op : {"none", "start", "ready", "stop"}, folder : Folders \cup {NoServer}]
        /\ \A d : Free # [op |-> "start", folder |-> d]
    BY HolderTypes DEF ProfilesInv
  <1> DEFINE s == servers'
             h == Free
  <1>4. /\ Forgetting(s, h) /\ servers' = s /\ holder' = h
        /\ s \in [Folders -> {"none", "booting", "up"}]
        /\ h \in [op : {"none", "start", "ready", "stop"}, folder : Folders \cup {NoServer}]
        /\ \A d \in Folders : servers[d] = "up" => s[d] \in {"up", "none"}
        /\ \A d \in Folders : h = [op |-> "start", folder |-> d] => Launching(d)
    BY <1>1, <1>3
  <1> HIDE DEF s, h
  <1> QED
    BY <1>2, <1>4, ServersChange

LEMMA ServerRunningType == ServerRunning \in BOOLEAN /\ TRUE \in BOOLEAN /\ FALSE \in BOOLEAN
  BY DEF ServerRunning

LEMMA StartEndsKeeps ==
    ASSUME ProfilesInv, StartEnds
    PROVE  ProfilesInv'
  <1>1. pidfiles' = pidfiles \/ pidfiles' = PidFiles(ServerRunning)
    BY DEF StartEnds
  <1>2. Forgetting(servers', Free)
    BY DEF StartEnds, Forgetting
  <1> QED
    BY <1>1, <1>2, ServerRunningType, FreedKeeps DEF StartEnds

LEMMA StopEndsKeeps ==
    ASSUME ProfilesInv, StopSeen \/ StopForced \/ StopGivesUp
    PROVE  ProfilesInv'
  <1>1. pidfiles' = pidfiles \/ pidfiles' = PidFiles(FALSE)
    BY DEF StopSeen, StopForced, StopGivesUp
  <1>2. /\ holder' = Free /\ UNCHANGED <<profiles, active>>
        /\ Forgetting(servers', Free)
    BY DEF StopSeen, StopForced, StopGivesUp, Forgetting
  <1>3. UNCHANGED servers \/ servers' = [servers EXCEPT ![holder.folder] = "none"]
    BY DEF StopSeen, StopForced, StopGivesUp
  <1>4. holder.folder \in Folders \cup {NoServer}
    BY DEF ProfilesInv, ProfilesTypeOK
  <1> QED
    BY <1>1, <1>2, <1>3, <1>4, ServerRunningType, FreedKeeps

LEMMA StopAskedKeeps ==
    ASSUME ProfilesInv, StopAsked
    PROVE  ProfilesInv'
  <1>1. /\ holder = Free /\ holder' = [op |-> "stop", folder |-> ActiveFolder] /\ ActiveFolder \in Folders
        /\ pidfiles' = PidFiles(TRUE)
        /\ UNCHANGED <<profiles, active, servers, home, strayed>>
    BY DEF StopAsked, ServerRunning
  <1>2. /\ pidfiles' \subseteq ProfileIds
        /\ \A p \in ProfileIds \ {active} : p \in pidfiles' <=> p \in pidfiles
    BY <1>1, PidFilesType DEF ProfilesInv
  <1>3. ProfilesTypeOK'
    BY <1>1, <1>2 DEF ProfilesInv, ProfilesTypeOK
  <1>4. \A d \in Folders : ~ Launching(d) /\ ~ Launching(d)'
    BY <1>1 DEF Launching, Free
  <1>5. AtHome' /\ HomesLive' /\ LeftSettled'
    BY <1>1, <1>2, <1>4 DEF ProfilesInv, AtHome, HomesLive, LeftSettled
  <1> QED
    BY <1>3, <1>5 DEF ProfilesInv

LEMMA ServerBootsKeeps ==
    ASSUME ProfilesInv, NEW d \in Folders, ServerBoots(d)
    PROVE  ProfilesInv'
  <1>1. /\ servers' \in [Folders -> {"none", "booting", "up"}]
        /\ \A x \in Folders : servers[x] = "up" => servers'[x] = "up"
        /\ \A x \in Folders : servers[x] # "none" => servers'[x] # "none"
    BY DEF ServerBoots, ProfilesInv, ProfilesTypeOK
  <1>2. ProfilesTypeOK'
    BY <1>1 DEF ServerBoots, ProfilesInv, ProfilesTypeOK
  <1>3. AtHome' /\ HomesLive' /\ LeftSettled'
    BY <1>1 DEF ServerBoots, ProfilesInv, AtHome, HomesLive, LeftSettled, Launching
  <1> QED
    BY <1>2, <1>3 DEF ProfilesInv

LEMMA ServerEndsKeeps ==
    ASSUME ProfilesInv, NEW d \in Folders, ServerEnds(d)
    PROVE  ProfilesInv'
  <1> DEFINE s == servers'
             h == holder
  <1>1. /\ Forgetting(s, h) /\ servers' = s /\ holder' = h
        /\ s \in [Folders -> {"none", "booting", "up"}]
        /\ h \in [op : {"none", "start", "ready", "stop"}, folder : Folders \cup {NoServer}]
        /\ \A x \in Folders : servers[x] = "up" => s[x] \in {"up", "none"}
        /\ \A x \in Folders : h = [op |-> "start", folder |-> x] => Launching(x)
    BY DEF ServerEnds, ProfilesInv, ProfilesTypeOK, Launching
  <1>2. /\ UNCHANGED <<profiles, active, pidfiles>> /\ pidfiles' \subseteq ProfileIds
        /\ \A p \in ProfileIds \ {active} : p \in pidfiles' <=> p \in pidfiles
    BY DEF ServerEnds, ProfilesInv, ProfilesTypeOK
  <1> HIDE DEF s, h
  <1> QED
    BY <1>1, <1>2, ServersChange

LEMMA ProfilesStep == ProfilesInv /\ [ProfilesNext]_profileVars => ProfilesInv'
  <1> SUFFICES ASSUME ProfilesInv, [ProfilesNext]_profileVars PROVE ProfilesInv'
    OBVIOUS
  <1>1. CASE Look \/ StartAsked \/ Launched \/ StartEnds
    BY <1>1, LookKeeps, StartAskedKeeps, LaunchedKeeps, StartEndsKeeps
  <1>2. CASE StopAsked \/ StopSeen \/ StopForced \/ StopGivesUp
    BY <1>2, StopAskedKeeps, StopEndsKeeps
  <1>3. ASSUME NEW p \in ProfileIds, Activate(p) \/ RestrictProfile(p) \/ DeleteProfile(p)
        PROVE  ProfilesInv'
    BY <1>3, ActivateKeeps, RestrictProfileKeeps, DeleteProfileKeeps
  <1>4. ASSUME NEW d \in Folders,
               \/ ServerBoots(d) \/ ServerEnds(d) \/ SetServerDirectory(d)
               \/ \E p \in ProfileIds : MoveProfile(p, d) \/ CreateProfile(p, d)
        PROVE  ProfilesInv'
    BY <1>4, ServerBootsKeeps, ServerEndsKeeps, SetServerDirectoryKeeps, MoveProfileKeeps, CreateProfileKeeps
  <1>5. CASE UNCHANGED profileVars
    BY <1>5 DEF profileVars, ProfilesInv, ProfilesTypeOK, AtHome, HomesLive, LeftSettled, Launching
  <1> QED
    BY <1>1, <1>2, <1>3, <1>4, <1>5 DEF ProfilesNext

LEMMA ProfilesStart == ProfilesInit => ProfilesInv
  <1> SUFFICES ASSUME ProfilesInit PROVE ProfilesInv
    OBVIOUS
  <1>1. /\ {SampleProfile, active} \subseteq DOMAIN profiles /\ DOMAIN profiles \subseteq ProfileIds
        /\ \A p \in DOMAIN profiles : profiles[p] \in [folder : Folders \cup {SampleFolder}, readonly : BOOLEAN]
    <2>1. CASE active = SampleProfile /\ profiles = [p \in {SampleProfile} |-> Profile(SampleFolder, TRUE)]
      BY <2>1, ProfileConstants DEF Profile
    <2>2. ASSUME NEW d \in Folders, active = LiveProfile,
                 profiles = [p \in {SampleProfile, LiveProfile} |->
                               IF p = SampleProfile THEN Profile(SampleFolder, TRUE) ELSE Profile(d, FALSE)]
          PROVE  /\ {SampleProfile, active} \subseteq DOMAIN profiles /\ DOMAIN profiles \subseteq ProfileIds
                 /\ \A p \in DOMAIN profiles :
                       profiles[p] \in [folder : Folders \cup {SampleFolder}, readonly : BOOLEAN]
      BY <2>2, ProfileConstants DEF Profile
    <2> QED
      BY <2>1, <2>2 DEF ProfilesInit
  <1>2. ProfilesTypeOK
    BY <1>1 DEF ProfilesInit, ProfilesTypeOK, Free
  <1>3. \A d \in Folders : home[d] = NoServer
    BY DEF ProfilesInit
  <1> QED
    BY <1>2, <1>3, ProfileConstants DEF ProfilesInv, AtHome, HomesLive, LeftSettled

\* A profile that one step removes was deleted, and had no server.
LEMMA RemovedByDeletion ==
    ASSUME ProfilesInv, [ProfilesNext]_profileVars, NEW p \in ProfileIds,
           p \in DOMAIN profiles, p \notin DOMAIN profiles'
    PROVE  DeleteProfile(p)
  <1>1. CASE \E q \in ProfileIds : DeleteProfile(q)
    BY <1>1 DEF DeleteProfile
  <1>2. CASE UNCHANGED profiles
    BY <1>2
  <1>3. CASE \E q \in ProfileIds : RestrictProfile(q) \/ \E d \in Folders : MoveProfile(q, d)
    BY <1>3 DEF RestrictProfile, MoveProfile
  <1>4. CASE \E d \in Folders : SetServerDirectory(d) \/ \E q \in ProfileIds : CreateProfile(q, d)
    BY <1>4 DEF SetServerDirectory, CreateProfile, WithProfile
  <1> QED
    BY <1>1, <1>2, <1>3, <1>4
       DEF ProfilesNext, profileVars, Look, StartAsked, Launched, StartEnds, StopAsked, StopSeen,
           StopForced, StopGivesUp, Activate, ServerBoots, ServerEnds

--------------------------------------------------------------------------------
(* The whitelist audit: removals and returns.                              *)

\* Events are in the order of their times, and each is noted once.
EventsInv ==
    /\ events \in Seq(Return)
    /\ \A i \in 1..Len(events) : events[i].at <= now
    /\ \A i, j \in 1..Len(events) : i < j => events[i].at <= events[j].at /\ events[i] # events[j]

\* The return of a player to the whitelist of which it was pruned was noted, unless
\* it was added past the records.
ReturnNoted ==
    \A p \in whitelist \ unrecorded : prunedAt[p] # Never =>
        \E i \in 1..Len(events) : events[i].player = p /\ events[i].of = prunedAt[p]

\* While the answer to a removal that was carried out is awaited, its player is
\* not on the whitelist, or was added past the records.
RemovalAwaited == \A p \in prune.sent : prune.done => p \notin whitelist \ unrecorded

AuditInv ==
    /\ now \in 0..MaxTime
    /\ whitelist \subseteq Members
    /\ prune.todo \subseteq Members /\ prune.sent \subseteq Members
    /\ prunedAt \in [Members -> Never..MaxTime]
    /\ \A p \in Members : prunedAt[p] <= now
    /\ prunes \in 0..MaxPrunes /\ pruneId \in [Members -> 0..MaxPrunes]
    /\ EventsInv
    /\ ReturnNoted
    /\ RemovalAwaited

LEMMA AuditConstants ==
    /\ MaxTime \in Nat /\ MaxLines \in Nat /\ Never \in Times /\ Never = -1
    /\ MaxPrunes \in Nat /\ MaxSyncs \in Nat /\ MaxCommands \in Nat /\ Inactive \in Nat
    /\ ReturnCap \in Nat \ {0} /\ PruneCap \in Nat \ {0}
    /\ Members \subseteq Nat /\ IsFiniteSet(Members)
BY AuditAssumption DEF Times, Never

\* Nothing of the prune and its records changes; of the whitelist players go, and
\* players may come to be unrecorded.
LEMMA AuditQuiet ==
    ASSUME AuditInv, now' \in 0..MaxTime, now <= now', UNCHANGED <<prune, returnVars>>,
           whitelist' \subseteq whitelist, unrecorded \subseteq unrecorded'
    PROVE  AuditInv'
  <1>1. /\ MaxTime \in Nat /\ now \in Int /\ now' \in Int /\ UNCHANGED <<prunes, pruneId, prunedAt, events>>
        /\ \A p \in Members : prunedAt[p] \in Int
    BY AuditConstants DEF AuditInv, returnVars
  <1>2. \A p \in Members : prunedAt'[p] <= now'
    BY <1>1 DEF AuditInv
  <1>3. EventsInv'
    <2>1. Len(events) \in Nat /\ \A i \in 1..Len(events) : events[i] \in Return
      BY LenProperties DEF AuditInv, EventsInv
    <2>2. \A i \in 1..Len(events) : events[i].at \in Int
      BY <2>1 DEF Return
    <2> QED
      BY <1>1, <2>2 DEF AuditInv, EventsInv
  <1>4. ReturnNoted' /\ RemovalAwaited'
    BY <1>1 DEF AuditInv, ReturnNoted, RemovalAwaited
  <1> QED
    BY <1>1, <1>2, <1>3, <1>4 DEF AuditInv

LEMMA RemovesType ==
    ASSUME AuditInv, NEW p, ServerRemoves(p)
    PROVE  whitelist' \subseteq whitelist /\ p \notin whitelist'
  BY DEF ServerRemoves

LEMMA AddsType ==
    ASSUME AuditInv, NEW p \in Members, ServerAdds(p)
    PROVE  whitelist' = whitelist \cup {p}
  BY DEF ServerAdds

\* An addition is noted when it follows a removal, and what was noted stays.
LEMMA RecordsAddition ==
    ASSUME AuditInv, NEW p \in Members, RecordAdd(p), now' = now
    PROVE  /\ EventsInv'
           /\ \A i \in 1..Len(events) : i \in 1..Len(events') /\ events'[i] = events[i]
           /\ prunedAt[p] # Never =>
                 \E i \in 1..Len(events') : events'[i].player = p /\ events'[i].of = prunedAt[p]
  <1> DEFINE return == [player |-> p, at |-> now, of |-> prunedAt[p]]
  <1>1. /\ events \in Seq(Return) /\ Len(events) \in Nat /\ DOMAIN events = 1..Len(events)
        /\ now \in Nat /\ \A i \in 1..Len(events) : events[i].at <= now
        /\ \A i, j \in 1..Len(events) : i < j => events[i].at <= events[j].at /\ events[i] # events[j]
    BY AuditConstants, LenProperties DEF AuditInv, EventsInv
  <1>2. prunedAt[p] \in Never..MaxTime /\ prunedAt[p] <= now /\ MaxTime \in Nat
    BY AuditConstants DEF AuditInv
  <1>3. events' = IF prunedAt[p] # Never /\ return \notin Range(events) THEN Append(events, return) ELSE events
    BY <1>2 DEF RecordAdd, SameOrAfter
  <1>4. CASE prunedAt[p] # Never /\ return \notin Range(events)
    <2>1. return \in Return
      BY <1>1, <1>2, <1>4, AuditConstants DEF Return
    <2>2. \A i \in 1..Len(events) : events[i] # return
      BY <1>1, <1>4 DEF Range
    <2>3. return.at = now /\ return.player = p /\ return.of = prunedAt[p]
      OBVIOUS
    <2> HIDE DEF return
    <2>4. /\ events' \in Seq(Return) /\ Len(events') = Len(events) + 1
          /\ events'[Len(events) + 1] = return /\ \A i \in 1..Len(events) : events'[i] = events[i]
      BY <1>1, <1>3, <1>4, <2>1, AppendProperties
    <2>5. \A i \in 1..Len(events') : i \in 1..Len(events) \/ i = Len(events) + 1
      BY <1>1, <2>4
    <2>6. \A i \in 1..Len(events') : events'[i].at <= now'
      BY <1>1, <2>3, <2>4, <2>5
    <2>7. ASSUME NEW i \in 1..Len(events'), NEW j \in 1..Len(events'), i < j
          PROVE  events'[i].at <= events'[j].at /\ events'[i] # events'[j]
      <3>1. i \in 1..Len(events) /\ events'[i] = events[i]
        BY <1>1, <2>4, <2>7
      <3>2. CASE j \in 1..Len(events)
        BY <1>1, <2>4, <2>7, <3>1, <3>2
      <3>3. CASE j = Len(events) + 1
        BY <1>1, <2>2, <2>3, <2>4, <3>1, <3>3
      <3> QED
        BY <2>5, <3>2, <3>3
    <2>8. EventsInv'
      BY <2>4, <2>6, <2>7 DEF EventsInv
    <2>9. Len(events) + 1 \in 1..Len(events') /\ \A i \in 1..Len(events) : i \in 1..Len(events')
      BY <1>1, <2>4
    <2> QED
      BY <2>3, <2>4, <2>8, <2>9
  <1>5. CASE ~ (prunedAt[p] # Never /\ return \notin Range(events))
    <2>1. events' = events
      BY <1>3, <1>5
    <2>2. EventsInv'
      BY <1>1, <2>1 DEF EventsInv
    <2>3. prunedAt[p] # Never => \E i \in 1..Len(events) : events[i] = return
      BY <1>1, <1>5 DEF Range
    <2> QED
      BY <2>1, <2>2, <2>3
  <1> QED
    BY <1>4, <1>5

\* A removal is recorded of a player that is not on the whitelist, or was added past
\* the records.
LEMMA RecordsPrune ==
    ASSUME AuditInv, NEW p \in Members, RecordPrune(p), UNCHANGED <<now, whitelist>>,
           p \notin whitelist \ unrecorded', unrecorded \subseteq unrecorded',
           prune'.todo \subseteq Members, prune'.sent \subseteq Members, RemovalAwaited'
    PROVE  AuditInv'
  <1>1. /\ prunedAt' = [prunedAt EXCEPT ![p] = now] /\ prunes < MaxPrunes /\ prunes' = prunes + 1
        /\ pruneId' = [pruneId EXCEPT ![p] = prunes + 1] /\ events' = events
    BY DEF RecordPrune
  <1>2. /\ MaxTime \in Nat /\ MaxPrunes \in Nat /\ now \in 0..MaxTime /\ now \in Never..MaxTime
        /\ prunes \in 0..MaxPrunes
    BY AuditConstants DEF AuditInv
  <1>3. prunedAt' \in [Members -> Never..MaxTime] /\ \A q \in Members : prunedAt'[q] <= now'
    BY <1>1, <1>2 DEF AuditInv
  <1>4. prunes' \in 0..MaxPrunes /\ pruneId' \in [Members -> 0..MaxPrunes]
    BY <1>1, <1>2 DEF AuditInv
  <1>5. ReturnNoted'
    BY <1>1 DEF AuditInv, ReturnNoted
  <1> QED
    BY <1>1, <1>3, <1>4, <1>5 DEF AuditInv, EventsInv

LEMMA PlanPruneKeeps ==
    ASSUME AuditInv, PlanPrune
    PROVE  AuditInv'
  <1>1. /\ prune'.sent = {} /\ prune'.todo \subseteq whitelist
        /\ UNCHANGED <<now, whitelist, returnVars, unrecorded>>
    BY DEF PlanPrune, SyncEnds, NoPrune
  <1> QED
    BY <1>1 DEF AuditInv, EventsInv, ReturnNoted, RemovalAwaited, returnVars

LEMMA AddMemberKeeps ==
    ASSUME AuditInv, AddMember
    PROVE  AuditInv'
  <1>1. PICK p \in Members :
           /\ ServerAdds(p)
           /\ \/ /\ RecordAdd(p)
                 /\ unrecorded' = IF p \in prune.sent THEN unrecorded \cup {p} ELSE unrecorded \ {p}
              \/ /\ UNCHANGED <<liveRows, events>>
                 /\ unrecorded' = unrecorded \cup {p}
    BY DEF AddMember
  <1>2. whitelist' = whitelist \cup {p} /\ UNCHANGED <<now, prune, prunes, pruneId, prunedAt>>
    BY <1>1, AddsType DEF AddMember
  <1>3. EventsInv' /\ \A i \in 1..Len(events) : i \in 1..Len(events') /\ events'[i] = events[i]
    BY <1>1, <1>2, RecordsAddition DEF AuditInv, EventsInv
  <1>4. ASSUME NEW q \in whitelist' \ unrecorded', prunedAt'[q] # Never
        PROVE  \E i \in 1..Len(events') : events'[i].player = q /\ events'[i].of = prunedAt'[q]
    <2>1. CASE q = p
      <3>1. RecordAdd(p)
        BY <1>1, <1>4, <2>1
      <3> QED
        BY <1>2, <1>4, <2>1, <3>1, RecordsAddition
    <2>2. CASE q # p
      <3>1. q \in whitelist \ unrecorded
        BY <1>1, <1>2, <1>4, <2>2
      <3>2. PICK i \in 1..Len(events) : events[i].player = q /\ events[i].of = prunedAt[q]
        BY <1>2, <1>4, <3>1 DEF AuditInv, ReturnNoted
      <3> QED
        BY <1>2, <1>3, <3>2
    <2> QED
      BY <2>1, <2>2
  <1>5. RemovalAwaited'
    BY <1>1, <1>2 DEF AuditInv, RemovalAwaited
  <1> QED
    BY <1>2, <1>3, <1>4, <1>5 DEF AuditInv, ReturnNoted

LEMMA PruneSendsKeeps ==
    ASSUME AuditInv, PruneSends
    PROVE  AuditInv'
  <1>1. PICK p \in prune.todo, done \in BOOLEAN :
           /\ prune' = [todo |-> prune.todo \ {p}, sent |-> {p}, done |-> done]
           /\ IF done /\ ~elsewhere THEN ServerRemoves(p) ELSE UNCHANGED <<whitelist, serverVars>>
           /\ unrecorded' = IF done /\ elsewhere THEN unrecorded \cup {p} ELSE unrecorded
    BY DEF PruneSends
  <1>2. UNCHANGED <<now, prunes, pruneId, prunedAt, events>>
    BY DEF PruneSends, returnVars
  <1>3. whitelist' \subseteq whitelist /\ (done => p \notin whitelist' \ unrecorded')
    BY <1>1, RemovesType
  <1>4. unrecorded \subseteq unrecorded'
    BY <1>1
  <1> QED
    BY <1>1, <1>2, <1>3, <1>4 DEF AuditInv, EventsInv, ReturnNoted, RemovalAwaited

LEMMA PruneAnsweredKeeps ==
    ASSUME AuditInv, PruneAnswered
    PROVE  AuditInv'
  <1>1. PICK p \in prune.sent :
           \/ prune.done /\ RecordPrune(p)
           \/ UNCHANGED <<liveRows, returnVars>>
    BY DEF PruneAnswered
  <1>2. prune'.sent = {} /\ prune'.todo = prune.todo /\ UNCHANGED <<now, whitelist, unrecorded>>
    BY DEF PruneAnswered
  <1>3. p \in Members /\ prune'.todo \subseteq Members /\ RemovalAwaited'
    BY <1>2 DEF AuditInv, RemovalAwaited
  <1>4. CASE prune.done /\ RecordPrune(p)
    <2>1. p \notin whitelist \ unrecorded
      BY <1>4 DEF AuditInv, RemovalAwaited
    <2> QED
      BY <1>2, <1>3, <1>4, <2>1, RecordsPrune
  <1>5. CASE UNCHANGED returnVars
    BY <1>2, <1>3, <1>5 DEF AuditInv, EventsInv, ReturnNoted, returnVars
  <1> QED
    BY <1>1, <1>4, <1>5

LEMMA CommandElsewhereKeeps ==
    ASSUME AuditInv, CommandElsewhere
    PROVE  AuditInv'
  <1>1. PICK p \in Members :
           \/ RecordAdd(p) /\ UNCHANGED <<prunes, pruneId, prunedAt, unrecorded>>
           \/ RecordLive(p, "removed") /\ UNCHANGED <<returnVars, unrecorded>>
           \/ RecordPrune(p) /\ unrecorded' = unrecorded \cup {p}
    BY DEF CommandElsewhere
  <1>2. UNCHANGED <<now, whitelist, prune>>
    BY DEF CommandElsewhere
  <1>3. CASE RecordAdd(p) /\ UNCHANGED <<prunes, pruneId, prunedAt, unrecorded>>
    <2>1. EventsInv' /\ \A i \in 1..Len(events) : i \in 1..Len(events') /\ events'[i] = events[i]
      BY <1>2, <1>3, RecordsAddition
    <2>2. ReturnNoted'
      <3> SUFFICES ASSUME NEW q \in whitelist \ unrecorded, prunedAt[q] # Never
                   PROVE  \E i \in 1..Len(events') : events'[i].player = q /\ events'[i].of = prunedAt[q]
        BY <1>2, <1>3 DEF ReturnNoted
      <3>1. PICK i \in 1..Len(events) : events[i].player = q /\ events[i].of = prunedAt[q]
        BY DEF AuditInv, ReturnNoted
      <3> QED
        BY <2>1, <3>1
    <2> QED
      BY <1>2, <1>3, <2>1, <2>2 DEF AuditInv, RemovalAwaited
  <1>4. CASE UNCHANGED <<returnVars, unrecorded>>
    BY <1>2, <1>4 DEF AuditInv, EventsInv, ReturnNoted, RemovalAwaited, returnVars
  <1>5. CASE RecordPrune(p) /\ unrecorded' = unrecorded \cup {p}
    <2>1. RemovalAwaited' /\ prune'.todo \subseteq Members /\ prune'.sent \subseteq Members
      BY <1>2, <1>5 DEF AuditInv, RemovalAwaited
    <2> QED
      BY <1>2, <1>5, <2>1, RecordsPrune
  <1> QED
    BY <1>1, <1>3, <1>4, <1>5

LEMMA AuditStep == AuditInv /\ [AuditNext]_auditVars => AuditInv'
  <1> SUFFICES ASSUME AuditInv, [AuditNext]_auditVars PROVE AuditInv'
    OBVIOUS
  <1>1. MaxTime \in Nat /\ now \in 0..MaxTime
    BY AuditConstants DEF AuditInv
  <1>2. CASE TimePasses
    <2>1. now' \in 0..MaxTime /\ now <= now'
      BY <1>1, <1>2 DEF TimePasses
    <2> QED
      BY <1>2, <2>1, AuditQuiet DEF TimePasses
  <1>3. CASE \/ ServerRestarts \/ PlayerSeen \/ SyncStarts \/ SyncTakesSize \/ Refresh \/ SyncElsewhere
             \/ RemoveMember \/ ActivateProfile \/ UNCHANGED auditVars
    <2>1. UNCHANGED <<now, prune, returnVars, unrecorded>> /\ whitelist' \subseteq whitelist
      BY <1>3, RemovesType
         DEF ServerRestarts, PlayerSeen, SyncStarts, SyncTakesSize, Refresh, SyncEnds, SyncElsewhere,
             RemoveMember, ActivateProfile, returnVars, auditVars
    <2> QED
      BY <1>1, <2>1, AuditQuiet
  <1>4. CASE AuditCrash
    <2>1. /\ prune'.sent = {} /\ prune'.todo = {}
          /\ UNCHANGED <<now, whitelist, returnVars, unrecorded>>
      BY <1>4 DEF AuditCrash, NoPrune
    <2> QED
      BY <2>1 DEF AuditInv, EventsInv, ReturnNoted, RemovalAwaited, returnVars
  <1> QED
    BY <1>2, <1>3, <1>4, PlanPruneKeeps, AddMemberKeeps, PruneSendsKeeps, PruneAnsweredKeeps,
       CommandElsewhereKeeps DEF AuditNext

LEMMA AuditStart == AuditInit => AuditInv
  <1> SUFFICES ASSUME AuditInit PROVE AuditInv
    OBVIOUS
  <1>1. events \in Seq(Return) /\ Len(events) = 0
    BY DEF AuditInit
  <1>2. prunedAt = [p \in Members |-> Never] /\ pruneId = [p \in Members |-> 0] /\ now = 0 /\ prunes = 0
    BY DEF AuditInit
  <1>3. prunedAt \in [Members -> Never..MaxTime] /\ pruneId \in [Members -> 0..MaxPrunes]
        /\ now \in 0..MaxTime /\ prunes \in 0..MaxPrunes /\ \A p \in Members : prunedAt[p] <= now
    BY <1>2, AuditConstants
  <1> QED
    BY <1>1, <1>3 DEF AuditInit, AuditInv, EventsInv, ReturnNoted, RemovalAwaited, NoPrune

--------------------------------------------------------------------------------
(* The whitelist audit: the index of the logs.                             *)

\* A log is of one day and in order, and of nothing that is still to come.
OneDay(ls) ==
    \A i, j \in 1..Len(ls) :
        /\ Day(ls[i].at) = Day(ls[j].at)
        /\ i <= j => ls[i].at <= ls[j].at
        /\ ls[i].at <= now

IsLog(ls) == ls \in Seq(Line) /\ ls # << >> /\ OneDay(ls)

\* What a sync has taken of a log that is still there is true of it.
SyncInv ==
    /\ sync \in [step : {"none", "listed", "stat", "stale"}, listed : SUBSET archives,
                 size : 0..MaxLines + 1, day : 0..Day(MaxTime)]
    /\ sync.step = "stat" =>
          /\ sync.size \in 1..Len(log) /\ sync.day = Day(log[1].at)
          /\ ~rotated => cursor.offset <= sync.size
    /\ sync.step = "stale" => rotated

\* Of the log that the cursor is of, it is within, and not on an earlier day.
LogsInv ==
    /\ now \in 0..MaxTime /\ lines \in 0..MaxLines /\ rotated \in BOOLEAN
    /\ cursor \in [offset : 0..MaxLines + 1, date : Nat, clock : 0..1]
    /\ IsLog(log) /\ Len(log) <= lines + 1
    /\ IsFiniteSet(archives) /\ \A a \in archives : IsLog(a)
    /\ emptied \in 0..MaxLines + 1 /\ (rotated => emptied = 0)
    /\ ~rotated => /\ cursor.offset <= Len(log) /\ emptied <= cursor.offset
                   /\ cursor.offset # 0 => cursor.date >= Day(log[1].at)
    /\ SyncInv

\* The line of a player's last sign of life.
TellsOf(line, p) == line.player = p /\ line.event = "seen" /\ line.at = seenAt[p]

\* It is in the index, or a sync will find it, unless one has misread it or its row
\* was deleted.
Traced(p) ==
    \/ seenAt[p] = Never
    \/ p \in blind
    \/ archiveRows[p]["seen"] >= seenAt[p]
    \/ \E a \in archives : \E i \in 1..Len(a) : TellsOf(a[i], p)
    \/ \E i \in 1..Len(log) :
          /\ TellsOf(log[i], p)
          /\ rotated \/ i > cursor.offset \/ i <= emptied \/ liveRows[p]["seen"] >= seenAt[p]

IndexInv ==
    /\ LogsInv
    /\ {archiveRows, liveRows} \subseteq Rows
    /\ seenAt \in [Members -> Never..MaxTime]
    /\ \A p \in Members : Traced(p)

--------------------------------------------------------------------------------
\* Times, days and clocks.
LEMMA HalfDays ==
    ASSUME NEW t \in Nat
    PROVE  /\ Day(t) \in Nat /\ Clock(t) \in 0..1 /\ TimeOf(Day(t), Clock(t)) = t /\ t = 2 * Day(t) + Clock(t)
BY DEF Day, Clock, TimeOf

LEMMA DaysOrdered ==
    ASSUME NEW t \in Nat, NEW u \in Nat, t <= u
    PROVE  Day(t) <= Day(u) /\ (Day(t) = Day(u) => Clock(t) <= Clock(u))
BY DEF Day, Clock

\* The values of a function on a finite set are finitely many.
LEMMA FiniteImage ==
    ASSUME NEW S, IsFiniteSet(S), NEW f
    PROVE  IsFiniteSet({f[x] : x \in S})
  <1> DEFINE T == {f[x] : x \in S}
             g == [x \in S |-> f[x]]
  <1>1. g \in Surjection(S, T)
    BY DEF Surjection
  <1> HIDE DEF T, g
  <1>2. IsFiniteSet(T)
    BY <1>1, FS_Surjection
  <1> QED
    BY <1>2 DEF T

\* A finite set of times has a latest one.
LEMMA FiniteLatest ==
    ASSUME NEW s \in SUBSET Int, IsFiniteSet(s), s # {}
    PROVE  \E x \in s : \A y \in s : x >= y
  <1> DEFINE HasMax(t) == \E x \in t : \A y \in t : x >= y
             S == {k \in Nat : \A t \in SUBSET Int :
                      IsFiniteSet(t) /\ t # {} /\ Cardinality(t) = k => HasMax(t)}
  <1>1. 0 \in S
    BY FS_EmptySet
  <1>2. ASSUME NEW k \in Nat, k \in S PROVE k + 1 \in S
    <2> SUFFICES ASSUME NEW t \in SUBSET Int, IsFiniteSet(t), t # {}, Cardinality(t) = k + 1
                 PROVE  HasMax(t)
      OBVIOUS
    <2> PICK z \in t : TRUE
      OBVIOUS
    <2> DEFINE rest == t \ {z}
    <2>1. IsFiniteSet(rest) /\ Cardinality(rest) = k /\ rest \in SUBSET Int
      <3>1. IsFiniteSet(rest) /\ Cardinality(rest) = Cardinality(t) - 1
        BY FS_RemoveElement
      <3>2. k + 1 - 1 = k
        OBVIOUS
      <3> QED
        BY <3>1, <3>2
    <2>2. CASE rest = {}
      <3>1. \A y \in t : z >= y
        BY <2>2
      <3> QED
        BY <3>1
    <2>3. CASE rest # {}
      <3>1. HasMax(rest)
        BY <1>2, <2>1, <2>3
      <3> PICK x \in rest : \A y \in rest : x >= y
        BY <3>1
      <3>2. \A y \in t : y \in rest \/ y = z
        OBVIOUS
      <3>3. x \in Int /\ z \in Int /\ x \in t
        OBVIOUS
      <3>4. CASE x >= z
        BY <3>2, <3>3, <3>4
      <3>5. CASE z > x
        <4>1. \A y \in t : z >= y
          BY <3>2, <3>3, <3>5
        <4> QED
          BY <4>1
      <3> QED
        BY <3>3, <3>4, <3>5
    <2> QED
      BY <2>2, <2>3
  <1>3. Cardinality(s) \in S
    <2>1. Cardinality(s) \in Nat
      BY FS_CardinalityType
    <2> HIDE DEF S
    <2> QED
      BY <1>1, <1>2, <2>1, Induction
  <1> QED
    BY <1>3

LEMMA LatestOf ==
    ASSUME NEW times \in SUBSET Times, IsFiniteSet(times)
    PROVE  /\ Latest(times) \in Times
           /\ \A t \in times : Latest(times) >= t
  <1> DEFINE all == times \cup {Never}
  <1>1. all \in SUBSET Int /\ all \subseteq Times /\ all # {} /\ IsFiniteSet(all)
    BY FS_AddElement DEF Times, Never
  <1> HIDE DEF all
  <1>2. \E x \in all : \A y \in all : x >= y
    BY <1>1, FiniteLatest
  <1>3. Max(all) \in all /\ \A y \in all : Max(all) >= y
    BY <1>2 DEF Max
  <1> QED
    BY <1>1, <1>3 DEF Latest, all

LEMMA LatestOfTwo ==
    ASSUME NEW t \in Times, NEW u \in Times
    PROVE  Latest({t, u}) \in Times /\ Latest({t, u}) >= t /\ Latest({t, u}) >= u
  <1> DEFINE both == {t, u}
  <1>1. both \in SUBSET Times /\ t \in both /\ u \in both
    OBVIOUS
  <1>2. IsFiniteSet(both)
    <2>1. IsFiniteSet({t} \cup {u})
      BY FS_Singleton, FS_AddElement
    <2>2. {t} \cup {u} = both
      OBVIOUS
    <2> QED
      BY <2>1, <2>2
  <1> HIDE DEF both
  <1>3. Latest(both) \in Times /\ Latest(both) >= t /\ Latest(both) >= u
    BY <1>1, <1>2, LatestOf
  <1> QED
    BY <1>3 DEF both

--------------------------------------------------------------------------------
\* The dates that the index gives the lines of one day: from the date on, and one
\* later when the first is of an earlier time of the day than the one before.
LEMMA DatesOfDay ==
    ASSUME NEW ls \in Seq(Line), OneDay(ls), NEW date \in Int, NEW clock \in 0..1
    PROVE  /\ DOMAIN Dates(ls, date, clock) = 1..Len(ls)
           /\ \A i \in 1..Len(ls) :
                 Dates(ls, date, clock)[i] = IF Clock(ls[1].at) < clock THEN date + 1 ELSE date
  <1>1. Len(ls) \in Nat /\ DOMAIN ls = 1..Len(ls) /\ \A i \in 1..Len(ls) : ls[i] \in Line
    BY LenProperties
  <1>2. \A i \in 1..Len(ls) : ls[i].at \in Nat
    BY <1>1, AuditAssumption DEF Line
  <1> SUFFICES ASSUME NEW i \in 1..Len(ls)
               PROVE  Dates(ls, date, clock)[i] = IF Clock(ls[1].at) < clock THEN date + 1 ELSE date
    BY <1>1 DEF Dates
  <1> DEFINE back == {k \in 1..i : Clock(ls[k].at) < IF k = 1 THEN clock ELSE Clock(ls[k - 1].at)}
  <1>3. \A k \in 1..i : k # 1 => k \notin back
    <2> SUFFICES ASSUME NEW k \in 1..i, k # 1 PROVE ~ (Clock(ls[k].at) < Clock(ls[k - 1].at))
      OBVIOUS
    <2>1. k \in 1..Len(ls) /\ k - 1 \in 1..Len(ls) /\ k - 1 <= k
      BY <1>1
    <2>2. Day(ls[k - 1].at) = Day(ls[k].at) /\ ls[k - 1].at <= ls[k].at
      BY <2>1 DEF OneDay
    <2>3. ls[k].at \in Nat /\ ls[k - 1].at \in Nat
      BY <1>2, <2>1
    <2>4. Clock(ls[k - 1].at) <= Clock(ls[k].at) /\ Clock(ls[k].at) \in 0..1 /\ Clock(ls[k - 1].at) \in 0..1
      BY <2>2, <2>3, DaysOrdered, HalfDays
    <2> QED
      BY <2>4
  <1>4. 1 \in 1..i /\ (1 \in back <=> Clock(ls[1].at) < clock)
    BY <1>1
  <1>5. Cardinality(back) = IF Clock(ls[1].at) < clock THEN 1 ELSE 0
    <2>1. CASE Clock(ls[1].at) < clock
      <3>1. back = {1}
        BY <1>3, <1>4, <2>1
      <3> QED
        BY <2>1, <3>1, FS_Singleton
    <2>2. CASE ~ (Clock(ls[1].at) < clock)
      <3>1. back = {}
        BY <1>3, <1>4, <2>2
      <3> QED
        BY <2>2, <3>1, FS_EmptySet
    <2> QED
      BY <2>1, <2>2
  <1>6. Dates(ls, date, clock)[i] = date + Cardinality(back)
    BY <1>1 DEF Dates
  <1> HIDE DEF back
  <1> QED
    BY <1>5, <1>6

--------------------------------------------------------------------------------
\* The server writes a line, to its log or to a new one.
Writes(line) ==
    /\ line \in Line /\ line.at = now
    /\ lines < MaxLines /\ lines' = lines + 1
    /\ \/ Day(now) = Day(Last(log).at) /\ log' = Append(log, line)
          /\ UNCHANGED <<archives, rotated, emptied, sync>>
       \/ Rotate(line)

LEMMA LogLineWrites ==
    ASSUME now \in 0..MaxTime, NEW p \in Members, NEW event \in Events, LogLine(p, event)
    PROVE  Writes([player |-> p, event |-> event, at |-> now])
BY DEF LogLine, Writes, Line

LEMMA BootWrites ==
    ASSUME now \in 0..MaxTime, lines < MaxLines, lines' = lines + 1, Rotate(Boot)
    PROVE  Writes(Boot)
BY DEF Writes, Line, Boot, Events

LEMMA LogLines ==
    ASSUME NEW ls, IsLog(ls)
    PROVE  /\ Len(ls) \in Nat \ {0} /\ DOMAIN ls = 1..Len(ls)
           /\ \A i \in 1..Len(ls) : ls[i] \in Line /\ ls[i].at \in Nat /\ ls[i].at \in 0..MaxTime
           /\ Last(ls) = ls[Len(ls)]
  <1>1. Len(ls) \in Nat \ {0} /\ DOMAIN ls = 1..Len(ls) /\ \A i \in 1..Len(ls) : ls[i] \in Line
    BY LenProperties, EmptySeq DEF IsLog
  <1>2. \A l \in Line : l.at \in Nat /\ l.at \in 0..MaxTime
    BY AuditAssumption DEF Line
  <1> QED
    BY <1>1, <1>2 DEF Last

\* A written line is the last of the log, which goes on or has become an archive.
LEMMA WritesLog ==
    ASSUME LogsInv, NEW line, Writes(line)
    PROVE  \/ /\ Len(log') = Len(log) + 1 /\ log'[Len(log')] = line
              /\ \A i \in 1..Len(log) : log'[i] = log[i]
              /\ IsLog(log')
              /\ UNCHANGED <<archives, rotated, emptied, sync>>
           \/ /\ Len(log') = 1 /\ log'[1] = line
              /\ IsLog(log')
              /\ archives' = archives \cup {log} /\ rotated' = TRUE /\ emptied' = 0
              /\ sync' = IF sync.step = "stat" THEN [sync EXCEPT !.step = "stale"] ELSE sync
  <1>1. IsLog(log) /\ line \in Line /\ line.at = now /\ now \in Nat
    BY AuditConstants DEF LogsInv, Writes
  <1>2. /\ Len(log) \in Nat \ {0} /\ \A i \in 1..Len(log) : log[i] \in Line /\ log[i].at \in Nat
        /\ Last(log) = log[Len(log)]
    BY <1>1, LogLines
  <1>3. CASE Day(now) = Day(Last(log).at) /\ log' = Append(log, line)
             /\ UNCHANGED <<archives, rotated, emptied, sync>>
    <2>1. /\ log' \in Seq(Line) /\ Len(log') = Len(log) + 1
          /\ log'[Len(log) + 1] = line /\ \A i \in 1..Len(log) : log'[i] = log[i]
      BY <1>1, <1>3, AppendProperties DEF IsLog
    <2>2. log' # << >>
      BY <1>2, <2>1, EmptySeq
    <2>3. OneDay(log')
      <3> SUFFICES ASSUME NEW i \in 1..Len(log'), NEW j \in 1..Len(log')
                   PROVE  /\ Day(log'[i].at) = Day(log'[j].at)
                          /\ i <= j => log'[i].at <= log'[j].at
                          /\ log'[i].at <= now
        BY DEF OneDay
      <3>1. \A k \in 1..Len(log') : /\ k \in 1..Len(log) => /\ log'[k] = log[k] /\ Day(log[k].at) = Day(now)
                                                            /\ log[k].at <= now
                                    /\ k \notin 1..Len(log) => k = Len(log) + 1 /\ log'[k] = line
        <4>1. \A k \in 1..Len(log) : Day(log[k].at) = Day(log[Len(log)].at) /\ log[k].at <= now
          BY <1>1, <1>2 DEF IsLog, OneDay
        <4> QED
          BY <1>2, <1>3, <2>1, <4>1
      <3>2. i \in 1..Len(log) /\ j \in 1..Len(log) /\ i <= j => log[i].at <= log[j].at
        BY <1>1 DEF IsLog, OneDay
      <3> QED
        BY <1>1, <1>2, <2>1, <3>1, <3>2
    <2> QED
      BY <1>3, <2>1, <2>2, <2>3 DEF IsLog
  <1>4. CASE Rotate(line)
    <2>1. /\ log' = <<line>> /\ archives' = archives \cup {log} /\ rotated' = TRUE /\ emptied' = 0
          /\ sync' = IF sync.step = "stat" THEN [sync EXCEPT !.step = "stale"] ELSE sync
      BY <1>4 DEF Rotate
    <2>2. log' \in Seq(Line) /\ Len(log') = 1 /\ log'[1] = line /\ log' # << >>
      BY <1>1, <2>1
    <2>3. OneDay(log')
      BY <1>1, <2>2 DEF OneDay
    <2> QED
      BY <2>1, <2>2, <2>3 DEF IsLog
  <1> QED
    BY <1>3, <1>4 DEF Writes

LEMMA WritesKeepsLogs ==
    ASSUME LogsInv, NEW line, Writes(line), UNCHANGED <<now, cursor>>
    PROVE  LogsInv'
  <1>1. /\ now \in Nat /\ lines \in Nat /\ lines' \in 0..MaxLines /\ line.at = now
        /\ lines' = lines + 1 /\ rotated \in BOOLEAN /\ cursor.offset \in Nat
    BY AuditConstants DEF LogsInv, Writes
  <1>2. IsLog(log) /\ Len(log) <= lines + 1 /\ IsFiniteSet(archives) /\ \A a \in archives : IsLog(a)
    BY DEF LogsInv
  <1>3. Len(log) \in Nat \ {0} /\ \A i \in 1..Len(log) : log[i].at \in Nat
    BY <1>2, LogLines
  <1>4. \A a : IsLog(a) => IsLog(a)'
    BY DEF IsLog, OneDay
  <1>5. CASE /\ Len(log') = Len(log) + 1 /\ log'[Len(log')] = line
             /\ \A i \in 1..Len(log) : log'[i] = log[i]
             /\ IsLog(log')
             /\ UNCHANGED <<archives, rotated, emptied, sync>>
    <2>1. log'[1] = log[1]
      BY <1>3, <1>5
    <2>2. ~rotated' => /\ cursor'.offset <= Len(log') /\ emptied' <= cursor'.offset
                       /\ cursor'.offset # 0 => cursor'.date >= Day(log'[1].at)
      <3>1. ~rotated => /\ cursor.offset <= Len(log) /\ emptied <= cursor.offset
                        /\ cursor.offset # 0 => cursor.date >= Day(log[1].at)
        BY DEF LogsInv
      <3> QED
        BY <1>1, <1>3, <1>5, <2>1, <3>1
    <2>3. SyncInv'
      <3>1. sync.step = "stat" => sync.size \in 1..Len(log')
        BY <1>3, <1>5 DEF LogsInv, SyncInv
      <3> QED
        BY <1>5, <2>1, <3>1 DEF LogsInv, SyncInv
    <2>4. IsLog(log)' /\ Len(log') <= lines' + 1 /\ IsFiniteSet(archives') /\ \A a \in archives' : IsLog(a)'
      BY <1>1, <1>2, <1>3, <1>4, <1>5
    <2> QED
      BY <1>1, <1>5, <2>2, <2>3, <2>4 DEF LogsInv
  <1>6. CASE /\ Len(log') = 1 /\ log'[1] = line
             /\ IsLog(log')
             /\ archives' = archives \cup {log} /\ rotated' = TRUE /\ emptied' = 0
             /\ sync' = IF sync.step = "stat" THEN [sync EXCEPT !.step = "stale"] ELSE sync
    <2>1. SyncInv'
      BY <1>6 DEF LogsInv, SyncInv
    <2>2. IsLog(log)' /\ Len(log') <= lines' + 1 /\ IsFiniteSet(archives') /\ \A a \in archives' : IsLog(a)'
      BY <1>1, <1>2, <1>4, <1>6, FS_AddElement
    <2>3. emptied' \in 0..MaxLines + 1
      BY <1>6, AuditConstants
    <2> QED
      BY <1>1, <1>6, <2>1, <2>2, <2>3 DEF LogsInv
  <1> QED
    BY <1>5, <1>6, WritesLog

LEMMA WritesTraced ==
    ASSUME LogsInv, NEW line, Writes(line), UNCHANGED <<cursor, archiveRows, blind>>,
           NEW p \in Members, seenAt'[p] = seenAt[p], liveRows'[p]["seen"] = liveRows[p]["seen"], Traced(p)
    PROVE  Traced(p)'
  <1>1. \A l : TellsOf(l, p)' <=> TellsOf(l, p)
    BY DEF TellsOf
  <1>2. Len(log) \in Nat \ {0}
    BY LogLines DEF LogsInv
  <1>3. CASE /\ Len(log') = Len(log) + 1 /\ log'[Len(log')] = line
             /\ \A i \in 1..Len(log) : log'[i] = log[i]
             /\ IsLog(log')
             /\ UNCHANGED <<archives, rotated, emptied, sync>>
    <2>1. \A i \in 1..Len(log) : i \in 1..Len(log')
      BY <1>2, <1>3
    <2> QED
      BY <1>1, <1>3, <2>1 DEF Traced
  <1>4. CASE /\ Len(log') = 1 /\ log'[1] = line
             /\ IsLog(log')
             /\ archives' = archives \cup {log} /\ rotated' = TRUE
    BY <1>1, <1>4 DEF Traced
  <1> QED
    BY <1>3, <1>4, WritesLog

LEMMA WritesTold ==
    ASSUME LogsInv, NEW line, Writes(line), UNCHANGED cursor, NEW p \in Members, TellsOf(line, p)'
    PROVE  Traced(p)'
  <1>1. Len(log) \in Nat \ {0} /\ cursor.offset \in Nat
    BY LogLines, AuditConstants DEF LogsInv
  <1>2. ~rotated => cursor.offset <= Len(log)
    BY DEF LogsInv
  <1>3. Len(log') \in 1..Len(log') /\ log'[Len(log')] = line /\ (rotated' \/ Len(log') > cursor'.offset)
    <2>1. CASE /\ Len(log') = Len(log) + 1 /\ log'[Len(log')] = line
               /\ UNCHANGED <<archives, rotated, emptied, sync>>
      BY <1>1, <1>2, <2>1
    <2>2. CASE Len(log') = 1 /\ log'[1] = line /\ rotated' = TRUE
      BY <2>2
    <2> QED
      BY <2>1, <2>2, WritesLog
  <1> QED
    BY <1>3 DEF Traced

--------------------------------------------------------------------------------
\* What a sync reads of latest.log, and from which date and clock on: from no
\* earlier day than the lines', unless the log is another than the one it knows.
Reads == sync.step \in {"stat", "stale"}
Current == sync.step = "stat" /\ (Start = 0 \/ ~rotated)

LEMMA StartTimes ==
    ASSUME LogsInv, Reads
    PROVE  /\ Start \in Nat /\ StartDate \in Nat /\ StartClock \in 0..1
           /\ Start = 0 => StartClock = 0 /\ StartDate = sync.day
           /\ Current => Start <= Len(log) /\ \A i \in 1..Len(log) : StartDate >= Day(log[i].at)
  <1>1. /\ Len(log) \in Nat \ {0} /\ \A i \in 1..Len(log) : log[i].at \in Nat
    BY LogLines DEF LogsInv
  <1>2. \A i \in 1..Len(log) : Day(log[i].at) = Day(log[1].at) /\ Day(log[i].at) \in Nat
    <2>1. 1 \in 1..Len(log)
      BY <1>1
    <2> QED
      BY <1>1, <2>1, HalfDays DEF LogsInv, IsLog, OneDay
  <1>3. /\ cursor.offset \in Nat /\ cursor.date \in Nat /\ cursor.clock \in 0..1 /\ Day(MaxTime) \in Nat
        /\ sync.size \in Nat /\ sync.day \in Nat
    BY AuditConstants, HalfDays DEF LogsInv, SyncInv
  <1>4. Start = IF Rotated(cursor) THEN 0 ELSE cursor.offset
    BY DEF Start
  <1>5. Current => Start <= Len(log)
    BY <1>1, <1>3, <1>4 DEF Current, LogsInv
  <1>6. CASE Start = 0
    <2>1. StartDate = sync.day /\ StartClock = 0
      BY <1>6 DEF StartDate, StartClock
    <2>2. Current => sync.day = Day(log[1].at)
      BY DEF Current, LogsInv, SyncInv
    <2> QED
      BY <1>2, <1>3, <1>5, <1>6, <2>1, <2>2
  <1>7. CASE Start # 0
    <2>1. Start = cursor.offset /\ StartDate = cursor.date /\ StartClock = cursor.clock
      BY <1>4, <1>7 DEF StartDate, StartClock
    <2>2. ~rotated => cursor.date >= Day(log[1].at)
      BY <1>7, <2>1 DEF LogsInv
    <2> QED
      BY <1>2, <1>3, <1>5, <1>7, <2>1, <2>2 DEF Current
  <1> QED
    BY <1>6, <1>7

LEMMA UnreadLines ==
    ASSUME LogsInv, Reads, NEW readable \in BOOLEAN
    PROVE  /\ Unread(readable) \in Seq(Line) /\ OneDay(Unread(readable))
           /\ readable /\ Start <= Len(log) => Len(Unread(readable)) = Len(log) - Start
           /\ ~readable => Unread(readable) = << >>
           /\ \A i \in 1..Len(Unread(readable)) : Start + i \in 1..Len(log) /\ Unread(readable)[i] = log[Start + i]
  <1>1. /\ Len(log) \in Nat \ {0} /\ \A i \in 1..Len(log) : log[i] \in Line
        /\ Start \in Nat
    BY LogLines, StartTimes DEF LogsInv
  <1>2. CASE ~readable
    BY <1>2, EmptySeq DEF Unread, OneDay
  <1>3. CASE readable
    <2> DEFINE m == Start + 1
               ls == SubSeq(log, m, Len(log))
    <2>1. Unread(readable) = ls
      BY <1>3 DEF Unread
    <2>2. m \in Int /\ Len(log) \in Int /\ \A i \in m..Len(log) : log[i] \in Line
      BY <1>1
    <2>3. /\ ls \in Seq(Line) /\ Len(ls) = IF m <= Len(log) THEN Len(log) - m + 1 ELSE 0
          /\ \A i \in 1..(Len(log) - m + 1) : ls[i] = log[m + i - 1]
      <3> HIDE DEF m
      <3> QED
        BY <2>2, SubSeqProperties
    <2>4. /\ Start <= Len(log) => Len(ls) = Len(log) - Start
          /\ \A i \in 1..Len(ls) : Start + i \in 1..Len(log) /\ ls[i] = log[Start + i]
      <3>1. Len(ls) = IF Start <= Len(log) THEN Len(log) - Start ELSE 0
        BY <1>1, <2>3
      <3>2. Len(log) - m + 1 = Len(log) - Start
        BY <1>1
      <3>3. \A i \in 1..(Len(log) - Start) : m + i - 1 = Start + i /\ Start + i \in 1..Len(log)
        BY <1>1
      <3> HIDE DEF ls
      <3> QED
        BY <2>3, <3>1, <3>2, <3>3
    <2> HIDE DEF ls
    <2>5. OneDay(ls)
      <3> SUFFICES ASSUME NEW i \in 1..Len(ls), NEW j \in 1..Len(ls)
                   PROVE  /\ Day(ls[i].at) = Day(ls[j].at)
                          /\ i <= j => ls[i].at <= ls[j].at
                          /\ ls[i].at <= now
        BY DEF OneDay
      <3>1. ls[i] = log[Start + i] /\ ls[j] = log[Start + j] /\ Start + i \in 1..Len(log) /\ Start + j \in 1..Len(log)
        BY <2>4
      <3>2. i <= j => Start + i <= Start + j
        BY <1>1, <2>4
      <3>3. OneDay(log)
        BY DEF LogsInv, IsLog
      <3> QED
        BY <3>1, <3>2, <3>3 DEF OneDay
    <2> QED
      BY <1>3, <2>1, <2>3, <2>4, <2>5
  <1> QED
    BY <1>2, <1>3


\* The dates that a sync gives the lines it reads: never earlier than the true ones,
\* unless the log is another than the one it knows.
ReadDates(readable) == Aligned(Dates(Unread(readable), StartDate, StartClock))

LEMMA DatesRead ==
    ASSUME LogsInv, Reads, NEW readable \in BOOLEAN
    PROVE  LET ls == Unread(readable)
               dates == ReadDates(readable)
           IN  /\ DOMAIN dates = 1..Len(ls)
               /\ ls # << >> => Len(ls) \in 1..Len(ls) /\ Last(dates) = dates[Len(ls)] /\ Last(ls) = ls[Len(ls)]
               /\ \A i \in 1..Len(ls) : dates[i] \in Nat /\ (Current => dates[i] >= Day(ls[i].at))
  <1> DEFINE ls == Unread(readable)
             raw == Dates(ls, StartDate, StartClock)
             d == IF Clock(ls[1].at) < StartClock THEN StartDate + 1 ELSE StartDate
  <1>1. /\ ls \in Seq(Line) /\ OneDay(ls)
        /\ \A i \in 1..Len(ls) : Start + i \in 1..Len(log) /\ ls[i] = log[Start + i]
    BY UnreadLines
  <1>2. /\ Start \in Nat /\ StartDate \in Nat /\ StartClock \in 0..1
        /\ Start = 0 => StartClock = 0 /\ StartDate = sync.day
        /\ Current => \A i \in 1..Len(log) : StartDate >= Day(log[i].at)
    BY StartTimes
  <1>3. Len(ls) \in Nat /\ \A i \in 1..Len(ls) : ls[i].at \in Nat
    <2>1. \A i \in 1..Len(log) : log[i].at \in Nat
      BY LogLines DEF LogsInv
    <2> HIDE DEF ls
    <2> QED
      BY <1>1, <2>1, LenProperties
  <1> HIDE DEF ls
  <1>4. DOMAIN raw = 1..Len(ls) /\ \A i \in 1..Len(ls) : raw[i] = d
    <2>1. StartDate \in Int
      BY <1>2
    <2> QED
      BY <1>1, <1>2, <2>1, DatesOfDay
  <1> HIDE DEF raw
  <1>5. d \in Nat /\ d >= StartDate
    BY <1>2
  <1>6. Start = 0 /\ 1 \in 1..Len(ls) => d = sync.day
    <2>1. 1 \in 1..Len(ls) => Clock(ls[1].at) \in 0..1
      BY <1>3, HalfDays
    <2> QED
      BY <1>2, <2>1
  <1> HIDE DEF d
  <1>7. ASSUME NEW i \in 1..Len(ls), Current PROVE d >= Day(ls[i].at)
    <2>1. StartDate >= Day(ls[i].at) /\ Day(ls[i].at) \in Nat
      BY <1>1, <1>2, <1>3, <1>7, HalfDays
    <2> QED
      BY <1>2, <1>5, <2>1
  <1>8. ls # << >> => /\ Len(ls) \in 1..Len(ls) /\ 1 \in 1..Len(ls) /\ Last(ls) = ls[Len(ls)]
                      /\ Last(raw) = raw[Len(ls)]
    <2> SUFFICES ASSUME ls # << >>
                 PROVE  /\ Len(ls) \in 1..Len(ls) /\ 1 \in 1..Len(ls) /\ Last(ls) = ls[Len(ls)]
                        /\ Last(raw) = raw[Len(ls)]
      OBVIOUS
    <2>1. Len(ls) \in Nat \ {0}
      BY <1>1, EmptySeq
    <2>2. raw = [i \in 1..Len(ls) |-> raw[i]]
      <3>1. raw = [i \in DOMAIN raw |-> raw[i]]
        BY Zenon DEF raw, Dates
      <3> QED
        BY <1>4, <3>1
    <2>3. raw \in Seq(Int) /\ Len(raw) = Len(ls)
      <3>1. raw \in [1..Len(ls) -> Int]
        BY <1>4, <1>5, <2>2
      <3>2. raw \in Seq(Int)
        BY <1>3, <3>1, SeqDef
      <3>3. Len(raw) \in Nat /\ DOMAIN raw = 1..Len(raw)
        BY <3>2, LenProperties
      <3> QED
        BY <1>3, <1>4, <3>2, <3>3
    <2> QED
      BY <2>1, <2>3 DEF Last
  <1>9. Aligned(raw) = raw
    <2> SUFFICES ASSUME Start = 0, raw # << >> PROVE ~ (Last(raw) > sync.day)
      BY DEF Aligned
    <2>1. CASE ls = << >>
      <3>1. Len(ls) = 0
        BY <2>1, EmptySeq
      <3>2. raw = << >>
        <4>1. raw = [i \in DOMAIN raw |-> raw[i]]
          BY Zenon DEF raw, Dates
        <4>2. DOMAIN raw = {}
          BY <1>4, <3>1
        <4> QED
          BY <4>1, <4>2
      <3> QED
        BY <3>2
    <2>2. CASE ls # << >>
      <3>1. Last(raw) = sync.day
        BY <1>4, <1>6, <1>8, <2>2
      <3>2. sync.day \in Int
        BY <1>5, <1>6, <1>8, <2>2
      <3> QED
        BY <3>1, <3>2
    <2> QED
      BY <2>1, <2>2
  <1>10. ReadDates(readable) = raw
    BY <1>9 DEF ReadDates, raw, ls
  <1> QED
    BY <1>4, <1>5, <1>7, <1>8, <1>10 DEF ls

--------------------------------------------------------------------------------
\* What a sync enters into the tables.
LEMMA DeltaOf ==
    ASSUME NEW ls \in Seq(Line), NEW dates, NEW p, NEW event,
           \A i \in 1..Len(ls) : TimeOf(dates[i], Clock(ls[i].at)) \in Times
    PROVE  /\ Delta(p, event, ls, dates) \in Times
           /\ \A i \in 1..Len(ls) :
                 ls[i].player = p /\ ls[i].event = event =>
                     Delta(p, event, ls, dates) >= TimeOf(dates[i], Clock(ls[i].at))
  <1> DEFINE times == {TimeOf(dates[i], Clock(ls[i].at)) :
                         i \in {k \in DOMAIN ls : ls[k].player = p /\ ls[k].event = event}}
  <1>1. DOMAIN ls = 1..Len(ls)
    BY LenProperties
  <1>2. times \in SUBSET Times /\ IsFiniteSet(times)
    <2> DEFINE K == {k \in DOMAIN ls : ls[k].player = p /\ ls[k].event = event}
               f == [i \in 1..Len(ls) |-> TimeOf(dates[i], Clock(ls[i].at))]
    <2>1. K \in SUBSET (1..Len(ls)) /\ IsFiniteSet(1..Len(ls))
      BY <1>1, LenProperties, FS_Interval
    <2>2. IsFiniteSet(K)
      <3> HIDE DEF K
      <3> QED
        BY <2>1, FS_Subset
    <2>3. times = {f[i] : i \in K}
      BY <1>1
    <2>4. IsFiniteSet({f[i] : i \in K})
      <3> HIDE DEF K, f
      <3> QED
        BY <2>2, FiniteImage
    <2>5. times \in SUBSET Times
      BY <1>1
    <2> QED
      BY <2>3, <2>4, <2>5
  <1>3. \A i \in 1..Len(ls) :
            ls[i].player = p /\ ls[i].event = event => TimeOf(dates[i], Clock(ls[i].at)) \in times
    BY <1>1
  <1>4. Delta(p, event, ls, dates) = Latest(times)
    BY DEF Delta
  <1> HIDE DEF times
  <1> QED
    BY <1>2, <1>3, <1>4, LatestOf

LEMMA MergedRows ==
    ASSUME NEW rows \in Rows, NEW other \in Rows
    PROVE  /\ Merged(rows, other) \in Rows
           /\ \A p \in Members, e \in Events :
                 /\ Merged(rows, other)[p][e] \in Times
                 /\ Merged(rows, other)[p][e] >= rows[p][e]
                 /\ Merged(rows, other)[p][e] >= other[p][e]
  <1>1. \A p \in Members, e \in Events : rows[p][e] \in Times /\ other[p][e] \in Times
    BY DEF Rows
  <1>2. ASSUME NEW p \in Members, NEW e \in Events
        PROVE  /\ Latest({rows[p][e], other[p][e]}) \in Times
               /\ Latest({rows[p][e], other[p][e]}) >= rows[p][e]
               /\ Latest({rows[p][e], other[p][e]}) >= other[p][e]
    BY <1>1, LatestOfTwo
  <1> QED
    BY <1>2 DEF Merged, Rows

\* The lines of an archive that were read are entered with their day.
LEMMA ArchiveRead ==
    ASSUME NEW a, IsLog(a), NEW n \in 0..Len(a), NEW p, NEW event
    PROVE  LET known == Delta(p, event, SubSeq(a, 1, n), [i \in 1..n |-> Day(a[1].at)])
           IN  /\ known \in Times
               /\ \A i \in 1..n : a[i].player = p /\ a[i].event = event => known >= a[i].at
  <1> DEFINE ls == SubSeq(a, 1, n)
             dates == [i \in 1..n |-> Day(a[1].at)]
  <1>1. Len(a) \in Nat \ {0} /\ \A i \in 1..Len(a) : a[i] \in Line /\ a[i].at \in Nat /\ a[i].at \in 0..MaxTime
    BY LogLines
  <1>2. ls \in Seq(Line) /\ Len(ls) = n /\ \A i \in 1..n : ls[i] = a[i]
    <2>1. \A i \in 1..n : a[i] \in Line
      BY <1>1
    <2>2. /\ ls \in Seq(Line) /\ Len(ls) = IF 1 <= n THEN n - 1 + 1 ELSE 0
          /\ \A i \in 1..(n - 1 + 1) : ls[i] = a[1 + i - 1]
      BY <1>1, <2>1, SubSeqProperties
    <2> HIDE DEF ls
    <2> QED
      BY <1>1, <2>2
  <1>3. \A i \in 1..n : TimeOf(dates[i], Clock(ls[i].at)) = a[i].at /\ a[i].at \in Times
    <2> SUFFICES ASSUME NEW i \in 1..n PROVE TimeOf(dates[i], Clock(ls[i].at)) = a[i].at /\ a[i].at \in Times
      OBVIOUS
    <2>1. i \in 1..Len(a) /\ 1 \in 1..Len(a)
      BY <1>1
    <2>2. Day(a[1].at) = Day(a[i].at)
      BY <2>1 DEF IsLog, OneDay
    <2>3. TimeOf(Day(a[i].at), Clock(a[i].at)) = a[i].at
      BY <1>1, <2>1, HalfDays
    <2>4. dates[i] = Day(a[1].at)
      OBVIOUS
    <2>5. a[i].at \in Times
      BY <1>1, <2>1, AuditConstants DEF Times
    <2> QED
      BY <1>2, <2>2, <2>3, <2>4, <2>5
  <1> HIDE DEF ls, dates
  <1>4. \A i \in 1..Len(ls) : TimeOf(dates[i], Clock(ls[i].at)) \in Times
    BY <1>2, <1>3
  <1>5. /\ Delta(p, event, ls, dates) \in Times
        /\ \A i \in 1..Len(ls) :
              ls[i].player = p /\ ls[i].event = event =>
                  Delta(p, event, ls, dates) >= TimeOf(dates[i], Clock(ls[i].at))
    BY <1>2, <1>4, DeltaOf
  <1> QED
    BY <1>2, <1>3, <1>5 DEF ls, dates

LEMMA ArchivesRead ==
    ASSUME IsFiniteSet(sync.listed), \A a \in sync.listed : IsLog(a),
           NEW read, \A a \in sync.listed : read[a] \in 0..Len(a)
    PROVE  /\ FromArchives(read) \in Rows
           /\ \A p \in Members, a \in sync.listed, event \in Events :
                 \A i \in 1..read[a] :
                     a[i].player = p /\ a[i].event = event => FromArchives(read)[p][event] >= a[i].at
  <1> DEFINE known(p, event, a) == Delta(p, event, SubSeq(a, 1, read[a]), [i \in 1..read[a] |-> Day(a[1].at)])
  <1>1. ASSUME NEW p \in Members, NEW event \in Events
        PROVE  /\ FromArchives(read)[p][event] \in Times
               /\ \A a \in sync.listed : FromArchives(read)[p][event] >= known(p, event, a)
    <2> DEFINE times == {known(p, event, a) : a \in sync.listed}
    <2>1. \A a \in sync.listed : known(p, event, a) \in Times
      BY ArchiveRead
    <2> HIDE DEF known
    <2>4. IsFiniteSet(times)
      <3> DEFINE f == [a \in sync.listed |-> known(p, event, a)]
      <3>1. times = {f[a] : a \in sync.listed}
        OBVIOUS
      <3>2. IsFiniteSet({f[a] : a \in sync.listed})
        <4> HIDE DEF f
        <4> QED
          BY FiniteImage
      <3> QED
        BY <3>1, <3>2
    <2>2. times \in SUBSET Times /\ \A a \in sync.listed : known(p, event, a) \in times
      BY <2>1
    <2>3. FromArchives(read)[p][event] = Latest(times)
      BY DEF FromArchives, known
    <2> HIDE DEF times
    <2> QED
      BY <2>2, <2>3, <2>4, LatestOf
  <1>2. FromArchives(read) = [p \in Members |-> [e \in Events |-> FromArchives(read)[p][e]]]
    BY DEF FromArchives
  <1>3. FromArchives(read) \in Rows
    BY <1>1, <1>2 DEF Rows
  <1>4. ASSUME NEW p \in Members, NEW a \in sync.listed, NEW event \in Events, NEW i \in 1..read[a],
               a[i].player = p, a[i].event = event
        PROVE  FromArchives(read)[p][event] >= a[i].at
    <2>1. known(p, event, a) \in Times /\ known(p, event, a) >= a[i].at
      BY <1>4, ArchiveRead
    <2>2. a[i].at \in Nat
      BY LogLines
    <2> HIDE DEF known
    <2>3. FromArchives(read)[p][event] >= known(p, event, a) /\ FromArchives(read)[p][event] \in Times
      BY <1>1
    <2> QED
      BY <2>1, <2>2, <2>3, AuditConstants DEF Times
  <1> QED
    BY <1>3, <1>4


--------------------------------------------------------------------------------
\* A sync with its choices.
LiveRead(readable) ==
    [p \in Members |-> [e \in Events |-> Delta(p, e, Unread(readable), ReadDates(readable))]]

SyncOf(readable, read) ==
    LET ls == Unread(readable)
        dates == ReadDates(readable)
    IN  /\ \A a \in sync.listed : read[a] <= Len(a)
        /\ archiveRows' = Merged(archiveRows, FromArchives(read))
        /\ archives' = archives \ sync.listed
        /\ liveRows' = Merged(IF Rotated(cursor) THEN NoRows ELSE liveRows, LiveRead(readable))
        /\ cursor' = [offset |-> sync.size,
                      date |-> IF ls = << >> THEN StartDate ELSE Last(dates),
                      clock |-> IF ls = << >> THEN StartClock ELSE Clock(Last(ls).at)]
        /\ rotated' = \/ sync.step = "stale"
                      \/ rotated /\ cursor.offset # 0 /\ sync.size >= cursor.offset
        /\ blind' = blind \cup Misread(readable, read)
        /\ sync' = NoSync

LEMMA SyncChoices ==
    ASSUME SyncEnds
    PROVE  /\ Reads
           /\ \E readable \in BOOLEAN, read \in [sync.listed -> 0..MaxLines + 1] : SyncOf(readable, read)
BY DEF SyncEnds, SyncOf, LiveRead, ReadDates, Reads

\* What was read is in the live table, under no earlier time than the true one.
LEMMA LiveIsRead ==
    ASSUME LogsInv, Reads, NEW readable \in BOOLEAN
    PROVE  /\ LiveRead(readable) \in Rows
           /\ Current =>
                 \A p \in Members, e \in Events : \A i \in 1..Len(Unread(readable)) :
                     Unread(readable)[i].player = p /\ Unread(readable)[i].event = e =>
                         LiveRead(readable)[p][e] >= Unread(readable)[i].at
  <1> DEFINE ls == Unread(readable)
             dates == ReadDates(readable)
  <1>1. /\ ls \in Seq(Line)
        /\ \A i \in 1..Len(ls) : Start + i \in 1..Len(log) /\ ls[i] = log[Start + i]
    BY UnreadLines
  <1>2. \A i \in 1..Len(ls) : ls[i].at \in Nat
    <2>1. \A i \in 1..Len(log) : log[i].at \in Nat
      BY LogLines DEF LogsInv
    <2> HIDE DEF ls
    <2> QED
      BY <1>1, <2>1
  <1>3. \A i \in 1..Len(ls) : dates[i] \in Nat /\ (Current => dates[i] >= Day(ls[i].at))
    BY DatesRead
  <1> HIDE DEF ls, dates
  <1>4. ASSUME NEW i \in 1..Len(ls)
        PROVE  /\ TimeOf(dates[i], Clock(ls[i].at)) \in Nat
               /\ Current => TimeOf(dates[i], Clock(ls[i].at)) >= ls[i].at
    <2>1. /\ ls[i].at = 2 * Day(ls[i].at) + Clock(ls[i].at) /\ Day(ls[i].at) \in Nat
          /\ Clock(ls[i].at) \in 0..1
      BY <1>2, HalfDays
    <2> QED
      BY <1>2, <1>3, <2>1 DEF TimeOf
  <1>5. ASSUME NEW p, NEW e
        PROVE  /\ Delta(p, e, ls, dates) \in Times
               /\ \A i \in 1..Len(ls) :
                     ls[i].player = p /\ ls[i].event = e =>
                         Delta(p, e, ls, dates) >= TimeOf(dates[i], Clock(ls[i].at))
    <2>1. \A i \in 1..Len(ls) : TimeOf(dates[i], Clock(ls[i].at)) \in Times
      BY <1>4 DEF Times
    <2> QED
      BY <1>1, <2>1, DeltaOf
  <1>6. LiveRead(readable) = [p \in Members |-> [e \in Events |-> Delta(p, e, ls, dates)]]
    BY DEF LiveRead, ls, dates
  <1>7. LiveRead(readable) \in Rows
    BY <1>5, <1>6 DEF Rows
  <1>8. ASSUME Current, NEW p \in Members, NEW e \in Events, NEW i \in 1..Len(ls),
               ls[i].player = p, ls[i].event = e
        PROVE  LiveRead(readable)[p][e] >= ls[i].at
    <2>1. /\ Delta(p, e, ls, dates) \in Int /\ ls[i].at \in Int /\ TimeOf(dates[i], Clock(ls[i].at)) \in Int
          /\ Delta(p, e, ls, dates) >= TimeOf(dates[i], Clock(ls[i].at)) /\ TimeOf(dates[i], Clock(ls[i].at)) >= ls[i].at
      BY <1>2, <1>4, <1>5, <1>8, AuditConstants DEF Times
    <2> QED
      BY <1>6, <2>1
  <1> QED
    BY <1>7, <1>8 DEF ls

LEMMA SyncKeepsLogs ==
    ASSUME LogsInv, Reads, NEW readable \in BOOLEAN, NEW read, SyncOf(readable, read),
           UNCHANGED <<now, lines, log, emptied>>
    PROVE  LogsInv'
  <1> DEFINE ls == Unread(readable)
             dates == ReadDates(readable)
  <1>1. /\ Len(log) \in Nat \ {0} /\ \A i \in 1..Len(log) : log[i].at \in Nat
        /\ Start \in Nat /\ StartDate \in Nat /\ StartClock \in 0..1
        /\ Current => \A i \in 1..Len(log) : StartDate >= Day(log[i].at)
    BY LogLines, StartTimes DEF LogsInv
  <1>2. \A i \in 1..Len(log) : Day(log[i].at) = Day(log[1].at)
    <2>1. 1 \in 1..Len(log)
      BY <1>1
    <2> QED
      BY <2>1 DEF LogsInv, IsLog, OneDay
  <1>3. /\ archives' = archives \ sync.listed /\ sync' = NoSync
        /\ cursor' = [offset |-> sync.size,
                      date |-> IF ls = << >> THEN StartDate ELSE Last(dates),
                      clock |-> IF ls = << >> THEN StartClock ELSE Clock(Last(ls).at)]
        /\ rotated' = \/ sync.step = "stale"
                      \/ rotated /\ cursor.offset # 0 /\ sync.size >= cursor.offset
    BY DEF SyncOf
  <1>4. /\ \A i \in 1..Len(ls) : Start + i \in 1..Len(log) /\ ls[i] = log[Start + i]
        /\ ls # << >> => Len(ls) \in 1..Len(ls) /\ Last(dates) = dates[Len(ls)] /\ Last(ls) = ls[Len(ls)]
        /\ \A i \in 1..Len(ls) : dates[i] \in Nat /\ (Current => dates[i] >= Day(ls[i].at))
    BY UnreadLines, DatesRead
  <1> DEFINE date == IF ls = << >> THEN StartDate ELSE Last(dates)
             clock == IF ls = << >> THEN StartClock ELSE Clock(Last(ls).at)
  <1> HIDE DEF ls, dates
  <1>5. date \in Nat /\ clock \in 0..1 /\ (Current => date >= Day(log[1].at))
    <2>1. CASE ls = << >>
      <3>1. 1 \in 1..Len(log)
        BY <1>1
      <3> QED
        BY <1>1, <2>1, <3>1
    <2>2. CASE ls # << >>
      <3>1. /\ Len(ls) \in 1..Len(ls) /\ date = dates[Len(ls)] /\ clock = Clock(ls[Len(ls)].at)
        BY <1>4, <2>2
      <3>2. Start + Len(ls) \in 1..Len(log) /\ ls[Len(ls)] = log[Start + Len(ls)]
        BY <1>4, <3>1
      <3>3. ls[Len(ls)].at \in Nat /\ Day(ls[Len(ls)].at) = Day(log[1].at)
        BY <1>1, <1>2, <3>2
      <3>4. Clock(ls[Len(ls)].at) \in 0..1
        BY <3>3, HalfDays
      <3> HIDE DEF date, clock
      <3> QED
        BY <1>4, <3>1, <3>3, <3>4
    <2> QED
      BY <2>1, <2>2
  <1>6. cursor' = [offset |-> sync.size, date |-> date, clock |-> clock]
    BY <1>3
  <1> HIDE DEF date, clock
  <1>7. /\ sync.size \in 0..MaxLines + 1 /\ sync.size \in Nat /\ cursor.offset \in Nat /\ emptied \in Nat
        /\ rotated \in BOOLEAN
        /\ sync.step = "stat" => sync.size \in 1..Len(log) /\ (~rotated => cursor.offset <= sync.size)
        /\ sync.step = "stale" => rotated
        /\ rotated => emptied = 0
        /\ ~rotated => emptied <= cursor.offset
    BY AuditConstants DEF LogsInv, SyncInv
  <1>8. ~rotated' => Current /\ sync.size \in 1..Len(log) /\ (~rotated => cursor.offset <= sync.size)
    BY <1>3, <1>7 DEF Current, Start, Rotated, Reads
  <1>9. rotated' => rotated
    BY <1>3, <1>7
  <1>10. ~rotated' => /\ cursor'.offset <= Len(log) /\ emptied <= cursor'.offset
                      /\ cursor'.offset # 0 => cursor'.date >= Day(log[1].at)
    BY <1>1, <1>5, <1>6, <1>7, <1>8
  <1>11. IsFiniteSet(archives') /\ \A a \in archives' : IsLog(a)'
    <2>1. \A a : IsLog(a) => IsLog(a)'
      BY DEF IsLog, OneDay
    <2>2. archives' \in SUBSET archives
      BY <1>3
    <2> QED
      BY <2>1, <2>2, FS_Subset DEF LogsInv
  <1>12. SyncInv'
    <2>1. 0 \in 0..MaxLines + 1 /\ 0 \in 0..Day(MaxTime)
      BY AuditConstants, HalfDays
    <2> QED
      BY <1>3, <2>1 DEF SyncInv, NoSync
  <1>13. IsLog(log)' /\ Len(log') <= lines' + 1 /\ now' \in 0..MaxTime /\ lines' \in 0..MaxLines
         /\ emptied' \in 0..MaxLines + 1 /\ rotated' \in BOOLEAN
    BY <1>3, <1>7 DEF LogsInv, IsLog, OneDay
  <1>14. cursor' \in [offset : 0..MaxLines + 1, date : Nat, clock : 0..1]
    BY <1>5, <1>6, <1>7
  <1>15. rotated' => emptied' = 0
    BY <1>7, <1>9
  <1> QED
    BY <1>10, <1>11, <1>12, <1>13, <1>14, <1>15 DEF LogsInv

LEMMA SyncRows ==
    ASSUME LogsInv, Reads, archiveRows \in Rows, liveRows \in Rows, NEW readable \in BOOLEAN,
           NEW read \in [sync.listed -> 0..MaxLines + 1], SyncOf(readable, read)
    PROVE  /\ archiveRows' \in Rows /\ liveRows' \in Rows
           /\ \A a \in sync.listed : read[a] \in 0..Len(a)
           /\ \A p \in Members, e \in Events :
                 /\ archiveRows'[p][e] >= archiveRows[p][e]
                 /\ archiveRows'[p][e] >= FromArchives(read)[p][e]
                 /\ ~Rotated(cursor) => liveRows'[p][e] >= liveRows[p][e]
                 /\ liveRows'[p][e] >= LiveRead(readable)[p][e]
  <1> DEFINE old == IF Rotated(cursor) THEN NoRows ELSE liveRows
  <1>1. /\ archiveRows' = Merged(archiveRows, FromArchives(read))
        /\ liveRows' = Merged(old, LiveRead(readable))
        /\ \A a \in sync.listed : read[a] <= Len(a)
    BY DEF SyncOf
  <1>2. \A a \in sync.listed : IsLog(a) /\ read[a] \in 0..Len(a)
    <2>1. \A a \in sync.listed : IsLog(a) /\ read[a] \in Nat
      BY AuditConstants DEF LogsInv, SyncInv
    <2>2. \A a \in sync.listed : Len(a) \in Nat
      BY <2>1, LogLines
    <2> QED
      BY <1>1, <2>1, <2>2
  <1>3. FromArchives(read) \in Rows
    <2>1. IsFiniteSet(sync.listed)
      BY FS_Subset DEF LogsInv, SyncInv
    <2> QED
      BY <1>2, <2>1, ArchivesRead
  <1>4. LiveRead(readable) \in Rows
    BY LiveIsRead
  <1>5. old \in Rows
    BY AuditConstants DEF Rows, NoRows
  <1> HIDE DEF old
  <1>6. /\ archiveRows' \in Rows
        /\ \A p \in Members, e \in Events : /\ archiveRows'[p][e] >= archiveRows[p][e]
                                            /\ archiveRows'[p][e] >= FromArchives(read)[p][e]
    BY <1>1, <1>3, MergedRows
  <1>7. /\ liveRows' \in Rows
        /\ \A p \in Members, e \in Events : /\ liveRows'[p][e] >= old[p][e]
                                            /\ liveRows'[p][e] >= LiveRead(readable)[p][e]
    BY <1>1, <1>4, <1>5, MergedRows
  <1> QED
    BY <1>2, <1>6, <1>7 DEF old

\* After a sync a player's last sign of life is in the tables, unless it was misread,
\* is in an archive that came meanwhile, or its row was deleted.
LEMMA SyncTraces ==
    ASSUME LogsInv, Reads, archiveRows \in Rows, liveRows \in Rows, seenAt \in [Members -> Never..MaxTime],
           NEW readable \in BOOLEAN, NEW read \in [sync.listed -> 0..MaxLines + 1], SyncOf(readable, read),
           UNCHANGED <<now, lines, log, emptied, seenAt>>, NEW p \in Members, Traced(p)
    PROVE  /\ Traced(p)'
           /\ \/ seenAt[p] = Never
              \/ p \in blind'
              \/ archiveRows'[p]["seen"] >= seenAt[p]
              \/ liveRows'[p]["seen"] >= seenAt[p]
              \/ \E a \in archives' : \E i \in 1..Len(a) : TellsOf(a[i], p)
              \/ \E i \in 1..Len(log) : TellsOf(log[i], p) /\ i <= emptied
  <1> SUFFICES ASSUME seenAt[p] # Never, p \notin blind'
               PROVE  \/ archiveRows'[p]["seen"] >= seenAt[p]
                      \/ \E a \in archives' : \E i \in 1..Len(a) : TellsOf(a[i], p)
                      \/ \E i \in 1..Len(log) :
                            /\ TellsOf(log[i], p)
                            /\ liveRows'[p]["seen"] >= seenAt[p] \/ i <= emptied
    BY DEF Traced, TellsOf
  <1>1. /\ archiveRows' \in Rows /\ liveRows' \in Rows
        /\ \A a \in sync.listed : read[a] \in 0..Len(a)
        /\ \A e \in Events :
              /\ archiveRows'[p][e] >= archiveRows[p][e]
              /\ archiveRows'[p][e] >= FromArchives(read)[p][e]
              /\ ~Rotated(cursor) => liveRows'[p][e] >= liveRows[p][e]
              /\ liveRows'[p][e] >= LiveRead(readable)[p][e]
    BY SyncRows
  <1>2. "seen" \in Events /\ seenAt[p] \in Int
    BY AuditConstants DEF Events
  <1>3. /\ archiveRows[p]["seen"] \in Int /\ archiveRows'[p]["seen"] \in Int
        /\ liveRows[p]["seen"] \in Int /\ liveRows'[p]["seen"] \in Int
    BY <1>1, <1>2, AuditConstants DEF Rows, Times
  <1>4. p \notin blind /\ p \notin Misread(readable, read)
    BY DEF SyncOf
  <1>5. CASE archiveRows[p]["seen"] >= seenAt[p]
    BY <1>1, <1>2, <1>3, <1>5
  <1>6. ASSUME NEW a \in sync.listed, NEW i \in 1..Len(a), TellsOf(a[i], p)
        PROVE  archiveRows'[p]["seen"] >= seenAt[p]
    <2>1. IsFiniteSet(sync.listed) /\ IsLog(a) /\ \A b \in sync.listed : IsLog(b)
      BY FS_Subset DEF LogsInv, SyncInv
    <2>2. Len(a) \in Nat /\ a \in Seq(Line) /\ \A k \in 1..Len(a) : a[k] \in Line /\ a[k].at \in Nat
      BY <2>1, LogLines DEF IsLog
    <2>3. read[a] \in 0..Len(a)
      BY <1>1
    <2>4. i <= read[a]
      <3> SUFFICES ASSUME i > read[a] PROVE FALSE
        BY <2>2, <2>3
      <3> DEFINE m == read[a] + 1
                 ls == SubSeq(a, m, Len(a))
      <3>1. m \in Int /\ m <= Len(a) /\ i - m + 1 \in 1..(Len(a) - m + 1) /\ m + (i - m + 1) - 1 = i
            /\ \A k \in m..Len(a) : a[k] \in Line
        <4>1. m \in Nat \ {0} /\ i \in Nat /\ i <= Len(a) /\ m <= i
          BY <2>2, <2>3
        <4> HIDE DEF m
        <4> QED
          BY <2>2, <4>1
      <3>2. /\ ls \in Seq(Line) /\ Len(ls) = IF m <= Len(a) THEN Len(a) - m + 1 ELSE 0
            /\ \A k \in 1..(Len(a) - m + 1) : ls[k] = a[m + k - 1]
        <4> HIDE DEF m
        <4> QED
          BY <2>2, <3>1, SubSeqProperties
      <3> HIDE DEF ls, m
      <3>3. DOMAIN ls = 1..Len(ls) /\ Len(ls) = Len(a) - m + 1
        BY <3>1, <3>2, LenProperties
      <3> DEFINE j == i - m + 1
      <3>4. j \in DOMAIN ls /\ ls[j] = a[i]
        BY <3>1, <3>2, <3>3
      <3>5. p \in PlayersIn(ls)
        BY <1>6, <3>4 DEF PlayersIn, TellsOf
      <3>6. p \in UNION {PlayersIn(SubSeq(b, read[b] + 1, Len(b))) : b \in sync.listed}
        BY <3>5 DEF ls, m
      <3> QED
        BY <1>4, <3>6 DEF Misread
    <2>5. FromArchives(read)[p]["seen"] >= a[i].at /\ FromArchives(read)[p]["seen"] \in Int
      <3>1. i \in 1..read[a]
        BY <2>2, <2>3, <2>4
      <3>2. /\ FromArchives(read) \in Rows
            /\ \A q \in Members, b \in sync.listed, event \in Events :
                 \A k \in 1..read[b] :
                     b[k].player = q /\ b[k].event = event => FromArchives(read)[q][event] >= b[k].at
        BY <1>1, <2>1, ArchivesRead
      <3> QED
        BY <1>2, <1>6, <3>1, <3>2, AuditConstants DEF TellsOf, Rows, Times
    <2> QED
      BY <1>1, <1>2, <1>3, <1>6, <2>5 DEF TellsOf
  <1>7. ASSUME NEW i \in 1..Len(log), TellsOf(log[i], p),
               rotated \/ i > cursor.offset \/ liveRows[p]["seen"] >= seenAt[p]
        PROVE  liveRows'[p]["seen"] >= seenAt[p]
    <2>1. /\ Len(log) \in Nat \ {0} /\ DOMAIN log = 1..Len(log)
          /\ \A k \in 1..Len(log) : log[k].at \in Nat
      BY LogLines DEF LogsInv
    <2>2. readable /\ ~rotated'
      BY <1>4, <1>7, <2>1 DEF Misread, PlayersIn, TellsOf
    <2>3. cursor.offset \in Nat /\ (~rotated => cursor.offset <= Len(log)) /\ rotated \in BOOLEAN
      BY AuditConstants DEF LogsInv
    <2>4. rotated' = \/ sync.step = "stale"
                     \/ rotated /\ cursor.offset # 0 /\ sync.size >= cursor.offset
      BY DEF SyncOf
    <2>8. sync.size \in Nat
      BY AuditConstants DEF LogsInv, SyncInv
    <2>5. Current
      BY <2>1, <2>2, <2>3, <2>4, <2>8 DEF Current, Start, Rotated, Reads
    <2> DEFINE ls == Unread(readable)
    <2>6. CASE i > Start
      <3>1. Start \in Nat /\ Start <= Len(log)
        BY <2>5, StartTimes
      <3>2. Len(ls) = Len(log) - Start /\ \A k \in 1..Len(ls) : ls[k] = log[Start + k]
        BY <2>2, <3>1, UnreadLines
      <3> HIDE DEF ls
      <3> DEFINE k == i - Start
      <3>3. k \in 1..Len(ls) /\ Start + k = i
        BY <2>1, <2>6, <3>1, <3>2
      <3> HIDE DEF k
      <3>4. ls[k] = log[i] /\ ls[k].player = p /\ ls[k].event = "seen" /\ ls[k].at = seenAt[p]
        BY <1>7, <3>2, <3>3 DEF TellsOf
      <3>5. /\ LiveRead(readable)[p]["seen"] >= ls[k].at
            /\ LiveRead(readable)[p]["seen"] \in Int
        BY <1>2, <2>5, <3>3, <3>4, LiveIsRead, AuditConstants DEF ls, Rows, Times
      <3> QED
        BY <1>1, <1>2, <1>3, <3>4, <3>5
    <2>7. CASE ~ (i > Start)
      <3>1. Start # 0 /\ Start = cursor.offset /\ ~Rotated(cursor) /\ ~rotated
        BY <2>1, <2>3, <2>5, <2>7 DEF Start, Current
      <3>2. liveRows[p]["seen"] >= seenAt[p]
        BY <1>7, <2>7, <3>1
      <3> QED
        BY <1>1, <1>2, <1>3, <3>1, <3>2
    <2> QED
      BY <2>6, <2>7
  <1>8. \A a \in archives : a \in sync.listed \/ a \in archives'
    BY DEF SyncOf
  <1> QED
    BY <1>4, <1>5, <1>6, <1>7, <1>8 DEF Traced


--------------------------------------------------------------------------------
\* Every step keeps the index right.
LEMMA RecordedLive ==
    ASSUME liveRows \in Rows, now \in 0..MaxTime, NEW p \in Members, NEW event \in {"added", "removed"},
           RecordLive(p, event)
    PROVE  liveRows' \in Rows /\ \A q \in Members : liveRows'[q]["seen"] = liveRows[q]["seen"]
  <1>1. event \in Events /\ liveRows[p][event] \in Times /\ now \in Times
    BY AuditConstants DEF Rows, Events, Times
  <1> DEFINE new == Latest({now, liveRows[p][event]})
  <1>2. new \in Times
    BY <1>1, LatestOfTwo
  <1>3. liveRows' = [liveRows EXCEPT ![p][event] = new]
    BY DEF RecordLive
  <1> HIDE DEF new
  <1>4. liveRows' = [liveRows EXCEPT ![p] = [liveRows[p] EXCEPT ![event] = new]]
    BY <1>3
  <1> DEFINE row == [liveRows[p] EXCEPT ![event] = new]
  <1>5. row \in [Events -> Times] /\ row["seen"] = liveRows[p]["seen"]
    <2>1. liveRows[p] \in [Events -> Times]
      BY DEF Rows
    <2>2. "seen" \in Events
      BY DEF Events
    <2> QED
      BY <1>1, <1>2, <2>1, <2>2
  <1> HIDE DEF row
  <1>6. liveRows' = [liveRows EXCEPT ![p] = row]
    BY <1>4 DEF row
  <1> QED
    BY <1>5, <1>6 DEF Rows

LEMMA IndexKept ==
    ASSUME IndexInv, UNCHANGED <<now, cursor, archiveRows, blind, seenAt>>,
           UNCHANGED serverVars \/ \E line : Writes(line),
           liveRows' \in Rows, \A p \in Members : liveRows'[p]["seen"] = liveRows[p]["seen"]
    PROVE  IndexInv'
  <1>1. LogsInv /\ archiveRows' \in Rows /\ seenAt' \in [Members -> Never..MaxTime]
        /\ \A p \in Members : Traced(p)
    BY DEF IndexInv
  <1>2. CASE UNCHANGED serverVars
    <2>1. LogsInv'
      BY <1>1, <1>2 DEF LogsInv, SyncInv, serverVars, IsLog, OneDay
    <2>2. \A p \in Members : Traced(p)'
      BY <1>1, <1>2 DEF serverVars, Traced, TellsOf
    <2> QED
      BY <1>1, <2>1, <2>2 DEF IndexInv
  <1>3. ASSUME NEW line, Writes(line) PROVE IndexInv'
    <2>1. LogsInv'
      BY <1>1, <1>3, WritesKeepsLogs
    <2>2. \A p \in Members : Traced(p)'
      BY <1>1, <1>3, WritesTraced
    <2> QED
      BY <1>1, <2>1, <2>2 DEF IndexInv
  <1> QED
    BY <1>2, <1>3

\* A sync that goes on, or is given up, leaves the index alone.
LEMMA SyncMoves ==
    ASSUME IndexInv, SyncInv', UNCHANGED <<now, lines, log, indexVars, seenAt>>
    PROVE  IndexInv'
  <1>1. UNCHANGED <<archives, rotated, cursor, archiveRows, liveRows, emptied, blind>>
    BY DEF indexVars
  <1>2. LogsInv'
    BY <1>1 DEF IndexInv, LogsInv, IsLog, OneDay
  <1>3. \A p \in Members : Traced(p)'
    BY <1>1 DEF IndexInv, Traced, TellsOf
  <1> QED
    BY <1>1, <1>2, <1>3 DEF IndexInv

LEMMA NoSyncKeeps ==
    ASSUME IndexInv, sync' = NoSync, UNCHANGED <<now, lines, log, indexVars, seenAt>>
    PROVE  IndexInv'
  <1>1. 0 \in 0..MaxLines + 1 /\ 0 \in 0..Day(MaxTime)
    BY AuditConstants, HalfDays
  <1>2. SyncInv'
    BY <1>1 DEF SyncInv, NoSync
  <1> QED
    BY <1>2, SyncMoves

LEMMA SyncStartsKeeps ==
    ASSUME IndexInv, SyncStarts
    PROVE  IndexInv'
  <1>1. 0 \in 0..MaxLines + 1 /\ 0 \in 0..Day(MaxTime)
    BY AuditConstants, HalfDays
  <1>2. sync' = [step |-> "listed", listed |-> archives, size |-> 0, day |-> 0]
        /\ UNCHANGED <<now, lines, log, indexVars, seenAt>>
    BY DEF SyncStarts, NoSync
  <1>3. archives' = archives
    BY <1>2 DEF indexVars
  <1>4. SyncInv'
    BY <1>1, <1>2, <1>3 DEF SyncInv
  <1> QED
    BY <1>2, <1>4, SyncMoves

LEMMA SyncTakesSizeKeeps ==
    ASSUME IndexInv, SyncTakesSize
    PROVE  IndexInv'
  <1>1. /\ Len(log) \in Nat \ {0} /\ Last(log) = log[Len(log)] /\ Len(log) <= lines + 1
        /\ lines \in 0..MaxLines /\ \A i \in 1..Len(log) : log[i].at \in Nat /\ log[i].at \in 0..MaxTime
    BY LogLines DEF IndexInv, LogsInv
  <1>2. /\ sync' = [sync EXCEPT !.step = "stat", !.size = Len(log), !.day = Day(Last(log).at)]
        /\ UNCHANGED <<now, lines, log, indexVars, seenAt>>
    BY DEF SyncTakesSize
  <1>3. UNCHANGED <<archives, rotated, cursor>>
    BY <1>2 DEF indexVars
  <1> DEFINE day == Day(Last(log).at)
  <1>4. day \in 0..Day(MaxTime) /\ day = Day(log[1].at)
    <2>1. 1 \in 1..Len(log) /\ Len(log) \in 1..Len(log)
      BY <1>1
    <2>2. Day(log[Len(log)].at) = Day(log[1].at)
      BY <2>1 DEF IndexInv, LogsInv, IsLog, OneDay
    <2>3. /\ Day(log[Len(log)].at) \in Nat /\ Day(MaxTime) \in Nat
          /\ Day(log[Len(log)].at) <= Day(MaxTime)
      <3> DEFINE t == log[Len(log)].at
      <3>1. t \in Nat /\ t <= MaxTime /\ MaxTime \in Nat
        BY <1>1, <2>1, AuditConstants
      <3> HIDE DEF t
      <3>2. Day(t) \in Nat /\ Day(MaxTime) \in Nat /\ Day(t) <= Day(MaxTime)
        BY <3>1, HalfDays, DaysOrdered
      <3> QED
        BY <3>2 DEF t
    <2> QED
      BY <1>1, <2>2, <2>3
  <1> HIDE DEF day
  <1>5. sync' = [step |-> "stat", listed |-> sync.listed, size |-> Len(log), day |-> day]
    BY <1>2 DEF IndexInv, LogsInv, SyncInv, day
  <1>6. Len(log) \in 0..MaxLines + 1 /\ Len(log) \in 1..Len(log)
    BY <1>1, AuditConstants
  <1>7. ~rotated => cursor.offset <= Len(log)
    BY DEF IndexInv, LogsInv
  <1>8. SyncInv'
    <2>1. sync.listed \in SUBSET archives
      BY DEF IndexInv, LogsInv, SyncInv
    <2>2. sync' \in [step : {"none", "listed", "stat", "stale"}, listed : SUBSET archives',
                     size : 0..MaxLines + 1, day : 0..Day(MaxTime)]
      BY <1>3, <1>4, <1>5, <1>6, <2>1
    <2>3. sync'.step = "stat" /\ sync'.size = Len(log) /\ sync'.day = Day(log[1].at)
      BY <1>4, <1>5
    <2> QED
      BY <1>2, <1>3, <1>6, <1>7, <2>2, <2>3 DEF SyncInv
  <1> QED
    BY <1>2, <1>8, SyncMoves

\* Another profile's sync adds what it finds, and may delete the live rows.
LEMMA SyncElsewhereKeeps ==
    ASSUME IndexInv, SyncElsewhere
    PROVE  IndexInv'
  <1>1. PICK clears \in BOOLEAN, p \in Members, e \in Events, t \in Never..now :
           LET kept == IF clears THEN NoRows ELSE liveRows
               found == [NoRows EXCEPT ![p][e] = t]
           IN  /\ \/ liveRows' = Merged(kept, found) /\ UNCHANGED archiveRows
                  \/ liveRows' = kept /\ archiveRows' = Merged(archiveRows, found)
               /\ emptied' = IF clears /\ ~rotated THEN cursor.offset ELSE emptied
    BY DEF SyncElsewhere
  <1> DEFINE kept == IF clears THEN NoRows ELSE liveRows
             found == [NoRows EXCEPT ![p][e] = t]
  <1>2. UNCHANGED <<now, lines, log, archives, rotated, sync, cursor, seenAt, blind>>
    BY DEF SyncElsewhere
  <1>3. /\ archiveRows \in Rows /\ liveRows \in Rows /\ now \in 0..MaxTime
        /\ cursor.offset \in 0..MaxLines + 1 /\ rotated \in BOOLEAN
    BY DEF IndexInv, LogsInv
  <1>4. NoRows \in Rows
    BY AuditConstants DEF NoRows, Rows
  <1>5. kept \in Rows /\ (~clears => kept = liveRows)
    BY <1>3, <1>4
  <1>6. found \in Rows
    <2>1. t \in Times
      BY <1>3, AuditConstants DEF Times
    <2> DEFINE row == [NoRows[p] EXCEPT ![e] = t]
    <2>2. row \in [Events -> Times]
      BY <1>4, <2>1 DEF Rows
    <2>3. found = [NoRows EXCEPT ![p] = row]
      OBVIOUS
    <2> HIDE DEF row, found
    <2> QED
      BY <1>4, <2>2, <2>3 DEF Rows
  <1>7. /\ \/ liveRows' = Merged(kept, found) /\ UNCHANGED archiveRows
           \/ liveRows' = kept /\ archiveRows' = Merged(archiveRows, found)
        /\ emptied' = IF clears /\ ~rotated THEN cursor.offset ELSE emptied
    BY <1>1
  <1> HIDE DEF kept, found
  <1>8. "seen" \in Events
    BY DEF Events
  <1>9. /\ archiveRows' \in Rows /\ liveRows' \in Rows
        /\ \A q \in Members : /\ archiveRows'[q]["seen"] >= archiveRows[q]["seen"]
                              /\ ~clears => liveRows'[q]["seen"] >= liveRows[q]["seen"]
    <2>1. \A q \in Members : archiveRows[q]["seen"] \in Int /\ liveRows[q]["seen"] \in Int
      BY <1>3, <1>8, AuditConstants DEF Rows, Times
    <2>2. Merged(kept, found) \in Rows /\ \A q \in Members : Merged(kept, found)[q]["seen"] >= kept[q]["seen"]
      BY <1>5, <1>6, <1>8, MergedRows
    <2>3. /\ Merged(archiveRows, found) \in Rows
          /\ \A q \in Members : Merged(archiveRows, found)[q]["seen"] >= archiveRows[q]["seen"]
      BY <1>3, <1>6, <1>8, MergedRows
    <2> QED
      BY <1>3, <1>5, <1>7, <2>1, <2>2, <2>3
  <1>10. LogsInv'
    <2>1. /\ emptied' \in 0..MaxLines + 1 /\ (rotated => emptied' = 0)
          /\ ~rotated => emptied' <= cursor.offset
      BY <1>3, <1>7, AuditConstants DEF IndexInv, LogsInv
    <2> QED
      BY <1>2, <2>1 DEF IndexInv, LogsInv, SyncInv, IsLog, OneDay
  <1>11. ASSUME NEW q \in Members PROVE Traced(q)'
    <2>1. /\ archiveRows[q]["seen"] \in Int /\ liveRows[q]["seen"] \in Int /\ seenAt[q] \in Int
          /\ archiveRows'[q]["seen"] \in Int /\ liveRows'[q]["seen"] \in Int
      BY <1>3, <1>8, <1>9, AuditConstants DEF IndexInv, Rows, Times
    <2>2. Traced(q)
      BY DEF IndexInv
    <2>3. \A l : TellsOf(l, q)' <=> TellsOf(l, q)
      BY <1>2 DEF TellsOf
    <2>4. archiveRows[q]["seen"] >= seenAt[q] => archiveRows'[q]["seen"] >= seenAt[q]
      BY <1>9, <2>1
    <2>5. ASSUME NEW i \in 1..Len(log),
                 rotated \/ i > cursor.offset \/ i <= emptied \/ liveRows[q]["seen"] >= seenAt[q]
          PROVE  rotated \/ i > cursor.offset \/ i <= emptied' \/ liveRows'[q]["seen"] >= seenAt[q]
      <3>1. CASE clears /\ ~rotated
        <4>1. emptied' = cursor.offset /\ cursor.offset \in Int /\ i \in Int
          BY <1>3, <1>7, <3>1, AuditConstants
        <4> QED
          BY <4>1
      <3>2. CASE ~clears
        BY <1>7, <1>9, <2>1, <2>5, <3>2
      <3> QED
        BY <1>3, <3>1, <3>2
    <2> QED
      BY <1>2, <2>2, <2>3, <2>4, <2>5 DEF Traced
  <1> QED
    BY <1>2, <1>9, <1>10, <1>11 DEF IndexInv

LEMMA IndexSynced ==
    ASSUME IndexInv, SyncEnds, UNCHANGED <<now, lines, log, emptied, seenAt>>
    PROVE  /\ IndexInv'
           /\ \A p \in Members : \/ seenAt[p] = Never
                                 \/ p \in blind'
                                 \/ archiveRows'[p]["seen"] >= seenAt[p]
                                 \/ liveRows'[p]["seen"] >= seenAt[p]
                                 \/ \E a \in archives' : \E i \in 1..Len(a) : TellsOf(a[i], p)
                                 \/ \E i \in 1..Len(log) : TellsOf(log[i], p) /\ i <= emptied
  <1>1. LogsInv /\ archiveRows \in Rows /\ liveRows \in Rows /\ seenAt \in [Members -> Never..MaxTime]
        /\ \A p \in Members : Traced(p)
    BY DEF IndexInv
  <1>2. PICK readable \in BOOLEAN, read \in [sync.listed -> 0..MaxLines + 1] : Reads /\ SyncOf(readable, read)
    BY SyncChoices
  <1>3. LogsInv'
    BY <1>1, <1>2, SyncKeepsLogs
  <1>4. archiveRows' \in Rows /\ liveRows' \in Rows
    BY <1>1, <1>2, SyncRows
  <1>5. \A p \in Members : /\ Traced(p)'
                           /\ \/ seenAt[p] = Never
                              \/ p \in blind'
                              \/ archiveRows'[p]["seen"] >= seenAt[p]
                              \/ liveRows'[p]["seen"] >= seenAt[p]
                              \/ \E a \in archives' : \E i \in 1..Len(a) : TellsOf(a[i], p)
                              \/ \E i \in 1..Len(log) : TellsOf(log[i], p) /\ i <= emptied
    BY <1>1, <1>2, SyncTraces
  <1> QED
    BY <1>1, <1>3, <1>4, <1>5 DEF IndexInv

LEMMA ServerWrites ==
    ASSUME now \in 0..MaxTime, NEW p \in Members, ServerAdds(p) \/ ServerRemoves(p)
    PROVE  UNCHANGED serverVars \/ \E line : Writes(line)
BY LogLineWrites DEF ServerAdds, ServerRemoves, Events

LEMMA IndexStep ==
    ASSUME IndexInv, whitelist \subseteq Members, prune.todo \subseteq Members, prune.sent \subseteq Members,
           [AuditNext]_auditVars
    PROVE  IndexInv'
  <1>1. now \in 0..MaxTime /\ LogsInv /\ liveRows \in Rows /\ seenAt \in [Members -> Never..MaxTime]
        /\ \A p \in Members : Traced(p)
    BY DEF IndexInv, LogsInv
  <1>2. CASE ServerRestarts
    <2>1. Writes(Boot)
      BY <1>1, <1>2, BootWrites DEF ServerRestarts
    <2> QED
      BY <1>1, <1>2, <2>1, IndexKept DEF ServerRestarts, tableVars
  <1>3. CASE PlayerSeen
    <2>1. PICK p \in whitelist : LogLine(p, "seen") /\ seenAt' = [seenAt EXCEPT ![p] = now]
      BY <1>3 DEF PlayerSeen
    <2>2. UNCHANGED <<now, cursor, archiveRows, liveRows, blind>>
      BY <1>3 DEF PlayerSeen, tableVars
    <2>3. /\ p \in Members
          /\ \E line : Writes(line) /\ line = [player |-> p, event |-> "seen", at |-> now]
      BY <1>1, <2>1, LogLineWrites DEF Events
    <2> PICK line : Writes(line) /\ line = [player |-> p, event |-> "seen", at |-> now]
      BY <2>3
    <2>4. seenAt' \in [Members -> Never..MaxTime] /\ seenAt'[p] = now /\ \A q \in Members \ {p} : seenAt'[q] = seenAt[q]
      <3>1. now \in Never..MaxTime
        BY <1>1, AuditConstants
      <3> QED
        BY <1>1, <2>1, <2>3, <3>1
    <2>5. LogsInv'
      BY <1>1, <2>2, <2>3, WritesKeepsLogs
    <2>6. TellsOf(line, p)'
      BY <2>2, <2>4 DEF TellsOf
    <2>7. Traced(p)'
      BY <1>1, <2>2, <2>3, <2>6, WritesTold
    <2>8. \A q \in Members \ {p} : Traced(q)'
      BY <1>1, <2>2, <2>3, <2>4, WritesTraced
    <2> QED
      BY <1>1, <2>2, <2>4, <2>5, <2>7, <2>8 DEF IndexInv
  <1>4. CASE TimePasses
    <2>1. /\ now' = now + 1 /\ now < MaxTime
          /\ UNCHANGED <<lines, log, archives, rotated, emptied, sync, cursor, archiveRows, liveRows, blind, seenAt>>
      BY <1>4 DEF TimePasses, serverVars, tableVars
    <2>2. now \in Nat /\ now' \in 0..MaxTime
      BY <1>1, <2>1, AuditConstants
    <2>3. ASSUME NEW a, IsLog(a) PROVE IsLog(a)'
      <3>1. \A i \in 1..Len(a) : a[i].at \in Nat
        BY <2>3, LogLines
      <3> QED
        BY <2>1, <2>2, <2>3, <3>1 DEF IsLog, OneDay
    <2>4. LogsInv'
      <3>1. IsLog(log)' /\ \A a \in archives' : IsLog(a)'
        BY <1>1, <2>1, <2>3 DEF LogsInv
      <3>2. SyncInv'
        BY <1>1, <2>1 DEF LogsInv, SyncInv
      <3> QED
        BY <1>1, <2>1, <2>2, <3>1, <3>2 DEF LogsInv
    <2>5. \A p \in Members : Traced(p)'
      BY <1>1, <2>1 DEF Traced, TellsOf
    <2> QED
      BY <2>1, <2>4, <2>5 DEF IndexInv
  <1>5. CASE Refresh
    BY <1>5, IndexSynced DEF Refresh, SyncEnds
  <1>6. CASE PlanPrune
    BY <1>6, IndexSynced DEF PlanPrune, SyncEnds
  <1>7. CASE AddMember
    <2>1. PICK p \in Members : ServerAdds(p) /\ (RecordAdd(p) \/ UNCHANGED liveRows)
      BY <1>7 DEF AddMember
    <2>2. UNCHANGED <<now, cursor, archiveRows, seenAt, blind>>
      BY <1>7 DEF AddMember
    <2>3. liveRows' \in Rows /\ \A q \in Members : liveRows'[q]["seen"] = liveRows[q]["seen"]
      <3>1. RecordAdd(p) => RecordLive(p, "added")
        BY DEF RecordAdd
      <3> QED
        BY <1>1, <2>1, <3>1, RecordedLive
    <2> QED
      BY <1>1, <2>1, <2>2, <2>3, ServerWrites, IndexKept
  <1>8. CASE RemoveMember
    <2>1. PICK p \in Members : ServerRemoves(p) /\ (RecordLive(p, "removed") \/ UNCHANGED liveRows)
      BY <1>8 DEF RemoveMember
    <2>2. UNCHANGED <<now, cursor, archiveRows, seenAt, blind>>
      BY <1>8 DEF RemoveMember
    <2>3. liveRows' \in Rows /\ \A q \in Members : liveRows'[q]["seen"] = liveRows[q]["seen"]
      BY <1>1, <2>1, RecordedLive
    <2> QED
      BY <1>1, <2>1, <2>2, <2>3, ServerWrites, IndexKept
  <1>9. CASE PruneSends
    <2>1. PICK p \in prune.todo : ServerRemoves(p) \/ UNCHANGED serverVars
      BY <1>9 DEF PruneSends
    <2>2. UNCHANGED <<now, cursor, archiveRows, liveRows, seenAt, blind>>
      BY <1>9 DEF PruneSends, tableVars
    <2> QED
      BY <1>1, <2>1, <2>2, ServerWrites, IndexKept
  <1>10. CASE PruneAnswered
    <2>1. PICK p \in prune.sent : RecordLive(p, "removed") \/ UNCHANGED liveRows
      BY <1>10 DEF PruneAnswered, RecordPrune
    <2>2. UNCHANGED <<now, cursor, archiveRows, seenAt, blind>> /\ UNCHANGED serverVars
      BY <1>10 DEF PruneAnswered
    <2>3. liveRows' \in Rows /\ \A q \in Members : liveRows'[q]["seen"] = liveRows[q]["seen"]
      BY <1>1, <2>1, RecordedLive
    <2> QED
      BY <2>2, <2>3, IndexKept
  <1>11. CASE CommandElsewhere
    <2>1. PICK p \in Members : RecordLive(p, "added") \/ RecordLive(p, "removed")
      BY <1>11 DEF CommandElsewhere, RecordAdd, RecordPrune
    <2>2. UNCHANGED <<now, cursor, archiveRows, seenAt, blind>> /\ UNCHANGED serverVars
      BY <1>11 DEF CommandElsewhere
    <2>3. liveRows' \in Rows /\ \A q \in Members : liveRows'[q]["seen"] = liveRows[q]["seen"]
      BY <1>1, <2>1, RecordedLive
    <2> QED
      BY <2>2, <2>3, IndexKept
  <1>12. CASE ActivateProfile \/ UNCHANGED auditVars
    <2>1. UNCHANGED <<now, cursor, archiveRows, liveRows, seenAt, blind>> /\ UNCHANGED serverVars
      BY <1>12 DEF ActivateProfile, auditVars, tableVars, serverVars
    <2> QED
      BY <1>1, <2>1, IndexKept
  <1>13. CASE AuditCrash
    BY <1>13, NoSyncKeeps DEF AuditCrash
  <1> QED
    BY <1>2, <1>3, <1>4, <1>5, <1>6, <1>7, <1>8, <1>9, <1>10, <1>11, <1>12, <1>13,
       SyncStartsKeeps, SyncTakesSizeKeeps, SyncElsewhereKeeps DEF AuditNext

LEMMA IndexStart == AuditInit => IndexInv
  <1> SUFFICES ASSUME AuditInit PROVE IndexInv
    OBVIOUS
  <1>1. /\ now = 0 /\ lines = 0 /\ log = <<Boot>> /\ archives = {} /\ rotated = FALSE /\ emptied = 0
        /\ cursor = [offset |-> 0, date |-> 0, clock |-> 0] /\ sync = NoSync
        /\ archiveRows = NoRows /\ liveRows = NoRows /\ seenAt = [p \in Members |-> Never]
    BY DEF AuditInit
  <1>2. MaxTime \in Nat /\ MaxLines \in Nat /\ Never \in Times /\ Never = -1 /\ Day(MaxTime) \in Nat
    BY AuditConstants, HalfDays
  <1>3. Boot \in Line /\ Boot.at = 0
    BY <1>1, <1>2 DEF Boot, Line, Events
  <1>4. log \in Seq(Line) /\ Len(log) = 1 /\ log[1] = Boot /\ log # << >>
    BY <1>1, <1>3
  <1>5. IsLog(log)
    BY <1>1, <1>3, <1>4 DEF IsLog, OneDay
  <1>6. SyncInv
    BY <1>1, <1>2 DEF SyncInv, NoSync
  <1>7. LogsInv
    <2>1. now \in 0..MaxTime /\ lines \in 0..MaxLines /\ emptied \in 0..MaxLines + 1
      BY <1>1, <1>2
    <2>2. /\ cursor \in [offset : 0..MaxLines + 1, date : Nat, clock : 0..1]
          /\ cursor.offset = 0
      BY <1>1, <1>2
    <2>3. Len(log) <= lines + 1 /\ cursor.offset <= Len(log) /\ emptied <= cursor.offset
      BY <1>1, <1>4, <2>2
    <2> QED
      BY <1>1, <1>5, <1>6, <2>1, <2>2, <2>3, FS_EmptySet DEF LogsInv
  <1>8. NoRows \in Rows
    BY <1>2 DEF NoRows, Rows
  <1>9. seenAt \in [Members -> Never..MaxTime]
    BY <1>1, <1>2
  <1> QED
    BY <1>1, <1>7, <1>8, <1>9 DEF IndexInv, Traced

\* Who is planned to be removed has shown no sign of life within the threshold.
LEMMA PlannedOld ==
    ASSUME NEW row \in [Events -> Times], NEW t \in Times, t # Never, now \in 0..MaxTime,
           row["seen"] >= t, Recommended(row)
    PROVE  Old(t)
  <1>1. /\ MaxTime \in Nat /\ Never = -1 /\ Inactive \in Nat /\ now \in Nat /\ t \in Nat
        /\ row["seen"] \in Int /\ row["added"] \in Int /\ row["removed"] \in Int
        /\ row["seen"] >= -1 /\ row["added"] >= -1 /\ row["removed"] >= -1
    BY AuditAssumption, AuditConstants DEF Times, Events
  <1>2. \A u \in Int : u >= t /\ Old(u) => Old(t)
    BY <1>1 DEF Old, Day
  <1> QED
    BY <1>1, <1>2 DEF Recommended, Seen, Added

--------------------------------------------------------------------------------
\* The audit's variables keep their types.
PruneTyped ==
    /\ prune \in [todo : SUBSET Members, sent : SUBSET Members, done : BOOLEAN]
    /\ blind \subseteq Members /\ unrecorded \subseteq Members
    /\ elsewhere \in BOOLEAN /\ othersSyncs \in 0..MaxSyncs /\ othersCommands \in 0..MaxCommands

LEMMA PruneTyping ==
    ASSUME AuditInv, PruneTyped, [AuditNext]_auditVars
    PROVE  PruneTyped'
  <1>1. \A ls : PlayersIn(ls) \subseteq Members
    BY DEF PlayersIn
  <1>2. SyncEnds => blind' \subseteq Members
    <2> SUFFICES ASSUME SyncEnds PROVE blind' \subseteq Members
      OBVIOUS
    <2>1. PICK readable, read : blind' = blind \cup Misread(readable, read)
      BY DEF SyncEnds
    <2>2. Misread(readable, read) \subseteq Members
      BY <1>1 DEF Misread
    <2> QED
      BY <2>1, <2>2 DEF PruneTyped
  <1>3. CASE ServerRestarts \/ PlayerSeen \/ TimePasses \/ RemoveMember \/ SyncStarts \/ SyncTakesSize \/ UNCHANGED auditVars
    BY <1>3 DEF PruneTyped, ServerRestarts, PlayerSeen, TimePasses, RemoveMember, SyncStarts, SyncTakesSize,
                auditVars, activeVars, indexVars
  <1>4. CASE Refresh
    BY <1>2, <1>4 DEF Refresh, SyncEnds, PruneTyped, activeVars
  <1>5. CASE PlanPrune
    <2>1. PICK requested \in SUBSET Members :
             prune' = [NoPrune EXCEPT !.todo =
                         {p \in (requested \cap whitelist) \ Protected :
                            Recommended(Merged(archiveRows', liveRows')[p])}]
      BY <1>5 DEF PlanPrune
    <2> DEFINE todo == {p \in (requested \cap whitelist) \ Protected :
                          Recommended(Merged(archiveRows', liveRows')[p])}
    <2>2. todo \subseteq Members
      OBVIOUS
    <2>3. prune' = [todo |-> todo, sent |-> {}, done |-> FALSE]
      BY <2>1 DEF NoPrune
    <2> HIDE DEF todo
    <2>4. prune' \in [todo : SUBSET Members, sent : SUBSET Members, done : BOOLEAN]
      BY <2>2, <2>3
    <2> QED
      BY <1>2, <1>5, <2>4 DEF PlanPrune, SyncEnds, PruneTyped, activeVars
  <1>6. CASE AddMember
    BY <1>6 DEF AddMember, PruneTyped, activeVars
  <1>7. CASE PruneSends
    BY <1>7 DEF PruneSends, PruneTyped, activeVars
  <1>8. CASE PruneAnswered
    BY <1>8 DEF PruneAnswered, PruneTyped, activeVars
  <1>9. CASE AuditCrash
    BY <1>9 DEF AuditCrash, PruneTyped, NoPrune, activeVars, indexVars
  <1>10. CASE SyncElsewhere
    <2>1. othersSyncs' \in 0..MaxSyncs
      BY <1>10, AuditConstants DEF SyncElsewhere, PruneTyped
    <2> QED
      BY <1>10, <2>1 DEF SyncElsewhere, PruneTyped
  <1>11. CASE CommandElsewhere
    <2>1. othersCommands' \in 0..MaxCommands
      BY <1>11, AuditConstants DEF CommandElsewhere, PruneTyped
    <2> QED
      BY <1>11, <2>1 DEF CommandElsewhere, PruneTyped
  <1>12. CASE ActivateProfile
    BY <1>12 DEF ActivateProfile, PruneTyped
  <1> QED
    BY <1>3, <1>4, <1>5, <1>6, <1>7, <1>8, <1>9, <1>10, <1>11, <1>12 DEF AuditNext

AuditAll == AuditInv /\ IndexInv /\ PruneTyped

LEMMA AuditAllTyped == AuditAll => AuditTypeOK
BY DEF AuditAll, AuditInv, EventsInv, IndexInv, LogsInv, SyncInv, IsLog, PruneTyped, AuditTypeOK

LEMMA AuditAllStart == AuditInit => AuditAll
  <1>1. AuditInit => PruneTyped
    <2> SUFFICES ASSUME AuditInit PROVE PruneTyped
      OBVIOUS
    <2>1. othersSyncs \in 0..MaxSyncs /\ othersCommands \in 0..MaxCommands
      BY AuditConstants DEF AuditInit
    <2>2. NoPrune \in [todo : SUBSET Members, sent : SUBSET Members, done : BOOLEAN]
      BY DEF NoPrune
    <2>3. blind \subseteq Members /\ unrecorded \subseteq Members
      BY DEF AuditInit
    <2>4. prune = NoPrune /\ elsewhere = FALSE
      BY DEF AuditInit
    <2> QED
      BY <2>1, <2>2, <2>3, <2>4 DEF PruneTyped
  <1> QED
    BY <1>1, AuditStart, IndexStart DEF AuditAll

LEMMA AuditAllStep == AuditAll /\ [AuditNext]_auditVars => AuditAll'
  <1> SUFFICES ASSUME AuditAll, [AuditNext]_auditVars PROVE AuditAll'
    OBVIOUS
  <1>1. AuditInv /\ IndexInv /\ PruneTyped
    BY DEF AuditAll
  <1>2. IndexInv'
    BY <1>1, IndexStep DEF AuditInv
  <1>3. AuditInv' /\ PruneTyped'
    BY <1>1, AuditStep, PruneTyping
  <1> QED
    BY <1>2, <1>3 DEF AuditAll

LEMMA AuditInvariant == AuditSpec => []AuditAll
BY AuditAllStart, AuditAllStep, PTL DEF AuditSpec

\* Only a plan adds players to remove, and it takes the old ones or the overlooked.
LEMMA PlanTakesOld ==
    ASSUME AuditAll, [AuditNext]_auditVars, NEW p \in prune'.todo \ prune.todo
    PROVE  seenAt[p] = Never \/ Old(seenAt[p]) \/ Overlooked(p)'
  <1>1. AuditInv /\ IndexInv
    BY DEF AuditAll
  <1>2. PlanPrune
    <2>1. ASSUME PruneSends PROVE prune'.todo \subseteq prune.todo
      BY <2>1 DEF PruneSends
    <2>2. ASSUME PruneAnswered PROVE prune'.todo = prune.todo
      BY <2>2 DEF PruneAnswered
    <2>3. ASSUME AuditCrash PROVE prune'.todo = {}
      BY <2>3 DEF AuditCrash, NoPrune
    <2>4. ASSUME \/ ServerRestarts \/ PlayerSeen \/ TimePasses \/ SyncStarts \/ SyncTakesSize \/ Refresh
                 \/ SyncElsewhere \/ AddMember \/ RemoveMember \/ CommandElsewhere \/ ActivateProfile
                 \/ UNCHANGED auditVars
          PROVE  prune' = prune
      BY <2>4 DEF ServerRestarts, PlayerSeen, TimePasses, SyncStarts, SyncTakesSize, Refresh, SyncElsewhere,
                  AddMember, RemoveMember, CommandElsewhere, ActivateProfile, auditVars
    <2> QED
      BY <2>1, <2>2, <2>3, <2>4 DEF AuditNext
  <1>3. SyncEnds /\ UNCHANGED <<now, lines, log, emptied, seenAt>>
    BY <1>2 DEF PlanPrune, SyncEnds
  <1>4. p \in Members /\ Recommended(Merged(archiveRows', liveRows')[p])
    <2>1. PICK requested \in SUBSET Members :
             prune' = [NoPrune EXCEPT !.todo =
                         {q \in (requested \cap whitelist) \ Protected :
                            Recommended(Merged(archiveRows', liveRows')[q])}]
      BY <1>2 DEF PlanPrune
    <2>2. prune'.todo = {q \in (requested \cap whitelist) \ Protected :
                            Recommended(Merged(archiveRows', liveRows')[q])}
      BY <2>1 DEF NoPrune
    <2> QED
      BY <1>1, <2>2 DEF AuditInv
  <1>5. /\ IndexInv'
        /\ \/ seenAt[p] = Never
           \/ p \in blind'
           \/ archiveRows'[p]["seen"] >= seenAt[p]
           \/ liveRows'[p]["seen"] >= seenAt[p]
           \/ \E a \in archives' : \E i \in 1..Len(a) : TellsOf(a[i], p)
           \/ \E i \in 1..Len(log) : TellsOf(log[i], p) /\ i <= emptied
    BY <1>1, <1>3, <1>4, IndexSynced
  <1>6. archiveRows' \in Rows /\ liveRows' \in Rows /\ seenAt[p] \in Never..MaxTime /\ now \in 0..MaxTime
    BY <1>1, <1>4, <1>5 DEF IndexInv, LogsInv
  <1>7. CASE \E a \in archives' : \E i \in 1..Len(a) : TellsOf(a[i], p)
    <2> PICK a \in archives' : \E i \in 1..Len(a) : TellsOf(a[i], p)
      BY <1>7
    <2>1. PICK i \in 1..Len(a) : TellsOf(a[i], p)
      OBVIOUS
    <2>2. IsLog(a)'
      BY <1>5 DEF IndexInv, LogsInv
    <2>3. DOMAIN a = 1..Len(a)
      BY <2>2, LenProperties DEF IsLog
    <2> QED
      BY <1>3, <2>1, <2>3 DEF Overlooked, TellsLast, TellsOf
  <1>8. CASE \E i \in 1..Len(log) : TellsOf(log[i], p) /\ i <= emptied
    <2>1. PICK i \in 1..Len(log) : TellsOf(log[i], p) /\ i <= emptied
      BY <1>8
    <2>2. /\ Len(log) \in Nat /\ \A k \in 1..Len(log) : log[k] \in Line
          /\ emptied \in Nat /\ emptied <= Len(log)
      <3>1. Len(log) \in Nat \ {0} /\ \A k \in 1..Len(log) : log[k] \in Line
        BY <1>1, LogLines DEF IndexInv, LogsInv
      <3>2. /\ emptied \in Nat /\ cursor.offset \in Nat /\ rotated \in BOOLEAN /\ (rotated => emptied = 0)
            /\ ~rotated => cursor.offset <= Len(log) /\ emptied <= cursor.offset
        BY <1>1, AuditConstants DEF IndexInv, LogsInv
      <3> QED
        BY <3>1, <3>2
    <2> DEFINE ls == SubSeq(log, 1, emptied)
    <2>3. ls \in Seq(Line) /\ Len(ls) = emptied /\ ls[i] = log[i]
      <3>1. \A k \in 1..emptied : log[k] \in Line
        BY <2>2
      <3>2. /\ ls \in Seq(Line) /\ Len(ls) = IF 1 <= emptied THEN emptied - 1 + 1 ELSE 0
            /\ \A k \in 1..(emptied - 1 + 1) : ls[k] = log[1 + k - 1]
        BY <2>2, <3>1, SubSeqProperties
      <3> HIDE DEF ls
      <3> QED
        BY <2>1, <2>2, <3>2
    <2> HIDE DEF ls
    <2>4. i \in DOMAIN ls
      BY <2>1, <2>2, <2>3, LenProperties
    <2>5. ls' = ls
      BY <1>3 DEF ls
    <2>6. TellsLast(ls, p)'
      BY <1>3, <2>1, <2>3, <2>4, <2>5 DEF TellsLast, TellsOf
    <2> QED
      BY <2>6 DEF Overlooked, ls
  <1>9. CASE archiveRows'[p]["seen"] >= seenAt[p] \/ liveRows'[p]["seen"] >= seenAt[p]
    <2> SUFFICES ASSUME seenAt[p] # Never PROVE Old(seenAt[p])
      OBVIOUS
    <2>1. "seen" \in Events /\ seenAt[p] \in Times
      BY <1>6, AuditConstants DEF Events, Times
    <2> DEFINE row == Merged(archiveRows', liveRows')[p]
    <2>2. row \in [Events -> Times] /\ row["seen"] >= archiveRows'[p]["seen"] /\ row["seen"] >= liveRows'[p]["seen"]
      BY <1>4, <1>6, <2>1, MergedRows DEF Rows
    <2>3. row["seen"] >= seenAt[p]
      BY <1>4, <1>6, <1>9, <2>1, <2>2, AuditConstants DEF Rows, Times
    <2> HIDE DEF row
    <2> QED
      BY <1>4, <1>6, <2>1, <2>2, <2>3, PlannedOld DEF row
  <1> QED
    BY <1>3, <1>5, <1>7, <1>8, <1>9 DEF Overlooked
--------------------------------------------------------------------------------
(* The whitelist audit: the list of returns.                               *)

FirstNoted == IF Len(events) > ReturnCap THEN Len(events) - ReturnCap + 1 ELSE 1

LEMMA NotedAre ==
    ASSUME AuditAll
    PROVE  /\ Len(events) \in Nat /\ FirstNoted \in Nat \ {0}
           /\ \A i \in FirstNoted..Len(events) : i \in 1..Len(events)
           /\ Noted = {events[i] : i \in FirstNoted..Len(events)}
  <1> DEFINE n == Len(events)
             k == FirstNoted
             s == SubSeq(events, k, n)
  <1>1. n \in Nat /\ k \in Nat \ {0} /\ \A i \in 1..n : events[i] \in Return
    BY AuditConstants, LenProperties DEF AuditAll, AuditInv, EventsInv, FirstNoted
  <1>2. Noted = Range(s)
    BY DEF Noted, FirstNoted
  <1> HIDE DEF n, k
  <1>3. /\ s \in Seq(Return) /\ Len(s) = IF k <= n THEN n - k + 1 ELSE 0
        /\ \A i \in 1..n - k + 1 : s[i] = events[k + i - 1]
    BY <1>1, SubSeqProperties
  <1> HIDE DEF s
  <1>4. Range(s) = {s[i] : i \in 1..Len(s)}
    BY <1>3, LenProperties DEF Range
  <1>5. {s[i] : i \in 1..Len(s)} = {events[i] : i \in k..n}
    <2>1. ASSUME NEW i \in 1..Len(s) PROVE \E j \in k..n : events[j] = s[i]
      <3>1. k + i - 1 \in k..n /\ i \in 1..n - k + 1
        BY <1>1, <1>3, <2>1
      <3> QED
        BY <1>3, <3>1
    <2>2. ASSUME NEW j \in k..n PROVE \E i \in 1..Len(s) : s[i] = events[j]
      <3> DEFINE i == j - k + 1
      <3>1. i \in 1..Len(s) /\ i \in 1..n - k + 1 /\ k + i - 1 = j
        BY <1>1, <1>3, <2>2
      <3> HIDE DEF i
      <3> QED
        BY <1>3, <3>1
    <2> QED
      BY <2>1, <2>2
  <1>6. \A i \in k..n : i \in 1..n
    BY <1>1
  <1> QED
    BY <1>1, <1>2, <1>4, <1>5, <1>6 DEF n, k

LEMMA EventsTyped ==
    ASSUME AuditAll, NEW i \in 1..Len(events)
    PROVE  events[i].player \in Int /\ events[i].at \in Int /\ events[i].of \in Int
  <1>1. events[i] \in Return
    BY LenProperties DEF AuditAll, AuditInv, EventsInv
  <1> DEFINE e == events[i]
  <1>2. e.player \in Members /\ e.at \in Nat /\ e.of \in 0..MaxTime
    <2>1. e \in [player : Members, at : Nat, of : 0..MaxTime]
      BY <1>1 DEF Return
    <2> HIDE DEF e
    <2> QED
      BY <2>1
  <1> HIDE DEF e
  <1>3. e.player \in Int
    <2>1. \A p \in Members : p \in Nat
      BY AuditConstants
    <2>2. e.player \in Nat
      BY <1>2, <2>1, Zenon
    <2> QED
      BY <2>2
  <1>4. e.at \in Int /\ e.of \in Int
    BY <1>2, AuditConstants
  <1> QED
    BY <1>3, <1>4 DEF e

\* Of finitely many returns, each has a time.
LEMMA ReturnsTimed ==
    ASSUME AuditAll
    PROVE  IsFiniteSet(Returns) /\ \A y \in Returns : y.at \in Int
  <1> DEFINE rows == Merged(archiveRows, liveRows)
             inferred == [p \in Members |-> [player |-> p, at |-> rows[p]["added"], of |-> prunedAt[p]]]
  <1>1. Inferred \subseteq {inferred[p] : p \in Members} /\ LoadedPrunes \subseteq Members
    BY DEF Inferred, LoadedPrunes
  <1>2. \A p \in Members : rows[p]["added"] \in Int
    <2> SUFFICES ASSUME NEW p \in Members PROVE rows[p]["added"] \in Int
      OBVIOUS
    <2>1. "added" \in Events /\ archiveRows \in Rows /\ liveRows \in Rows
      BY DEF Events, AuditAll, IndexInv
    <2>2. rows[p] \in [Events -> Times]
      BY <2>1, MergedRows DEF Rows
    <2> HIDE DEF rows
    <2> QED
      BY <2>1, <2>2, AuditConstants DEF Times
  <1>3. \A y \in Inferred : y.at \in Int
    BY <1>1, <1>2
  <1> HIDE DEF inferred, rows
  <1>4. IsFiniteSet(Inferred)
    <2>1. IsFiniteSet({inferred[p] : p \in Members})
      BY AuditConstants, FiniteImage
    <2> QED
      BY <1>1, <2>1, FS_Subset
  <1>5. IsFiniteSet(Noted) /\ \A y \in Noted : y.at \in Int
    <2>1. Noted = {events[i] : i \in FirstNoted..Len(events)}
      BY NotedAre
    <2>2. IsFiniteSet(FirstNoted..Len(events))
      BY NotedAre, FS_Interval
    <2>3. IsFiniteSet({events[i] : i \in FirstNoted..Len(events)})
      BY <2>2, FiniteImage
    <2>4. \A i \in 1..Len(events) : events[i].at \in Int
      BY EventsTyped
    <2> QED
      BY <2>1, <2>3, <2>4, NotedAre
  <1> QED
    BY <1>3, <1>4, <1>5, FS_Union DEF Returns

\* A noted return that is loaded is listed, or others that are no older fill the list.
LEMMA LoadedIsListed ==
    ASSUME AuditAll, NEW e \in Noted
    PROVE  e \in ListedReturns \/ CrowdedOut(e)
  <1> DEFINE ahead == {y \in Returns : Precedes(y, e)}
             crowd == {y \in Returns : y # e /\ y.at >= e.at}
  <1>1. e \in Returns /\ IsFiniteSet(Returns) /\ \A y \in Returns : y.at \in Int
    BY ReturnsTimed DEF Returns
  <1>2. e \notin Inferred
    BY DEF Inferred
  <1>3. ASSUME NEW y \in Returns, Precedes(y, e)
        PROVE  y # e /\ y.at >= e.at
    <2>1. PICK i \in 1..Len(events) : e = events[i]
      BY NotedAre
    <2>2. e.player \in Int /\ e.of \in Int /\ e.at \in Int
      BY <2>1, EventsTyped
    <2>3. y.at \in Int
      BY <1>1
    <2> QED
      BY <1>2, <1>3, <2>2, <2>3 DEF Precedes
  <1>4. ahead \subseteq crowd /\ crowd \subseteq Returns
    BY <1>3
  <1>5. e \in ListedReturns <=> Cardinality(ahead) < ReturnCap
    BY <1>1 DEF ListedReturns
  <1>6. CrowdedOut(e) <=> Cardinality(crowd) >= ReturnCap
    BY DEF CrowdedOut
  <1> HIDE DEF ahead, crowd
  <1>7. IsFiniteSet(crowd)
    BY <1>1, <1>4, FS_Subset
  <1>8. IsFiniteSet(ahead) /\ Cardinality(ahead) <= Cardinality(crowd)
    BY <1>4, <1>7, FS_Subset
  <1>9. Cardinality(ahead) \in Nat /\ Cardinality(crowd) \in Nat /\ ReturnCap \in Nat
    BY <1>7, <1>8, FS_CardinalityType, AuditConstants
  <1> QED
    BY <1>5, <1>6, <1>8, <1>9

\* One that is no more loaded has as many after it as are listed.
LEMMA UnloadedIsCrowdedOut ==
    ASSUME AuditAll, NEW i \in 1..Len(events), i < FirstNoted
    PROVE  CrowdedOut(events[i])
  <1> DEFINE n == Len(events)
             k == FirstNoted
             later == [j \in k..n |-> events[j]]
             crowd == {y \in Returns : y # events[i] /\ y.at >= events[i].at}
  <1>1. /\ n \in Nat /\ k \in Nat \ {0} /\ ReturnCap \in Nat \ {0} /\ i \in Nat
        /\ n > ReturnCap /\ k = n - ReturnCap + 1
    BY NotedAre, AuditConstants DEF FirstNoted
  <1>2. \A j \in k..n : j \in 1..n /\ i < j
    BY <1>1
  <1>3. \A j \in k..n : events[j] # events[i] /\ events[j].at >= events[i].at
    <2> SUFFICES ASSUME NEW j \in k..n
                 PROVE  events[j] # events[i] /\ events[j].at >= events[i].at
      OBVIOUS
    <2>1. events[i].at <= events[j].at /\ events[i] # events[j]
      BY <1>2 DEF AuditAll, AuditInv, EventsInv
    <2>2. events[i].at \in Int /\ events[j].at \in Int
      BY <1>2, EventsTyped
    <2> QED
      BY <2>1, <2>2
  <1>4. Noted = {events[j] : j \in k..n} /\ Noted \subseteq crowd
    BY <1>3, NotedAre DEF Returns
  <1>5. \A a, b \in k..n : events[a] = events[b] => a = b
    <2> SUFFICES ASSUME NEW a \in k..n, NEW b \in k..n, events[a] = events[b], a # b PROVE FALSE
      OBVIOUS
    <2>1. a < b \/ b < a
      BY <1>1
    <2> QED
      BY <1>2, <2>1 DEF AuditAll, AuditInv, EventsInv
  <1>6. \A j \in k..n : events[j] \in crowd
    BY <1>4
  <1>7. later \in Injection(k..n, crowd)
    BY <1>5, <1>6 DEF Injection, IsInjective
  <1>8. CrowdedOut(events[i]) <=> Cardinality(crowd) >= ReturnCap
    BY DEF CrowdedOut
  <1>9. IsFiniteSet(crowd)
    <2>1. crowd \subseteq Returns
      OBVIOUS
    <2> HIDE DEF crowd
    <2> QED
      BY <2>1, ReturnsTimed, FS_Subset
  <1> HIDE DEF n, k, later, crowd
  <1>10. Cardinality(k..n) = ReturnCap
    BY <1>1, FS_Interval
  <1>11. Cardinality(k..n) <= Cardinality(crowd)
    BY <1>7, <1>9, FS_Injection
  <1>12. Cardinality(crowd) \in Nat
    BY <1>9, FS_CardinalityType
  <1> QED
    BY <1>1, <1>8, <1>10, <1>11, <1>12

LEMMA NotedAreListed == AuditAll => ReturnsAreListed
  <1> SUFFICES ASSUME AuditAll, NEW p \in whitelist \ unrecorded, prunedAt[p] # Never
               PROVE  \E x \in Returns \cup Range(events) :
                         /\ x.player = p /\ x.of = prunedAt[p]
                         /\ x \in ListedReturns \/ CrowdedOut(x)
    BY DEF ReturnsAreListed
  <1>1. PICK i \in 1..Len(events) : events[i].player = p /\ events[i].of = prunedAt[p]
    BY DEF AuditAll, AuditInv, ReturnNoted
  <1>2. events[i] \in Range(events)
    BY LenProperties DEF AuditAll, AuditInv, EventsInv, Range
  <1>3. CASE i < FirstNoted
    BY <1>1, <1>2, <1>3, UnloadedIsCrowdedOut
  <1>4. CASE ~ (i < FirstNoted)
    <2>1. events[i] \in Noted
      BY <1>4, NotedAre
    <2> QED
      BY <1>1, <1>2, <2>1, LoadedIsListed
  <1> QED
    BY <1>3, <1>4

--------------------------------------------------------------------------------
(* A step of the dashboard is a step of one of the parts.                  *)

LEMMA PartStep ==
    ASSUME [DashboardNext]_dashboardVars
    PROVE  /\ [Next]_vars
           /\ [AccountNext \/ DownloadNext]_shopVars
           /\ [AutomationNext]_automationVars
           /\ [RecordsNext]_recordVars
           /\ [AccessNext]_accessVars
           /\ [ProfilesNext]_profileVars
           /\ [ConsoleNext]_consoleVars
  <1>1. [Next]_vars
    BY DEF DashboardNext, dashboardVars
  <1>2. [AccountNext \/ DownloadNext]_shopVars
    BY DEF DashboardNext, dashboardVars, shopVars, accountVars, downloadVars
  <1>3. [AutomationNext]_automationVars
    BY DEF DashboardNext, dashboardVars
  <1>4. [RecordsNext]_recordVars
    BY DEF DashboardNext, dashboardVars
  <1>5. [ProfilesNext]_profileVars
    BY DEF DashboardNext, dashboardVars
  <1>6. [AccessNext]_accessVars
    BY DEF DashboardNext, dashboardVars
  <1>7. [ConsoleNext]_consoleVars
    BY DEF DashboardNext, dashboardVars
  <1> QED
    BY <1>1, <1>2, <1>3, <1>4, <1>5, <1>6, <1>7

LEMMA PartStart ==
    DashboardInit => /\ AccessInv /\ ProfilesInv /\ ConsoleAll
                     /\ Init /\ ShopInit /\ AutomationInit /\ RecordsInit
  BY AccessAssumption, AccessInitial, ProfilesStart, ConsoleAllStart DEF DashboardInit

LEMMA PartsInvariant == DashboardSpec => [](AccessInv /\ ProfilesInv /\ ConsoleAll)
  <1> DEFINE PartsInv == AccessInv /\ ProfilesInv /\ ConsoleAll
  <1>1. DashboardInit => PartsInv
    BY PartStart
  <1>2. PartsInv /\ [DashboardNext]_dashboardVars => PartsInv'
    BY PartStep, AccessAssumption, AccessStep, ProfilesStep, ConsoleAllStep
  <1> QED
    BY <1>1, <1>2, PTL DEF DashboardSpec

\* The dashboard's behaviours are behaviours of each part on its own, so that what
\* is proved of the updater, of the shop's accounts and downloads, of the update
\* automation and of the staff's records holds in them.
THEOREM PartsCorrect == DashboardSpec => Spec /\ ShopSpec /\ AutomationSpec /\ RecordsSpec
  <1>1. DashboardInit => Init /\ ShopInit /\ AutomationInit /\ RecordsInit
    BY PartStart
  <1>2. [DashboardNext]_dashboardVars =>
          /\ [Next]_vars
          /\ [AccountNext \/ DownloadNext]_shopVars
          /\ [AutomationNext]_automationVars
          /\ [RecordsNext]_recordVars
    BY PartStep
  <1> QED
    BY <1>1, <1>2, PTL DEF DashboardSpec, Spec, ShopSpec, AutomationSpec, RecordsSpec

\* So the parts' theorems are theorems of the dashboard.
THEOREM DashboardCorrect ==
    DashboardSpec => /\ []TypeOK
                     /\ [](TrackingExact /\ ScriptLaunchesTracked)
                     /\ [](StateAuthorisesOnce /\ AppliedIsInstalled)
                     /\ [](ConfigFollowsAdministrator /\ ScheduledRunsUnderLock)
                     /\ []OneActive /\ EndedSessionsStay
  BY PartsCorrect, TypeCorrect, TrackingCorrect, ScriptCorrect, StateCorrect, AppliedCorrect, FollowsCorrect,
     ScheduledRunsCorrect, OneActiveCorrect, EndedSessionsCorrect, PTL

\* A profile is deleted only when its server does not run (delete_profile looks at
\* the pid file and not at the process), unless it was left with its server in
\* between or moved while the server ran.
THEOREM KeptCorrect == DashboardSpec => KeptWhileRunning
  <1>1. ProfilesInv /\ [ProfilesNext]_profileVars =>
          \A p \in ProfileIds :
              p \in DOMAIN profiles /\ p \notin DOMAIN profiles' /\ p \notin strayed =>
                  \A d \in Folders : servers[d] = "none" \/ home[d] # p
    <2> SUFFICES ASSUME ProfilesInv, [ProfilesNext]_profileVars, NEW p \in ProfileIds,
                        p \in DOMAIN profiles, p \notin DOMAIN profiles', p \notin strayed,
                        NEW d \in Folders
                 PROVE  home[d] # p
      OBVIOUS
    <2>1. DeleteProfile(p)
      BY RemovedByDeletion
    <2>2. Deletable(p)
      BY <2>1 DEF DeleteProfile
    <2> QED
      BY <2>2, DeletedHomeless
  <1>2. [DashboardNext]_dashboardVars => [ProfilesNext]_profileVars
    BY PartStep
  <1> QED
    BY <1>1, <1>2, PartsInvariant, PTL DEF DashboardSpec, KeptWhileRunning

\* The audit's index, its records and its cursor keep their types, over rotations of
\* the log, syncs that read parts of it, and syncs and commands of other profiles.
THEOREM AuditTypeCorrect == AuditSpec => []AuditTypeOK
BY AuditInvariant, AuditAllTyped, PTL

\* Whoever is whitelisted again after a removal is listed as returned, or has a
\* noted return that newer ones crowd out of the list (record_whitelist_add and
\* _load_rewhitelist_history with its limits), whatever the prune that awaits the
\* server overlaps with and whichever profile is active, but for additions past the
\* records and removals from another profile's whitelist.
THEOREM ReturnsCorrect == AuditSpec => []ReturnsAreListed
BY AuditInvariant, NotedAreListed, PTL

\* The console's tailer passes no line without handing it out, however its reads
\* interleave with starts, replacements of latest.log and resets
\* (minecraft_server.py), except where it cannot know that the log is another.
THEOREM NoLineSkippedCorrect == DashboardSpec => []NoLineSkipped
  <1>1. ConsoleAll => NoLineSkipped
    BY DEF ConsoleAll, ConsoleInv, Followed, NoLineSkipped
  <1> QED
    BY <1>1, PartsInvariant, PTL

\* A viewer is sent the buffered lines and each line handed out from then on once
\* and in the log's order, however its reads of the buffer and of its queue
\* interleave with the tailer's calls (get_recent_logs and log_callback), for any
\* log, buffer, queue and number of viewers, unless its queue overflowed or the log
\* was read again after it had forgotten what it was sent, or with other times for
\* its lines.
THEOREM EveryLineCorrect == DashboardSpec => []EveryLineOnce
  <1>1. ConsoleAll => EveryLineOnce
    BY OwedIsPending DEF ConsoleAll
  <1> QED
    BY <1>1, PartsInvariant, PTL

\* A demotion whose saves were all written gives the account the rights of its
\* promotion back (_apply_staff_snapshot replays role, grants and revokes into
\* rbac_settings.json), for any number of permissions and whatever was granted,
\* cut short or torn before.
THEOREM DemotionCorrect == DashboardSpec => []DemotionRestores
  <1>1. AccessInv => DemotionRestores
    BY DEF AccessInv
  <1> QED
    BY <1>1, PartsInvariant, PTL

\* A prune is planned for nobody who has joined or left within the threshold
\* (build_manual_prune_plan on the rows of _sync_archives and _sync_latest),
\* however often the logs rotated, the server restarted or other profiles were
\* active between two syncs or in the middle of one, unless a sync misread one of
\* the player's lines, the line is in a log archived during the sync, or another
\* profile's sync deleted its row.
THEOREM NoFreshCorrect == AuditSpec => NoFreshPlayerPlanned
  <1>1. AuditAll /\ [AuditNext]_auditVars =>
          \A p \in prune'.todo \ prune.todo : seenAt[p] = Never \/ Old(seenAt[p]) \/ Overlooked(p)'
    BY PlanTakesOld
  <1> QED
    BY <1>1, AuditInvariant, PTL DEF AuditSpec, NoFreshPlayerPlanned

\* Every variable of every part keeps its type: the updater's, the marketplace's,
\* the automation's, the staff's records and accesses, the profiles' and the console's.
THEOREM DashboardTypeCorrect == DashboardSpec => []DashboardTypeOK
  <1>1. DashboardInit => part \in Parts
    BY DEF DashboardInit
  <1>2. part \in Parts /\ [DashboardNext]_dashboardVars => (part \in Parts)'
    BY DEF DashboardNext, dashboardVars
  <1>3. DashboardSpec => [](part \in Parts)
    BY <1>1, <1>2, PTL DEF DashboardSpec
  <1>4. AutomationInv => AutomationTypeOK
    BY DEF AutomationInv
  <1>5. RecordsInv => RecordsTypeOK
    BY DEF RecordsInv
  <1>6. AccessInv => AccessTypeOK
    BY DEF AccessInv
  <1>7. ProfilesInv => ProfilesTypeOK
    BY DEF ProfilesInv
  <1>8. ConsoleAll => ConsoleTypeOK
    BY ConsoleTyped DEF ConsoleAll
  <1>9. part \in Parts /\ TypeOK /\ ShopTypeOK /\ AutomationInv /\ RecordsInv /\ AccessInv /\ ProfilesInv /\ ConsoleAll
          => DashboardTypeOK
    BY <1>4, <1>5, <1>6, <1>7, <1>8 DEF DashboardTypeOK
  <1> QED
    BY <1>3, <1>9, PartsCorrect, TypeCorrect, ShopTypeInvariant, AutomationInvariant, RecordsInvariant, PartsInvariant, PTL
================================================================================
