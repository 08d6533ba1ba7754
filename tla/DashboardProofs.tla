----------------------------- MODULE DashboardProofs -----------------------------
(***************************************************************************)
(* Proofs about the update automation, the marketplace account and         *)
(* downloads, the staff's records and the staff's rights, for any number   *)
(* of processes, states, sessions, members, players, identifiers,          *)
(* accounts and permissions.                                               *)
(***************************************************************************)
EXTENDS UpdateAutomation, VoxelShop, StaffRecords, StaffAccess,
        FiniteSetTheorems, SequenceTheorems, TLAPS

--------------------------------------------------------------------------------
(* The update automation.                                                  *)

\* A scheduled run belongs to a started scheduler, which holds the lock.
AutomationLock ==
    /\ \A w \in Processes : scheduled[w].active => w \in running
    /\ \A w \in running : lockHolder = w

\* A configuration that a run holds is what the administrator wants, too.
HeldFollows(runs) == \A w \in Processes : runs[w].active => runs[w].config.apply = wish

AutomationFollows ==
    overlapped \/ (config.apply = wish /\ HeldFollows(scheduled) /\ HeldFollows(manual))

AutomationInv == AutomationTypeOK /\ AutomationLock /\ AutomationFollows

\* A run's end saves what the run holds, but for the time.
LEMMA SavedKeeps ==
    ASSUME NEW run \in Runs
    PROVE  Saved(run) \in Configs /\ Saved(run).apply = run.config.apply
BY DEF Runs, Configs, Saved

\* Every variable of the update automation keeps its type (AutomationTypeOK).
LEMMA AutomationTyping == AutomationInv /\ [AutomationNext]_automationVars => AutomationTypeOK'
<1> SUFFICES ASSUME AutomationInv, [AutomationNext]_automationVars PROVE AutomationTypeOK'
    OBVIOUS
<1> USE DEF AutomationInv, AutomationTypeOK, Configs, Runs, NoRun
<1>1. CASE Configure
      BY <1>1 DEF Configure
<1>2. CASE IntervalPasses
      BY <1>2 DEF IntervalPasses
<1>3. ASSUME NEW w \in Processes, SchedulerStart(w) PROVE AutomationTypeOK'
      BY <1>3 DEF SchedulerStart
<1>4. ASSUME NEW w \in Processes, SchedulerStop(w) PROVE AutomationTypeOK'
      BY <1>4 DEF SchedulerStop, StopAfterTask
<1>5. ASSUME NEW w \in Processes, LoopRuns(w) PROVE AutomationTypeOK'
      BY <1>5 DEF LoopRuns, Begun
<1>6. ASSUME NEW w \in Processes, RunByHand(w) PROVE AutomationTypeOK'
      BY <1>6 DEF RunByHand, Begun
<1>7. ASSUME NEW w \in Processes, RunEnds(w) PROVE AutomationTypeOK'
  <2>1. scheduled[w] \in Runs /\ manual[w] \in Runs
        OBVIOUS
  <2>2. config' \in Configs
        BY <1>7, <2>1, SavedKeeps DEF RunEnds
  <2>3. NoRun \in Runs
        OBVIOUS
  <2>4. ASSUME NEW runs \in [Processes -> Runs]
        PROVE  [runs EXCEPT ![w] = NoRun] \in [Processes -> Runs]
        BY <2>3, Zenon
  <2>5. scheduled' \in [Processes -> Runs] /\ manual' \in [Processes -> Runs]
    <3>1. scheduled \in [Processes -> Runs] /\ manual \in [Processes -> Runs]
          BY Zenon
    <3>2. scheduled' \in {scheduled, [scheduled EXCEPT ![w] = NoRun]}
          BY <1>7, Zenon DEF RunEnds
    <3>3. manual' \in {manual, [manual EXCEPT ![w] = NoRun]}
          BY <1>7, Zenon DEF RunEnds
    <3> HIDE DEF NoRun, Runs
    <3> QED BY <3>1, <3>2, <3>3, <2>4
  <2>6. UNCHANGED <<wish, overlapped, lockHolder, running>>
        BY <1>7 DEF RunEnds
  <2> QED BY <2>2, <2>5, <2>6
<1>8. ASSUME NEW w \in Processes, AutomationCrash(w) PROVE AutomationTypeOK'
      BY <1>8 DEF AutomationCrash
<1>9. CASE UNCHANGED automationVars
      BY <1>9 DEF automationVars
<1> QED BY <1>1, <1>2, <1>3, <1>4, <1>5, <1>6, <1>7, <1>8, <1>9 DEF AutomationNext

\* A scheduler's runs stay under its lock: a stop ends the run with the lock, and
\* a crash drops both.
LEMMA AutomationLocking == AutomationInv /\ [AutomationNext]_automationVars => AutomationLock'
<1> SUFFICES ASSUME AutomationInv, [AutomationNext]_automationVars PROVE AutomationLock'
    OBVIOUS
<1> USE AutomationAssumption DEF AutomationInv, AutomationTypeOK, AutomationLock, Configs, Runs, NoRun
<1>1. CASE Configure
      BY <1>1 DEF Configure
<1>2. CASE IntervalPasses
      BY <1>2 DEF IntervalPasses
<1>3. ASSUME NEW w \in Processes, SchedulerStart(w) PROVE AutomationLock'
      BY <1>3 DEF SchedulerStart
<1>4. ASSUME NEW w \in Processes, SchedulerStop(w) PROVE AutomationLock'
      BY <1>4 DEF SchedulerStop, StopAfterTask
<1>5. ASSUME NEW w \in Processes, LoopRuns(w) PROVE AutomationLock'
      BY <1>5 DEF LoopRuns, Begun
<1>6. ASSUME NEW w \in Processes, RunByHand(w) PROVE AutomationLock'
      BY <1>6 DEF RunByHand
<1>7. ASSUME NEW w \in Processes, RunEnds(w) PROVE AutomationLock'
      BY <1>7 DEF RunEnds
<1>8. ASSUME NEW w \in Processes, AutomationCrash(w) PROVE AutomationLock'
      BY <1>8 DEF AutomationCrash
<1>9. CASE UNCHANGED automationVars
      BY <1>9 DEF automationVars
<1> QED BY <1>1, <1>2, <1>3, <1>4, <1>5, <1>6, <1>7, <1>8, <1>9 DEF AutomationNext

\* What a run holds and will save is the configuration of its start, which an
\* administrator's save in between makes stale: it then counts as overlapped.
LEMMA AutomationFollowing == AutomationInv /\ [AutomationNext]_automationVars => AutomationFollows'
<1> SUFFICES ASSUME AutomationInv, [AutomationNext]_automationVars PROVE AutomationFollows'
    OBVIOUS
<1> USE DEF AutomationInv, AutomationTypeOK, AutomationFollows, HeldFollows, Configs, Runs, NoRun
<1>1. CASE Configure
      BY <1>1 DEF Configure
<1>2. CASE IntervalPasses
      BY <1>2 DEF IntervalPasses
<1>3. ASSUME NEW w \in Processes, SchedulerStart(w) PROVE AutomationFollows'
      BY <1>3 DEF SchedulerStart
<1>4. ASSUME NEW w \in Processes, SchedulerStop(w) PROVE AutomationFollows'
      BY <1>4 DEF SchedulerStop, StopAfterTask
<1>5. ASSUME NEW w \in Processes, LoopRuns(w) PROVE AutomationFollows'
      BY <1>5 DEF LoopRuns, Begun
<1>6. ASSUME NEW w \in Processes, RunByHand(w) PROVE AutomationFollows'
      BY <1>6 DEF RunByHand, Begun
<1>7. ASSUME NEW w \in Processes, RunEnds(w) PROVE AutomationFollows'
  <2>1. scheduled[w] \in Runs /\ manual[w] \in Runs
        OBVIOUS
  <2>2. ~overlapped => config'.apply = wish
        BY <1>7, <2>1, SavedKeeps DEF RunEnds
  <2>3. \A v \in Processes : /\ scheduled'[v].active => scheduled'[v] = scheduled[v]
                             /\ manual'[v].active => manual'[v] = manual[v]
        BY <1>7 DEF RunEnds
  <2> QED BY <1>7, <2>2, <2>3 DEF RunEnds
<1>8. ASSUME NEW w \in Processes, AutomationCrash(w) PROVE AutomationFollows'
      BY <1>8 DEF AutomationCrash
<1>9. CASE UNCHANGED automationVars
      BY <1>9 DEF automationVars
<1> QED BY <1>1, <1>2, <1>3, <1>4, <1>5, <1>6, <1>7, <1>8, <1>9 DEF AutomationNext

\* The three parts of the invariant hold throughout.
LEMMA AutomationInvariant == AutomationSpec => []AutomationInv
<1>1. ASSUME AutomationInit PROVE AutomationInv
  <2> USE <1>1 DEF AutomationInit
  <2>1. AutomationTypeOK
        BY DEF AutomationTypeOK, Configs, Runs, NoRun
  <2>2. AutomationLock
        BY DEF AutomationLock, NoRun
  <2>3. AutomationFollows
        BY DEF AutomationFollows, HeldFollows, NoRun
  <2> QED BY <2>1, <2>2, <2>3 DEF AutomationInv
<1>2. AutomationInv /\ [AutomationNext]_automationVars => AutomationInv'
      BY AutomationTyping, AutomationLocking, AutomationFollowing DEF AutomationInv
<1> QED BY <1>1, <1>2, PTL DEF AutomationSpec

\* The automation's configuration follows the administrator, but for a run that
\* was under way when it was saved.
THEOREM FollowsCorrect == AutomationSpec => []ConfigFollowsAdministrator
<1>1. AutomationInv => ConfigFollowsAdministrator
      BY DEF AutomationInv, AutomationFollows, ConfigFollowsAdministrator
<1> QED BY <1>1, AutomationInvariant, PTL

\* Scheduled runs of all processes exclude each other.
THEOREM ScheduledRunsCorrect == AutomationSpec => []ScheduledRunsUnderLock
<1>1. AutomationInv => ScheduledRunsUnderLock
      BY DEF AutomationInv, AutomationLock, ScheduledRunsUnderLock
<1> QED BY <1>1, AutomationInvariant, PTL

--------------------------------------------------------------------------------
(* The marketplace.                                                        *)

\* A state that was not generated has connected nobody, and one that is still
\* in the file neither: it is taken out of it before it is looked at.
AuthInv ==
    /\ pending \in [AuthStates -> Ages]
    /\ grants \in [AuthStates -> 0..2]
    /\ \A s \in AuthStates :
          /\ grants[s] <= 1
          /\ s \notin issued \/ pending[s] # "none" => grants[s] = 0

\* It is inductive over the account's and the downloads' steps.
LEMMA AuthInvariant == ShopSpec => []AuthInv
<1>1. ShopInit => AuthInv
      BY DEF ShopInit, AuthInv, Ages
<1>2. AuthInv /\ [AccountNext \/ DownloadNext]_shopVars => AuthInv'
  <2> SUFFICES ASSUME AuthInv, [AccountNext \/ DownloadNext]_shopVars PROVE AuthInv'
      OBVIOUS
  <2> USE DEF AuthInv, Ages
  <2>1. CASE StartAuthorization
    <3>1. PICK s \in AuthStates \ issued :
             /\ issued' = issued \cup {s}
             /\ pending' = [x \in AuthStates |-> CASE x = s -> "now"
                                                   [] x \in KeptStates -> pending[x]
                                                   [] OTHER -> "none"]
          BY <2>1 DEF StartAuthorization
    <3>2. grants' = grants
          BY <2>1 DEF StartAuthorization
    <3>3. pending' \in [AuthStates -> Ages]
          BY <3>1
    <3>4. ASSUME NEW x \in AuthStates, x \notin issued' \/ pending'[x] # "none" PROVE grants'[x] = 0
          BY <3>1, <3>2, <3>4
    <3> QED BY <3>2, <3>3, <3>4
  <2>2. CASE CompleteAuthorization
    <3>1. PICK s \in issued, success \in BOOLEAN :
             /\ pending' = [pending EXCEPT ![s] = "none"]
             /\ \/ /\ pending[s] \in {"now", "young"}
                   /\ grants[s] < 2
                   /\ grants' = [grants EXCEPT ![s] = @ + 1]
                \/ grants' = grants
          BY <2>2, Zenon DEF CompleteAuthorization, Pop
    <3>2. issued' = issued
          BY <2>2 DEF CompleteAuthorization
    <3>3. pending' \in [AuthStates -> Ages]
          BY <3>1
    <3>4. grants' \in [AuthStates -> 0..2]
          BY <3>1
    <3>5. ASSUME NEW x \in AuthStates
          PROVE  /\ grants'[x] <= 1
                 /\ x \notin issued \/ pending'[x] # "none" => grants'[x] = 0
          BY <3>1, <3>5
    <3> QED BY <3>2, <3>3, <3>4, <3>5
  <2>3. CASE ConnectToken \/ TokenVerified \/ Disconnect
        BY <2>3 DEF ConnectToken, TokenVerified, Disconnect
  <2>4. CASE StatesAge
        BY <2>4 DEF StatesAge
  <2>5. CASE DownloadNext \/ UNCHANGED shopVars
        BY <2>5 DEF DownloadNext, shopVars, accountVars, SaveFolder, StartSession, GetSession,
                    ApplySession, SessionApplied, Download, SessionsAge
  <2> QED BY <2>1, <2>2, <2>3, <2>4, <2>5 DEF AccountNext
<1> QED BY <1>1, <1>2, PTL DEF ShopSpec

\* A state connects an account at most once, however often it is redeemed.
THEOREM StateCorrect == ShopSpec => []StateAuthorisesOnce
<1>1. AuthInv => StateAuthorisesOnce
      BY DEF AuthInv, StateAuthorisesOnce
<1> QED BY <1>1, AuthInvariant, PTL

\* The sessions keep their type; besides, one that reads applied was installed.
AppliedInv == sessions \in [Sessions -> Session] /\ AppliedIsInstalled

\* Other steps than a session's end make no session read applied.
LEMMA AppliedKept ==
    ASSUME AppliedInv, sessions' \in [Sessions -> Session], installedBy \subseteq installedBy',
           \A d \in Sessions : sessions'[d].status = "applied" => sessions[d].status = "applied"
    PROVE  AppliedInv'
BY DEF AppliedInv, AppliedIsInstalled

LEMMA ActiveSessionsKept ==
    ASSUME AppliedInv
    PROVE  /\ ActiveSessions \in [Sessions -> Session]
           /\ \A d \in Sessions : ActiveSessions[d].status # "applied"
<1>1. \A d \in Sessions :
         /\ sessions[d] \in Session
         /\ [sessions[d] EXCEPT !.status = "none"] \in Session
         /\ [sessions[d] EXCEPT !.status = "none"].status = "none"
      BY DEF AppliedInv, Session, Statuses
<1>2. \A d \in Sessions : Active(d) => sessions[d].status # "applied"
      BY DEF Active
<1> QED BY <1>1, <1>2 DEF ActiveSessions

LEMMA LookedKept ==
    ASSUME AppliedInv, NEW d \in Sessions
    PROVE  /\ Looked(d) \in [Sessions -> Session]
           /\ \A x \in Sessions : Looked(d)[x].status = "applied" => sessions[x].status = "applied"
<1>1. /\ [sessions[d] EXCEPT !.status = "ready"] \in Session
      /\ [sessions[d] EXCEPT !.status = "ready"].status = "ready"
      BY DEF AppliedInv, Session, Statuses
<1> QED BY <1>1, ActiveSessionsKept DEF AppliedInv, Looked

\* The end of an application, whose jar may be gone by then.
LEMMA SessionAppliedKeeps ==
    ASSUME AppliedInv, SessionApplied
    PROVE  AppliedInv'
<1>1. PICK d \in Sessions :
         \/ installedBy' = installedBy \cup {d} /\ sessions' = Closed(d, TRUE)
         \/ sessions' = Closed(d, FALSE) /\ UNCHANGED installedBy
         \/ UNCHANGED <<sessions, installedBy>>
      BY DEF SessionApplied
<1>2. /\ sessions \in [Sessions -> Session] /\ sessions[d] \in Session
      /\ "applied" \in Statuses /\ "failed" \in Statuses
      BY DEF AppliedInv, Statuses
<1>3. CASE installedBy' = installedBy \cup {d} /\ sessions' = Closed(d, TRUE)
  <2>1. sessions' \in [Sessions -> Session]
        BY <1>2, <1>3 DEF Closed, Session
  <2>2. \A x \in Sessions : x # d => sessions'[x] = sessions[x]
        BY <1>2, <1>3 DEF Closed
  <2> QED BY <1>3, <2>1, <2>2 DEF AppliedInv, AppliedIsInstalled
<1>4. CASE sessions' = Closed(d, FALSE) /\ UNCHANGED installedBy
  <2>1. sessions' \in [Sessions -> Session]
        BY <1>2, <1>4 DEF Closed, Session
  <2>2. \A x \in Sessions : sessions'[x].status = "applied" => sessions[x].status = "applied"
        BY <1>2, <1>4 DEF Closed, Session
  <2> QED BY <1>4, <2>1, <2>2, AppliedKept
<1>5. CASE UNCHANGED <<sessions, installedBy>>
      BY <1>5 DEF AppliedInv, AppliedIsInstalled
<1> QED BY <1>1, <1>3, <1>4, <1>5

LEMMA AppliedInvariant == ShopSpec => []AppliedInv
<1>1. ShopInit => AppliedInv
  <2>1. 1 \in 1..Releases
        BY ReleasesAssumption
  <2> QED BY <2>1, ReleasesAssumption DEF ShopInit, AppliedInv, AppliedIsInstalled, NoSession, Session, Statuses
<1>2. AppliedInv /\ [AccountNext \/ DownloadNext]_shopVars => AppliedInv'
  <2> SUFFICES ASSUME AppliedInv, [AccountNext \/ DownloadNext]_shopVars PROVE AppliedInv'
      OBVIOUS
  <2>1. CASE UNCHANGED <<sessions, installedBy>>
        BY <2>1 DEF AppliedInv, AppliedIsInstalled
  <2>2. CASE SaveFolder
        BY <2>2, ActiveSessionsKept, AppliedKept DEF SaveFolder
  <2>3. CASE StartSession
    <3>1. PICK d \in Sessions, v \in 2..Releases :
             sessions' = [ActiveSessions EXCEPT ![d] = [status |-> "waiting", expected |-> v, old |-> FALSE]]
          BY <2>3 DEF StartSession
    <3>2. [status |-> "waiting", expected |-> v, old |-> FALSE] \in Session
          BY ReleasesAssumption DEF Session, Statuses
    <3> QED BY <2>3, <3>1, <3>2, ActiveSessionsKept, AppliedKept DEF StartSession
  <2>4. CASE GetSession \/ ApplySession
        BY <2>4, LookedKept, AppliedKept DEF GetSession, ApplySession
  <2>5. CASE SessionApplied
        BY <2>5, SessionAppliedKeeps
  <2>6. CASE SessionsAge
    <3>1. \A d \in Sessions :
             /\ [sessions[d] EXCEPT !.old = @ \/ sessions[d].status # "none"] \in Session
             /\ [sessions[d] EXCEPT !.old = @ \/ sessions[d].status # "none"].status = sessions[d].status
          BY DEF AppliedInv, Session
    <3> QED BY <2>6, <3>1, AppliedKept DEF SessionsAge
  <2>7. CASE Download \/ AccountNext \/ UNCHANGED shopVars
        BY <2>1, <2>7 DEF Download, shopVars, AccountNext, StartAuthorization, CompleteAuthorization,
                          ConnectToken, TokenVerified, Disconnect, StatesAge, downloadVars
  <2> QED BY <2>2, <2>3, <2>4, <2>5, <2>6, <2>7 DEF DownloadNext
<1> QED BY <1>1, <1>2, PTL DEF ShopSpec

\* A download session reads applied only if its own jar was put in place, also
\* when it is applied twice at once (apply_voxelshop_browser_download_session).
THEOREM AppliedCorrect == ShopSpec => []AppliedIsInstalled
<1>1. AppliedInv => AppliedIsInstalled
      BY DEF AppliedInv
<1> QED BY <1>1, AppliedInvariant, PTL

\* The rest of the marketplace's types.
ShopTyped ==
    /\ credential \in AuthStates \cup {ByHand, NoAccount}
    /\ issued \subseteq AuthStates
    /\ verifying \subseteq AuthStates \cup {ByHand}
    /\ started \subseteq Sessions
    /\ folder \subseteq 1..Releases
    /\ applying \in [Sessions -> 0..2]
    /\ installed \in 1..Releases
    /\ installedBy \subseteq Sessions

LEMMA AccountTyped ==
    ASSUME ShopTyped, AccountNext
    PROVE  ShopTyped'
<1>1. UNCHANGED downloadVars
      BY DEF AccountNext, StartAuthorization, CompleteAuthorization, ConnectToken, TokenVerified, Disconnect, StatesAge
<1>2. issued' \subseteq AuthStates
      BY DEF AccountNext, StartAuthorization, CompleteAuthorization, ConnectToken, TokenVerified, Disconnect, StatesAge,
             ShopTyped
<1>3. verifying' \subseteq AuthStates \cup {ByHand}
      BY DEF AccountNext, StartAuthorization, CompleteAuthorization, ConnectToken, TokenVerified, Disconnect, StatesAge,
             ShopTyped
<1>4. credential' \in AuthStates \cup {ByHand, NoAccount}
      BY DEF AccountNext, StartAuthorization, CompleteAuthorization, ConnectToken, TokenVerified, Disconnect, StatesAge,
             ShopTyped
<1> QED BY <1>1, <1>2, <1>3, <1>4 DEF ShopTyped, downloadVars

LEMMA DownloadTyped ==
    ASSUME ShopTyped, AppliedInv, DownloadNext
    PROVE  ShopTyped'
<1>1. UNCHANGED accountVars
      BY DEF DownloadNext, SaveFolder, StartSession, GetSession, ApplySession, SessionApplied, Download, SessionsAge
<1>2. CASE ApplySession
  <2>1. applying' \in [Sessions -> 0..2]
        BY <1>2 DEF ApplySession, ShopTyped
  <2> QED BY <1>1, <1>2, <2>1 DEF ApplySession, ShopTyped, accountVars
<1>3. CASE SessionApplied
  <2>1. PICK d \in Sessions :
           /\ applying[d] > 0
           /\ applying' = [applying EXCEPT ![d] = @ - 1]
           /\ \/ /\ folder' = folder \ {sessions[d].expected} /\ installed' = sessions[d].expected
                 /\ installedBy' = installedBy \cup {d}
              \/ folder' \in {folder, folder \ {sessions[d].expected}} /\ UNCHANGED <<installed, installedBy>>
        BY <1>3 DEF SessionApplied
  <2>2. sessions[d].expected \in 1..Releases
        BY DEF AppliedInv, Session
  <2>3. applying' \in [Sessions -> 0..2]
        BY <2>1 DEF ShopTyped
  <2>4. folder' \subseteq 1..Releases /\ installed' \in 1..Releases /\ installedBy' \subseteq Sessions
        BY <2>1, <2>2 DEF ShopTyped
  <2>5. started' = started
        BY <1>3 DEF SessionApplied
  <2> QED BY <1>1, <2>3, <2>4, <2>5 DEF ShopTyped, accountVars
<1>4. CASE SaveFolder \/ StartSession \/ GetSession \/ Download \/ SessionsAge
      BY <1>1, <1>4 DEF SaveFolder, StartSession, GetSession, Download, SessionsAge, ShopTyped, accountVars
<1> QED BY <1>2, <1>3, <1>4 DEF DownloadNext

LEMMA ShopTypeInvariant == ShopSpec => []ShopTypeOK
<1>1. ShopInit => ShopTyped
      BY ReleasesAssumption DEF ShopInit, ShopTyped
<1>2. ShopTyped /\ AppliedInv /\ [AccountNext \/ DownloadNext]_shopVars => ShopTyped'
      BY AccountTyped, DownloadTyped DEF shopVars, ShopTyped
<1>3. ShopTyped /\ AuthInv /\ AppliedInv => ShopTypeOK
      BY DEF ShopTyped, AuthInv, AppliedInv, ShopTypeOK
<1> QED BY <1>1, <1>2, <1>3, AuthInvariant, AppliedInvariant, PTL DEF ShopSpec

--------------------------------------------------------------------------------
(* The staff's records.                                                    *)

\* f holds records under identifiers.
Typed(f) == DOMAIN f \subseteq Ids /\ \A id \in DOMAIN f : f[id] \in Record

\* No two active records of f are entries about one player, or sessions of one
\* member of staff.
Single(f) ==
    \A i, j \in DOMAIN f :
        f[i].status = "active" /\ f[j].status = "active" /\ i # j =>
            /\ f[i].store = "watch" /\ f[j].store = "watch" => f[i].player # f[j].player
            /\ f[i].store = "session" /\ f[j].store = "session" => f[i].by # f[j].by

\* An identifier whose message is awaited is a warning's, or nobody's any more.
ToldWarnings(f, waits) ==
    \A s \in Staff : \A a \in waits[s] :
        a.what = "told" /\ a.id \in DOMAIN f => f[a.id].store = "warning"

\* f has the closed sessions as they are, if it has them.
EndedKept(f) ==
    \A id \in DOMAIN records :
        records[id].store = "session" /\ records[id].status = "closed" /\ id \in DOMAIN f
            => f[id] = records[id]

Sound(f) == Typed(f) /\ Single(f) /\ ToldWarnings(f, awaiting) /\ EndedKept(f)

RecordsInv == RecordsTypeOK /\ Single(records) /\ ToldWarnings(records, awaiting)

\* Some of the records are left, as they are: a deletion, or a torn file.
LEMMA FewerRecords ==
    ASSUME RecordsInv, NEW D \in SUBSET DOMAIN records
    PROVE  Sound([id \in D |-> records[id]])
BY DEF RecordsInv, RecordsTypeOK, Sound, Typed, Single, ToldWarnings, EndedKept

\* The records are sound as they are.
LEMMA NoneChanged == RecordsInv => Sound(records)
BY DEF RecordsInv, RecordsTypeOK, Sound, Typed, Single, ToldWarnings, EndedKept

\* A record is added: the first active entry or session of its kind.
LEMMA AddedOne ==
    ASSUME RecordsInv, NEW id \in NewIds, NEW store \in Stores, NEW p \in Players, NEW s \in Staff,
           store = "watch" => Watchable(p),
           store = "session" => ActiveSessionOf(s) = {}
    PROVE  Sound(With(id, store, p, s))
<1> DEFINE r == [store |-> store, player |-> p, by |-> s, status |-> "active", marks |-> 0]
           f == With(id, store, p, s)
<1>1. /\ id \in Ids /\ id \notin DOMAIN records
      /\ \A t \in Staff : \A a \in awaiting[t] : a.id # id
      BY DEF NewIds
<1>2. /\ DOMAIN f = DOMAIN records \cup {id}
      /\ f[id] = r
      /\ \A x \in DOMAIN records : f[x] = records[x]
      BY <1>1 DEF With
<1>3. r \in Record
      BY RecordsAssumption DEF Record
<1> HIDE DEF f
<1>4. Typed(f)
      BY <1>1, <1>2, <1>3 DEF Typed, RecordsInv, RecordsTypeOK
<1>5. \A x \in DOMAIN records : records[x].status = "active" =>
          /\ store = "watch" /\ records[x].store = "watch" => records[x].player # p
          /\ store = "session" /\ records[x].store = "session" => records[x].by # s
      BY DEF Watchable, ActiveSessionOf, ActiveOf, Of
<1>6. Single(f)
  <2> SUFFICES ASSUME NEW i \in DOMAIN f, NEW j \in DOMAIN f, i # j,
                      f[i].status = "active", f[j].status = "active"
               PROVE  /\ f[i].store = "watch" /\ f[j].store = "watch" => f[i].player # f[j].player
                      /\ f[i].store = "session" /\ f[j].store = "session" => f[i].by # f[j].by
      BY DEF Single
  <2>1. CASE i = id
        BY <2>1, <1>2, <1>5
  <2>2. CASE j = id
        BY <2>2, <1>2, <1>5
  <2>3. CASE i # id /\ j # id
        BY <2>3, <1>2 DEF RecordsInv, Single
  <2> QED BY <2>1, <2>2, <2>3
<1>7. ToldWarnings(f, awaiting)
      BY <1>1, <1>2 DEF ToldWarnings, RecordsInv
<1>8. EndedKept(f)
      BY <1>2 DEF EndedKept
<1> QED BY <1>4, <1>6, <1>7, <1>8 DEF Sound, f

\* A record that is not a closed session is changed, and not made active.
LEMMA ChangedOne ==
    ASSUME RecordsInv, NEW id \in DOMAIN records, NEW r \in Record, NEW f,
           DOMAIN f = DOMAIN records, f[id] = r,
           \A x \in DOMAIN records : x # id => f[x] = records[x],
           r.store = records[id].store, r.player = records[id].player, r.by = records[id].by,
           r.status = "active" => records[id].status = "active",
           ~(records[id].store = "session" /\ records[id].status = "closed")
    PROVE  Sound(f)
<1>1. Typed(f)
      BY DEF Typed, RecordsInv, RecordsTypeOK
<1>2. Single(f)
      BY DEF Single, RecordsInv
<1>3. ToldWarnings(f, awaiting)
      BY DEF ToldWarnings, RecordsInv
<1>4. EndedKept(f)
      BY DEF EndedKept
<1> QED BY <1>1, <1>2, <1>3, <1>4 DEF Sound

\* A warning, an entry or a note is edited.
LEMMA MarkedOne ==
    ASSUME RecordsInv, NEW id \in DOMAIN records, records[id].store # "session"
    PROVE  Sound(Marked(id))
<1> DEFINE r == [records[id] EXCEPT !.marks = 1]
<1>1. records[id] \in Record
      BY DEF RecordsInv, RecordsTypeOK
<1>2. 1 \in 0..MaxLog
      BY RecordsAssumption
<1>3. /\ r \in Record
      /\ r.store = records[id].store /\ r.player = records[id].player
      /\ r.by = records[id].by /\ r.status = records[id].status
      BY <1>1, <1>2 DEF Record
<1>4. /\ DOMAIN Marked(id) = DOMAIN records
      /\ Marked(id)[id] = r
      /\ \A x \in DOMAIN records : x # id => Marked(id)[x] = records[x]
      BY DEF Marked
<1>5. records[id].store # "session" => ~(records[id].store = "session" /\ records[id].status = "closed")
      OBVIOUS
<1> HIDE DEF r
<1> DEFINE f == Marked(id)
<1>6. DOMAIN f = DOMAIN records /\ f[id] = r /\ \A x \in DOMAIN records : x # id => f[x] = records[x]
      BY <1>4
<1> HIDE DEF f
<1>7. Sound(f)
      BY <1>3, <1>5, <1>6, ChangedOne
<1> QED BY <1>7 DEF f

\* An entry is resolved, or a session ended.
LEMMA ClosedOne ==
    ASSUME RecordsInv, NEW id \in DOMAIN records,
           records[id].store # "session" \/ records[id].status = "active"
    PROVE  Sound([records EXCEPT ![id].status = "closed"])
<1> DEFINE r == [records[id] EXCEPT !.status = "closed"]
           f == [records EXCEPT ![id].status = "closed"]
<1>1. records[id] \in Record
      BY DEF RecordsInv, RecordsTypeOK
<1>2. /\ r \in Record
      /\ r.store = records[id].store /\ r.player = records[id].player
      /\ r.by = records[id].by /\ r.status = "closed"
      BY <1>1 DEF Record
<1>3. /\ DOMAIN f = DOMAIN records
      /\ f[id] = r
      /\ \A x \in DOMAIN records : x # id => f[x] = records[x]
      OBVIOUS
<1> HIDE DEF r, f
<1>4. Sound(f)
      BY <1>2, <1>3, ChangedOne
<1> QED BY <1>4 DEF f

\* A command is added to an active session.
LEMMA LoggedOne ==
    ASSUME RecordsInv, NEW id \in DOMAIN records, records[id].status = "active", records[id].marks < MaxLog
    PROVE  Sound([records EXCEPT ![id].marks = @ + 1])
<1> DEFINE r == [records[id] EXCEPT !.marks = @ + 1]
           f == [records EXCEPT ![id].marks = @ + 1]
<1>1. records[id] \in Record
      BY DEF RecordsInv, RecordsTypeOK
<1>2. /\ r \in Record
      /\ r.store = records[id].store /\ r.player = records[id].player
      /\ r.by = records[id].by /\ r.status = records[id].status
      BY <1>1, RecordsAssumption DEF Record
<1>3. /\ DOMAIN f = DOMAIN records
      /\ f[id] = r
      /\ \A x \in DOMAIN records : x # id => f[x] = records[x]
      OBVIOUS
<1> HIDE DEF r, f
<1>4. Sound(f)
      BY <1>2, <1>3, ChangedOne
<1> QED BY <1>4 DEF f

\* Whatever a save leaves is sound if what it was to write is.
LEMMA SavedRecords ==
    ASSUME RecordsInv, NEW store \in Stores, NEW f, Sound(f), Save(store, f)
    PROVE  Sound(records') /\ unreadable' \subseteq Stores
<1>1. unreadable \subseteq Stores
      BY DEF RecordsInv, RecordsTypeOK
<1>2. CASE records' = f /\ UNCHANGED unreadable
      BY <1>1, <1>2
<1>3. CASE UNCHANGED <<records, unreadable>>
      BY <1>1, <1>3, NoneChanged
<1>4. CASE /\ records' = [id \in DOMAIN records \ Of(store) |-> records[id]]
           /\ unreadable' \in {unreadable, unreadable \cup {store}}
      BY <1>1, <1>4, FewerRecords
<1> QED BY <1>2, <1>3, <1>4 DEF Save

\* What each member of staff can await.
Waits == [Staff -> {{}} \cup {{a} : a \in Awaitable}]

\* Every request leaves sound records, whatever its save did, and what it awaits
\* from then on fits them.
Move == Sound(records') /\ unreadable' \subseteq Stores /\ awaiting' \in Waits /\ ToldWarnings(records', awaiting')

\* A request that awaits nothing new needs only to leave sound records.
LEMMA Quiet ==
    ASSUME RecordsInv, Sound(records') /\ unreadable' \subseteq Stores, Continues
    PROVE  Move
BY DEF Move, Sound, Waits, RecordsInv, RecordsTypeOK, Continues

\* The requests about warnings.
LEMMA WarningMoves ==
    ASSUME RecordsInv, NEW s \in Staff,
           Warn(s) \/ WarnSilently(s) \/ Told(s) \/ DeleteWarning(s)
    PROVE  Move
<1>1. "warning" \in Stores /\ "warning" # "watch" /\ "warning" # "session"
      BY DEF Stores
<1>2. CASE Warn(s)
  <2>1. PICK id \in NewIds, p \in Players :
           /\ Save("warning", With(id, "warning", p, s))
           /\ awaiting' = [awaiting EXCEPT ![s] = {[what |-> "told", id |-> id]}]
        BY <1>2 DEF Warn
  <2>2. Sound(With(id, "warning", p, s))
        BY <1>1, AddedOne
  <2>3. Sound(records') /\ unreadable' \subseteq Stores
        BY <1>1, <2>1, <2>2, SavedRecords
  <2>4. id \in Ids /\ id \notin DOMAIN records
        BY DEF NewIds
  <2>5. [what |-> "told", id |-> id] \in Awaitable
        BY <2>4 DEF Awaitable
  <2>6. awaiting' \in Waits
    <3>1. {[what |-> "told", id |-> id]} \in {{}} \cup {{a} : a \in Awaitable}
          BY <2>5
    <3>2. awaiting \in Waits
          BY DEF RecordsInv, RecordsTypeOK, Waits
    <3> QED BY <2>1, <3>1, <3>2, Zenon DEF Waits
  <2>7. id \in DOMAIN records' => records'[id].store = "warning"
    <3>1. With(id, "warning", p, s)[id].store = "warning"
          BY <2>4 DEF With
    <3> QED BY <2>1, <2>4, <3>1 DEF Save
  <2>8. ToldWarnings(records', awaiting)
        BY <2>3 DEF Sound
  <2>9. awaiting'[s] = {[what |-> "told", id |-> id]} /\ \A t \in Staff : t # s => awaiting'[t] = awaiting[t]
        BY <2>1 DEF RecordsInv, RecordsTypeOK
  <2>10. ToldWarnings(records', awaiting')
        BY <2>7, <2>8, <2>9 DEF ToldWarnings
  <2> QED BY <2>3, <2>6, <2>10 DEF Move
<1>3. CASE WarnSilently(s)
  <2>1. PICK id \in NewIds, p \in Players : Save("warning", With(id, "warning", p, s))
        BY <1>3 DEF WarnSilently
  <2>2. Sound(With(id, "warning", p, s))
        BY <1>1, AddedOne
  <2> QED BY <1>1, <1>3, <2>1, <2>2, SavedRecords, Quiet DEF WarnSilently
<1>4. CASE Told(s)
  <2>1. PICK a \in awaiting[s] :
           /\ a.what = "told"
           /\ \/ a.id \in DOMAIN records /\ Save("warning", Marked(a.id))
              \/ UNCHANGED <<records, unreadable>>
        BY <1>4 DEF Told
  <2>2. Sound(records') /\ unreadable' \subseteq Stores
    <3>1. CASE a.id \in DOMAIN records /\ Save("warning", Marked(a.id))
      <4>1. records[a.id].store = "warning"
            BY <2>1, <3>1 DEF RecordsInv, ToldWarnings
      <4>2. Sound(Marked(a.id))
            BY <1>1, <3>1, <4>1, MarkedOne
      <4> QED BY <1>1, <3>1, <4>2, SavedRecords
    <3>2. CASE UNCHANGED <<records, unreadable>>
          BY <3>2, NoneChanged DEF RecordsInv, RecordsTypeOK
    <3> QED BY <2>1, <3>1, <3>2
  <2>3. awaiting' = [awaiting EXCEPT ![s] = {}]
        BY <1>4 DEF Told
  <2>4. ToldWarnings(records', awaiting)
        BY <2>2 DEF Sound
  <2>5. awaiting' \in Waits /\ ToldWarnings(records', awaiting')
        BY <2>3, <2>4 DEF Waits, ToldWarnings, RecordsInv, RecordsTypeOK
  <2> QED BY <2>2, <2>5 DEF Move
<1>5. CASE DeleteWarning(s)
  <2>1. PICK id \in Of("warning") : Save("warning", Without(id))
        BY <1>5 DEF DeleteWarning
  <2>2. Sound(Without(id))
        BY FewerRecords DEF Without
  <2> QED BY <1>1, <1>5, <2>1, <2>2, SavedRecords, Quiet DEF DeleteWarning
<1> QED BY <1>2, <1>3, <1>4, <1>5

\* The requests about the watchlist and about notes.
LEMMA EntryMoves ==
    ASSUME RecordsInv, NEW s \in Staff,
           \/ AddToWatchlist(s) \/ UpdateEntry(s) \/ ResolveEntry(s) \/ DeleteEntry(s)
           \/ AddNote(s) \/ UpdateNote(s) \/ DeleteNote(s)
    PROVE  Move
<1>1. /\ "watch" \in Stores /\ "watch" # "session"
      /\ "note" \in Stores /\ "note" # "session" /\ "note" # "watch"
      BY DEF Stores
<1>2. CASE AddToWatchlist(s)
  <2>1. PICK id \in NewIds, p \in Players : Watchable(p) /\ Save("watch", With(id, "watch", p, s))
        BY <1>2 DEF AddToWatchlist
  <2>2. Sound(With(id, "watch", p, s))
        BY <1>1, <2>1, AddedOne
  <2> QED BY <1>1, <1>2, <2>1, <2>2, SavedRecords, Quiet DEF AddToWatchlist
<1>3. CASE UpdateEntry(s)
  <2>1. PICK id \in Of("watch") : Save("watch", Marked(id))
        BY <1>3 DEF UpdateEntry
  <2>2. id \in DOMAIN records /\ records[id].store = "watch"
        BY DEF Of
  <2>3. Sound(Marked(id))
        BY <1>1, <2>2, MarkedOne
  <2> QED BY <1>1, <1>3, <2>1, <2>3, SavedRecords, Quiet DEF UpdateEntry
<1>4. CASE ResolveEntry(s)
  <2>1. PICK id \in Of("watch") : Save("watch", [records EXCEPT ![id].status = "closed"])
        BY <1>4 DEF ResolveEntry
  <2>2. id \in DOMAIN records /\ records[id].store = "watch"
        BY DEF Of
  <2>3. Sound([records EXCEPT ![id].status = "closed"])
        BY <1>1, <2>2, ClosedOne
  <2> QED BY <1>1, <1>4, <2>1, <2>3, SavedRecords, Quiet DEF ResolveEntry
<1>5. CASE DeleteEntry(s)
  <2>1. PICK id \in Of("watch") : Save("watch", Without(id))
        BY <1>5 DEF DeleteEntry
  <2>2. Sound(Without(id))
        BY FewerRecords DEF Without
  <2> QED BY <1>1, <1>5, <2>1, <2>2, SavedRecords, Quiet DEF DeleteEntry
<1>6. CASE AddNote(s)
  <2>1. PICK id \in NewIds, p \in Players : Save("note", With(id, "note", p, s))
        BY <1>6 DEF AddNote
  <2>2. Sound(With(id, "note", p, s))
        BY <1>1, AddedOne
  <2> QED BY <1>1, <1>6, <2>1, <2>2, SavedRecords, Quiet DEF AddNote
<1>7. CASE UpdateNote(s)
  <2>1. PICK id \in Of("note") : Save("note", Marked(id))
        BY <1>7 DEF UpdateNote
  <2>2. id \in DOMAIN records /\ records[id].store = "note"
        BY DEF Of
  <2>3. Sound(Marked(id))
        BY <1>1, <2>2, MarkedOne
  <2> QED BY <1>1, <1>7, <2>1, <2>3, SavedRecords, Quiet DEF UpdateNote
<1>8. CASE DeleteNote(s)
  <2>1. PICK id \in Of("note") : Save("note", Without(id))
        BY <1>8 DEF DeleteNote
  <2>2. Sound(Without(id))
        BY FewerRecords DEF Without
  <2> QED BY <1>1, <1>8, <2>1, <2>2, SavedRecords, Quiet DEF DeleteNote
<1> QED BY <1>2, <1>3, <1>4, <1>5, <1>6, <1>7, <1>8

\* A command's answer is added to the requester's active session, if it is one.
LEMMA LoggedMoves ==
    ASSUME RecordsInv, NEW s \in Staff, NEW id, Logged(s, id)
    PROVE  Sound(records') /\ unreadable' \subseteq Stores
<1>1. "session" \in Stores
      BY DEF Stores
<1>2. CASE Loggable(s, id)
  <2>1. /\ records[id].marks < MaxLog
        /\ Save("session", [records EXCEPT ![id].marks = @ + 1])
        BY <1>2 DEF Logged
  <2>2. id \in DOMAIN records /\ records[id].status = "active"
        BY <1>2 DEF Loggable, ActiveSessionOf, ActiveOf, Of
  <2>3. Sound([records EXCEPT ![id].marks = @ + 1])
        BY <2>1, <2>2, LoggedOne
  <2> QED BY <1>1, <2>1, <2>3, SavedRecords
<1>3. CASE ~Loggable(s, id)
      BY <1>3, NoneChanged DEF Logged, RecordsInv, RecordsTypeOK
<1> QED BY <1>2, <1>3

\* The requests about investigations, and the process's crash.
LEMMA SessionMoves ==
    ASSUME RecordsInv,
           \/ \E s \in Staff :
                 \/ StartInvestigation(s) \/ EndInvestigation(s)
                 \/ RunGrimac(s) \/ RunMtrack(s) \/ MtrackEnds(s)
           \/ RecordsCrash
    PROVE  Move
<1>1. "session" \in Stores /\ "session" # "watch"
      BY DEF Stores
<1>2. UNCHANGED <<records, unreadable>> => Sound(records') /\ unreadable' \subseteq Stores
      BY NoneChanged DEF RecordsInv, RecordsTypeOK
<1>3. ASSUME NEW s \in Staff, StartInvestigation(s) PROVE Move
  <2>1. PICK id \in NewIds, p \in Players : Save("session", With(id, "session", p, s))
        BY <1>3 DEF StartInvestigation
  <2>2. Sound(With(id, "session", p, s))
        BY <1>1, <1>3, AddedOne DEF StartInvestigation
  <2> QED BY <1>1, <1>3, <2>1, <2>2, SavedRecords, Quiet DEF StartInvestigation
<1>4. ASSUME NEW s \in Staff, EndInvestigation(s) PROVE Move
  <2>1. PICK id \in ActiveSessionOf(s) : Save("session", [records EXCEPT ![id].status = "closed"])
        BY <1>4 DEF EndInvestigation
  <2>2. id \in DOMAIN records /\ records[id].status = "active"
        BY DEF ActiveSessionOf, ActiveOf, Of
  <2>3. Sound([records EXCEPT ![id].status = "closed"])
        BY <2>2, ClosedOne
  <2> QED BY <1>1, <1>4, <2>1, <2>3, SavedRecords, Quiet DEF EndInvestigation
<1>5. ASSUME NEW s \in Staff, RunGrimac(s) PROVE Move
      BY <1>5, LoggedMoves, Quiet DEF RunGrimac
<1>6. ASSUME NEW s \in Staff, RunMtrack(s) PROVE Move
  <2>1. PICK p \in Players : \E id \in SessionAbout(s, p) :
           awaiting' = [awaiting EXCEPT ![s] = {[what |-> "mtrack", id |-> id]}]
        BY <1>6 DEF RunMtrack
  <2>2. PICK id \in SessionAbout(s, p) :
           awaiting' = [awaiting EXCEPT ![s] = {[what |-> "mtrack", id |-> id]}]
        BY <2>1
  <2>3. id \in Ids
        BY DEF SessionAbout, ActiveSessionOf, ActiveOf, Of, RecordsInv, RecordsTypeOK
  <2>4. [what |-> "mtrack", id |-> id] \in Awaitable
        BY <2>3 DEF Awaitable
  <2>5. awaiting' \in Waits
    <3>1. {[what |-> "mtrack", id |-> id]} \in {{}} \cup {{a} : a \in Awaitable}
          BY <2>4
    <3>2. awaiting \in Waits
          BY DEF RecordsInv, RecordsTypeOK, Waits
    <3> QED BY <2>2, <3>1, <3>2, Zenon DEF Waits
  <2>6. Sound(records') /\ unreadable' \subseteq Stores
        BY <1>2, <1>6 DEF RunMtrack
  <2>7. awaiting'[s] = {[what |-> "mtrack", id |-> id]} /\ \A t \in Staff : t # s => awaiting'[t] = awaiting[t]
        BY <2>2 DEF RecordsInv, RecordsTypeOK
  <2>8. ToldWarnings(records', awaiting')
        BY <2>6, <2>7 DEF Sound, ToldWarnings
  <2> QED BY <2>5, <2>6, <2>8 DEF Move
<1>7. ASSUME NEW s \in Staff, MtrackEnds(s) PROVE Move
  <2>1. Sound(records') /\ unreadable' \subseteq Stores
        BY <1>2, <1>7, LoggedMoves DEF MtrackEnds
  <2>2. awaiting' = [awaiting EXCEPT ![s] = {}]
        BY <1>7 DEF MtrackEnds
  <2>3. ToldWarnings(records', awaiting)
        BY <2>1 DEF Sound
  <2>4. awaiting' \in Waits /\ ToldWarnings(records', awaiting')
        BY <2>2, <2>3 DEF Waits, ToldWarnings, RecordsInv, RecordsTypeOK
  <2> QED BY <2>1, <2>4 DEF Move
<1>8. CASE RecordsCrash
  <2>1. Sound(records') /\ unreadable' \subseteq Stores
        BY <1>2, <1>8 DEF RecordsCrash
  <2> QED BY <1>8, <2>1 DEF RecordsCrash, Move, Waits, ToldWarnings
<1> QED BY <1>3, <1>4, <1>5, <1>6, <1>7, <1>8

\* All requests together.
LEMMA Moves == RecordsInv /\ RecordsNext => Move
BY WarningMoves, EntryMoves, SessionMoves DEF RecordsNext

\* The records are typed and single, and awaited messages are warnings'.
LEMMA RecordsInvariant == RecordsSpec => []RecordsInv
<1>1. RecordsInit => RecordsInv
      BY DEF RecordsInit, RecordsInv, RecordsTypeOK, Single, ToldWarnings
<1>2. RecordsInv /\ [RecordsNext]_recordVars => RecordsInv'
  <2>1. Move => RecordsInv'
        BY DEF Move, Sound, Typed, Waits, RecordsInv, RecordsTypeOK, Single, ToldWarnings
  <2>2. RecordsInv /\ UNCHANGED recordVars => RecordsInv'
        BY DEF recordVars, RecordsInv, RecordsTypeOK, Single, ToldWarnings, Record, Awaitable
  <2> QED BY <2>1, <2>2, Moves
<1> QED BY <1>1, <1>2, PTL DEF RecordsSpec

\* One active entry for a player and one active session for a member of staff,
\* over failed and torn saves.
THEOREM OneActiveCorrect == RecordsSpec => []OneActive
<1>1. RecordsInv => OneActive
      BY DEF RecordsInv, Single, OneActive, ActiveOf, Of
<1> QED BY <1>1, RecordsInvariant, PTL

\* A session that has ended is not changed any more, also by late answers.
THEOREM EndedSessionsCorrect == RecordsSpec => EndedSessionsStay
<1>1. RecordsInv /\ RecordsNext =>
         \A id \in Of("session") :
            records[id].status = "closed" /\ id \in DOMAIN records' => records'[id] = records[id]
      BY Moves DEF Move, Sound, EndedKept, Of
<1> QED BY <1>1, RecordsInvariant, PTL DEF RecordsSpec, EndedSessionsStay

--------------------------------------------------------------------------------
(* Induction over the naturals, from the well-foundedness of strict        *)
(* inclusion, whose theorems take no operator.                             *)

\* A set of naturals that holds 0 and with every number the next one holds all.
LEMMA Induction ==
    ASSUME NEW S, 0 \in S, \A n \in Nat : n \in S => n + 1 \in S
    PROVE  \A n \in Nat : n \in S
  <1> SUFFICES ASSUME NEW m \in Nat, m \notin S PROVE FALSE
    OBVIOUS
  <1> DEFINE T == {1..n : n \in Nat \ S}
  <1>1. T \subseteq FiniteSubsetsOf(Nat) /\ T # {}
    <2>1. \A n \in Nat : 1..n \subseteq Nat /\ IsFiniteSet(1..n)
      BY FS_Interval
    <2> QED
      BY <2>1 DEF FiniteSubsetsOf
  <1>2. IsWellFoundedOn(StrictSubsetOrdering(Nat), FiniteSubsetsOf(Nat))
    BY FS_StrictSubsetOrderingWellFounded
  <1>3. PICK x \in T : \A y \in T : ~ (<<y, x>> \in StrictSubsetOrdering(Nat))
    <2> HIDE DEF T
    <2> QED
      BY <1>1, <1>2, WFMin
  <1>4. PICK n \in Nat \ S : x = 1..n
    BY <1>3
  <1>5. n # 0 /\ n - 1 \in Nat /\ n - 1 + 1 = n
    BY <1>4
  <1>6. n - 1 \in Nat \ S
    BY <1>4, <1>5
  <1>7. 1..(n - 1) \in T
    BY <1>6
  <1>8. 1..(n - 1) \subseteq 1..n /\ 1..(n - 1) # 1..n /\ 1..n \subseteq Nat /\ 1..(n - 1) \subseteq Nat
    <2>1. n \in 1..n /\ n \notin 1..(n - 1)
      BY <1>4, <1>5
    <2> QED
      BY <1>4, <1>5, <2>1
  <1>9. <<1..(n - 1), 1..n>> \in StrictSubsetOrdering(Nat)
    BY <1>8 DEF StrictSubsetOrdering
  <1> QED
    BY <1>3, <1>4, <1>7, <1>9

--------------------------------------------------------------------------------
\* The largest number of a bounded set.
LEMMA Largest ==
    ASSUME NEW n \in Nat
    PROVE  \A s \in SUBSET (1..n) : s # {} => Max(s) \in s /\ \A y \in s : Max(s) >= y
  <1> DEFINE HasLargest(s) == \E x \in s : \A y \in s : x >= y
             S == {k \in Nat : \A s \in SUBSET (1..k) : s # {} => HasLargest(s)}
  <1>1. 0 \in S
    <2>1. \A s \in SUBSET (1..0) : s = {}
      OBVIOUS
    <2> QED
      BY <2>1
  <1>2. ASSUME NEW k \in Nat, k \in S PROVE k + 1 \in S
    <2> SUFFICES ASSUME NEW s \in SUBSET (1..(k + 1)), s # {} PROVE HasLargest(s)
      OBVIOUS
    <2>1. CASE k + 1 \in s
      BY <2>1
    <2>2. CASE k + 1 \notin s
      <3>1. s \in SUBSET (1..k)
        BY <2>2
      <3> QED
        BY <1>2, <3>1
    <2> QED
      BY <2>1, <2>2
  <1>3. \A k \in Nat : k \in S
    <2> HIDE DEF S
    <2> QED
      BY <1>1, <1>2, Induction
  <1>4. \A s \in SUBSET (1..n) : s # {} => HasLargest(s)
    BY <1>3
  <1> QED
    BY <1>4 DEF Max

\* What a fold from the right end computes for every set of positions up to n: the
\* step F is a function of the state and of the position.
Iterates(it, n, base, F) ==
    it = [s \in SUBSET (1..n) |-> IF s = {} THEN base ELSE F[<<it[s \ {Max(s)}], Max(s)>>]]

Iterable(n, G, base, F) == \E it \in [SUBSET (1..n) -> G] : Iterates(it, n, base, F)

LEMMA IterationExists ==
    ASSUME NEW n \in Nat, NEW G, NEW base \in G, NEW F \in [G \X (1..n) -> G]
    PROVE  Iterable(n, G, base, F)
  <1> DEFINE S == {k \in Nat : k <= n => Iterable(k, G, base, F)}
  <1>1. 0 \in S
    <2>1. SUBSET (1..0) = {{}}
      OBVIOUS
    <2> DEFINE it == [s \in SUBSET (1..0) |-> base]
    <2>2. it \in [SUBSET (1..0) -> G] /\ Iterates(it, 0, base, F)
      BY <2>1 DEF Iterates
    <2> QED
      BY <2>2 DEF Iterable
  <1>2. ASSUME NEW k \in Nat, k \in S PROVE k + 1 \in S
    <2> SUFFICES ASSUME k + 1 <= n PROVE Iterable(k + 1, G, base, F)
      OBVIOUS
    <2>1. PICK g \in [SUBSET (1..k) -> G] : Iterates(g, k, base, F)
      <3>1. Iterable(k, G, base, F)
        BY <1>2
      <3> QED
        BY <3>1 DEF Iterable
    <2> DEFINE it == [s \in SUBSET (1..(k + 1)) |-> IF k + 1 \in s THEN F[<<g[s \ {k + 1}], k + 1>>] ELSE g[s]]
    <2>2. \A s \in SUBSET (1..(k + 1)) : /\ s \ {k + 1} \in SUBSET (1..k)
                                          /\ k + 1 \notin s => s \in SUBSET (1..k)
      OBVIOUS
    <2>3. k + 1 \in 1..n /\ 1..k \subseteq 1..n
      OBVIOUS
    <2>4. it \in [SUBSET (1..(k + 1)) -> G]
      <3> SUFFICES ASSUME NEW s \in SUBSET (1..(k + 1))
                   PROVE  (IF k + 1 \in s THEN F[<<g[s \ {k + 1}], k + 1>>] ELSE g[s]) \in G
        OBVIOUS
      <3>1. g[s \ {k + 1}] \in G
        BY <2>2
      <3> QED
        BY <2>2, <2>3, <3>1
    <2>5. ASSUME NEW s \in SUBSET (1..(k + 1))
          PROVE  it[s] = IF s = {} THEN base ELSE F[<<it[s \ {Max(s)}], Max(s)>>]
      <3>1. CASE k + 1 \in s
        <4>1. Max(s) = k + 1
          <5> DEFINE m == k + 1
          <5>1. m \in Nat
            OBVIOUS
          <5>2. \A r \in SUBSET (1..m) : r # {} => Max(r) \in r /\ \A y \in r : Max(r) >= y
            <6> HIDE DEF m
            <6> QED
              BY <5>1, Largest
          <5>3. Max(s) \in s /\ Max(s) >= k + 1
            BY <3>1, <5>2
          <5>4. Max(s) \in 1..(k + 1)
            BY <5>3
          <5> QED
            BY <5>3, <5>4
        <4>2. it[s \ {k + 1}] = g[s \ {k + 1}]
          BY <2>2
        <4> QED
          BY <3>1, <4>1, <4>2
      <3>2. CASE k + 1 \notin s
        <4>1. s \in SUBSET (1..k)
          BY <2>2, <3>2
        <4>2. it[s] = g[s]
          BY <3>2
        <4>3. g[s] = IF s = {} THEN base ELSE F[<<g[s \ {Max(s)}], Max(s)>>]
          BY <2>1, <4>1 DEF Iterates
        <4>4. s \ {Max(s)} \in SUBSET (1..k) /\ k + 1 \notin s \ {Max(s)}
          BY <3>2, <4>1
        <4>5. it[s \ {Max(s)}] = g[s \ {Max(s)}]
          BY <4>4
        <4> QED
          BY <4>2, <4>3, <4>5
      <3> QED
        BY <3>1, <3>2
    <2>6. Iterates(it, k + 1, base, F)
      <3>1. it = [s \in SUBSET (1..(k + 1)) |-> it[s]]
        OBVIOUS
      <3> HIDE DEF it
      <3> QED
        BY <2>5, <3>1 DEF Iterates
    <2> QED
      BY <2>4, <2>6 DEF Iterable
  <1>3. n \in S
    <2> HIDE DEF S
    <2> QED
      BY <1>1, <1>2, Induction
  <1> QED
    BY <1>3

\* The prefixes of the positions are taken one after the other.
LEMMA Prefix ==
    ASSUME NEW n \in Nat, NEW k \in 1..n
    PROVE  1..k \in SUBSET (1..n) /\ 1..k # {} /\ Max(1..k) = k /\ (1..k) \ {k} = 1..(k - 1)
  <1>1. 1..k \in SUBSET (1..n) /\ k \in 1..k /\ (1..k) \ {k} = 1..(k - 1)
    OBVIOUS
  <1>2. Max(1..k) = k
    <2>1. Max(1..k) \in 1..k /\ \A y \in 1..k : Max(1..k) >= y
      BY <1>1, Largest
    <2> QED
      BY <1>1, <2>1
  <1> QED
    BY <1>1, <1>2

--------------------------------------------------------------------------------
(* The staff's rights.                                                     *)

\* The files of a replay, one after the other.
ReplayedThrough(G, f, m, n, changes) ==
    \E t \in [0..n -> G] :
        /\ t[0] = f
        /\ \A k \in 1..n : t[k] = Changed(t[k - 1], m, changes[k])
        /\ Replayed(f, m, changes) = t[n]

LEMMA ReplaySteps ==
    ASSUME NEW G, NEW f \in G, NEW m, NEW n \in Nat, NEW changes, DOMAIN changes = 1..n,
           \A g \in G, i \in 1..n : Changed(g, m, changes[i]) \in G
    PROVE  ReplayedThrough(G, f, m, n, changes)
  <1> DEFINE Step(g, i) == Changed(g, m, changes[i])
             F == [p \in G \X (1..n) |-> Step(p[1], p[2])]
             Equation(it) == it = [s \in SUBSET (DOMAIN changes) |->
                                     IF s = {} THEN f ELSE Changed(it[s \ {Max(s)}], m, changes[Max(s)])]
             chosen == CHOOSE it : Equation(it)
  <1>1. F \in [G \X (1..n) -> G]
    OBVIOUS
  <1>2. PICK it \in [SUBSET (1..n) -> G] : Iterates(it, n, f, F)
    <2> HIDE DEF F
    <2> QED
      BY <1>1, IterationExists DEF Iterable
  <1>3. Equation(it)
    <2>1. \A s \in SUBSET (1..n) : s # {} => /\ Max(s) \in 1..n
                                             /\ it[s \ {Max(s)}] \in G
      BY Largest
    <2>2. \A s \in SUBSET (1..n) :
             s # {} => F[<<it[s \ {Max(s)}], Max(s)>>] = Changed(it[s \ {Max(s)}], m, changes[Max(s)])
      BY <2>1
    <2> HIDE DEF F
    <2> QED
      BY <1>2, <2>2 DEF Iterates
  <1>4. Equation(chosen)
    BY <1>3, Zenon
  <1>5. Replayed(f, m, changes) = chosen[DOMAIN changes]
    BY Zenon DEF Replayed, FoldLeft, MapThenFoldSet
  <1> HIDE DEF chosen
  <1>6. /\ chosen[1..0] = f
        /\ \A k \in 1..n : chosen[1..k] = Changed(chosen[1..(k - 1)], m, changes[k])
    <2>1. \A s \in SUBSET (1..n) :
             chosen[s] = IF s = {} THEN f ELSE Changed(chosen[s \ {Max(s)}], m, changes[Max(s)])
      BY <1>4
    <2>2. chosen[1..0] = f
      <3>1. 1..0 = {} /\ {} \in SUBSET (1..n)
        OBVIOUS
      <3> QED
        BY <2>1, <3>1
    <2>3. ASSUME NEW k \in 1..n PROVE chosen[1..k] = Changed(chosen[1..(k - 1)], m, changes[k])
      <3>1. 1..k \in SUBSET (1..n) /\ 1..k # {} /\ Max(1..k) = k /\ (1..k) \ {k} = 1..(k - 1)
        BY Prefix
      <3> QED
        BY <2>1, <3>1
    <2> QED
      BY <2>2, <2>3
  <1>7. \A k \in Nat : k \in {j \in Nat : j <= n => chosen[1..j] \in G}
    <2> DEFINE S == {j \in Nat : j <= n => chosen[1..j] \in G}
    <2>1. 0 \in S
      BY <1>6
    <2>2. ASSUME NEW k \in Nat, k \in S PROVE k + 1 \in S
      <3> SUFFICES ASSUME k + 1 <= n PROVE chosen[1..(k + 1)] \in G
        OBVIOUS
      <3>1. k + 1 \in 1..n /\ k + 1 - 1 = k /\ chosen[1..k] \in G
        BY <2>2
      <3>2. chosen[1..(k + 1)] = Changed(chosen[1..(k + 1 - 1)], m, changes[k + 1])
        BY <1>6, <3>1
      <3> QED
        BY <3>1, <3>2
    <2> HIDE DEF S
    <2>3. \A k \in Nat : k \in S
      BY <2>1, <2>2, Induction
    <2> QED
      BY <2>3 DEF S
  <1> DEFINE t == [k \in 0..n |-> chosen[1..k]]
  <1>8. t \in [0..n -> G]
    BY <1>7
  <1>9. t[0] = f /\ \A k \in 1..n : t[k] = Changed(t[k - 1], m, changes[k])
    BY <1>6
  <1>10. Replayed(f, m, changes) = t[n]
    BY <1>5
  <1> HIDE DEF t
  <1> QED
    BY <1>8, <1>9, <1>10 DEF ReplayedThrough

\* A finite set listed by SetToSeq.
Lists(seq, s, n) == n \in Nat /\ seq \in [1..n -> s] /\ \A x \in s : \E i \in 1..n : seq[i] = x

LEMMA Listed ==
    ASSUME NEW s, IsFiniteSet(s)
    PROVE  Lists(SetToSeq(s), s, Cardinality(s))
  <1> DEFINE n == Cardinality(s)
             One(f) == f \in [1..n -> s] /\ IsInjective(f)
             Chosen == CHOOSE f \in [1..n -> s] : IsInjective(f)
  <1>1. n \in Nat /\ ExistsBijection(1..n, s)
    BY FS_CardinalityType
  <1>2. \E f \in [1..n -> s] : IsInjective(f)
    BY <1>1 DEF ExistsBijection, Bijection, Injection
  <1>3. Chosen \in [1..n -> s] /\ IsInjective(Chosen)
    BY <1>2, Zenon
  <1>4. SetToSeq(s) = Chosen
    BY Zenon DEF SetToSeq
  <1>5. SetToSeq(s) \in Injection(1..n, s)
    BY <1>3, <1>4, Zenon DEF Injection
  <1>6. Cardinality(1..n) = n
    BY <1>1, FS_Interval
  <1>7. SetToSeq(s) \in Surjection(1..n, s)
    BY <1>1, <1>5, <1>6, FS_Injection
  <1> QED
    BY <1>1, <1>7 DEF Surjection, Lists

--------------------------------------------------------------------------------
\* The accounts' files.
Files == UNION {[users : [d -> Entries], migrated : BOOLEAN, hidden : SUBSET Helpers] : d \in SUBSET Helpers}

\* The changes that the services' calls make.
AllChanges ==
    {Change("reset", Nobody)}
    \cup {Change("role", r) : r \in DOMAIN Presets \cup {Nobody}}
    \cup {Change(k, p) : k \in {"grant", "revoke"}, p \in Permissions}
    \cup {Change("hide", h) : h \in BOOLEAN}

EntryIn(f, m) == IF m \in DOMAIN f.users THEN f.users[m] ELSE Blank

LEMMA FileFields ==
    ASSUME NEW f \in Files
    PROVE  /\ DOMAIN f.users \subseteq Helpers
           /\ f.users \in [DOMAIN f.users -> Entries]
           /\ f.migrated \in BOOLEAN
           /\ f.hidden \subseteq Helpers
BY DEF Files

LEMMA IsFile ==
    ASSUME NEW d \in SUBSET Helpers, NEW u \in [d -> Entries], NEW b \in BOOLEAN, NEW h \in SUBSET Helpers
    PROVE  [users |-> u, migrated |-> b, hidden |-> h] \in Files
BY DEF Files

LEMMA FileUpdates ==
    ASSUME NEW f \in Files, NEW u, NEW b
    PROVE  /\ [f EXCEPT !.users = u, !.migrated = b] = [users |-> u, migrated |-> b, hidden |-> f.hidden]
           /\ [f EXCEPT !.migrated = b, !.users = u] = [users |-> u, migrated |-> b, hidden |-> f.hidden]
  <1> DEFINE withUsers == [f EXCEPT !.users = u]
             withFlag == [f EXCEPT !.migrated = b]
  <1>1. /\ withUsers = [users |-> u, migrated |-> f.migrated, hidden |-> f.hidden]
        /\ withFlag = [users |-> f.users, migrated |-> b, hidden |-> f.hidden]
    BY DEF Files
  <1>2. /\ [f EXCEPT !.users = u, !.migrated = b] = [withUsers EXCEPT !.migrated = b]
        /\ [f EXCEPT !.migrated = b, !.users = u] = [withFlag EXCEPT !.users = u]
    OBVIOUS
  <1> HIDE DEF withUsers, withFlag
  <1>3. /\ [withUsers EXCEPT !.migrated = b] = [users |-> u, migrated |-> b, hidden |-> f.hidden]
        /\ [withFlag EXCEPT !.users = u] = [users |-> u, migrated |-> b, hidden |-> f.hidden]
    BY <1>1
  <1> QED
    BY <1>2, <1>3, Zenon

LEMMA FileEntry ==
    ASSUME NEW f \in Files, NEW m \in Helpers
    PROVE  EntryIn(f, m) \in Entries
BY FileFields DEF EntryIn, Entries, Blank

LEMMA EntryChanges ==
    ASSUME NEW e \in Entries
    PROVE  /\ \A r \in DOMAIN Presets \cup {Nobody} :
                  /\ SetRole(e, r) \in Entries
                  /\ SetRole(e, r).role = r /\ SetRole(e, r).grants = e.grants /\ SetRole(e, r).revokes = e.revokes
           /\ \A p \in Permissions :
                  /\ Granted(e, p) \in Entries /\ Revoked(e, p) \in Entries
                  /\ Granted(e, p).role = e.role /\ Granted(e, p).grants = e.grants \cup {p}
                  /\ Granted(e, p).revokes = e.revokes \ {p}
                  /\ Revoked(e, p).role = e.role /\ Revoked(e, p).grants = e.grants \ {p}
                  /\ Revoked(e, p).revokes = e.revokes \cup {p}
BY DEF Entries, SetRole, Granted, Revoked

\* A change as the code makes it: the entry it gives the account, and a file again.
LEMMA ChangeFields ==
    \A k, w : Change(k, w).kind = k /\ Change(k, w).what = w
BY DEF Change

LEMMA ResetFile ==
    ASSUME NEW f \in Files, NEW m \in Helpers
    PROVE  /\ Changed(f, m, Change("reset", Nobody)) \in Files
           /\ EntryIn(Changed(f, m, Change("reset", Nobody)), m) = Blank
  <1> DEFINE d == DOMAIN f.users \ {m}
             u == [n \in d |-> f.users[n]]
  <1>1. d \in SUBSET Helpers /\ u \in [d -> Entries] /\ m \notin d
    BY FileFields
  <1>2. Changed(f, m, Change("reset", Nobody)) = [f EXCEPT !.users = u]
    <2>1. Changed(f, m, Change("reset", Nobody)) = Reset(f, m)
      BY ChangeFields DEF Changed
    <2>2. Reset(f, m) = [f EXCEPT !.users = u]
      BY Zenon DEF Reset
    <2> QED
      BY <2>1, <2>2, Zenon
  <1>3. [f EXCEPT !.users = u] = [users |-> u, migrated |-> f.migrated, hidden |-> f.hidden]
    <2> HIDE DEF u
    <2> QED
      BY DEF Files
  <1>4. f.migrated \in BOOLEAN /\ f.hidden \in SUBSET Helpers
    BY FileFields
  <1>5. [users |-> u, migrated |-> f.migrated, hidden |-> f.hidden] \in Files
    <2> HIDE DEF u, d
    <2> QED
      BY <1>1, <1>4, IsFile
  <1> QED
    BY <1>1, <1>2, <1>3, <1>5 DEF EntryIn

LEMMA HideFile ==
    ASSUME NEW f \in Files, NEW m \in Helpers, NEW h \in BOOLEAN
    PROVE  /\ Changed(f, m, Change("hide", h)) \in Files
           /\ EntryIn(Changed(f, m, Change("hide", h)), m) = EntryIn(f, m)
  <1> DEFINE hides == IF h THEN f.hidden \cup {m} ELSE f.hidden \ {m}
  <1>1. Changed(f, m, Change("hide", h)) = [f EXCEPT !.hidden = hides]
    <2>1. Changed(f, m, Change("hide", h))
            = [f EXCEPT !.hidden = IF Change("hide", h).what THEN @ \cup {m} ELSE @ \ {m}]
      BY ChangeFields DEF Changed
    <2>2. Change("hide", h).what = h
      BY ChangeFields, Zenon
    <2> QED
      BY <2>1, <2>2, Zenon
  <1>2. hides \in SUBSET Helpers /\ DOMAIN f.users \in SUBSET Helpers /\ f.migrated \in BOOLEAN
        /\ f.users \in [DOMAIN f.users -> Entries]
    BY FileFields
  <1>3. [f EXCEPT !.hidden = hides] = [users |-> f.users, migrated |-> f.migrated, hidden |-> hides]
    <2> HIDE DEF hides
    <2> QED
      BY DEF Files
  <1>4. [users |-> f.users, migrated |-> f.migrated, hidden |-> hides] \in Files
    <2> HIDE DEF hides
    <2> QED
      BY <1>2, IsFile
  <1> QED
    BY <1>1, <1>3, <1>4 DEF EntryIn

LEMMA EntryFile ==
    ASSUME NEW f \in Files, NEW m \in Helpers, NEW e \in Entries
    PROVE  LET new == [f EXCEPT !.users = [n \in DOMAIN @ \cup {m} |-> IF n = m THEN e ELSE @[n]]]
           IN  new \in Files /\ EntryIn(new, m) = e
  <1> DEFINE d == DOMAIN f.users \cup {m}
             u == [n \in d |-> IF n = m THEN e ELSE f.users[n]]
  <1>1. d \in SUBSET Helpers /\ u \in [d -> Entries] /\ m \in d /\ u[m] = e
    BY FileFields
  <1>2. [f EXCEPT !.users = u] = [users |-> u, migrated |-> f.migrated, hidden |-> f.hidden]
    <2> HIDE DEF u
    <2> QED
      BY DEF Files
  <1>3. f.migrated \in BOOLEAN /\ f.hidden \in SUBSET Helpers
    BY FileFields
  <1>4. [users |-> u, migrated |-> f.migrated, hidden |-> f.hidden] \in Files
    <2> HIDE DEF u, d
    <2> QED
      BY <1>1, <1>3, IsFile
  <1> QED
    BY <1>1, <1>2, <1>4 DEF EntryIn

LEMMA RightsFile ==
    ASSUME NEW f \in Files, NEW m \in Helpers
    PROVE  /\ \A r \in DOMAIN Presets \cup {Nobody} :
                  /\ Changed(f, m, Change("role", r)) \in Files
                  /\ EntryIn(Changed(f, m, Change("role", r)), m) = SetRole(EntryIn(f, m), r)
           /\ \A p \in Permissions :
                  /\ Changed(f, m, Change("grant", p)) \in Files
                  /\ EntryIn(Changed(f, m, Change("grant", p)), m) = Granted(EntryIn(f, m), p)
                  /\ Changed(f, m, Change("revoke", p)) \in Files
                  /\ EntryIn(Changed(f, m, Change("revoke", p)), m) = Revoked(EntryIn(f, m), p)
  <1> DEFINE New(e) == [f EXCEPT !.users = [n \in DOMAIN @ \cup {m} |-> IF n = m THEN e ELSE @[n]]]
  <1>1. EntryIn(f, m) \in Entries
    BY FileEntry
  <1>2. \A e \in Entries : New(e) \in Files /\ EntryIn(New(e), m) = e
    BY EntryFile
  <1>3. ASSUME NEW r \in DOMAIN Presets \cup {Nobody}
        PROVE  Changed(f, m, Change("role", r)) = New(SetRole(EntryIn(f, m), r))
    BY ChangeFields DEF Changed, EntryIn
  <1>4. ASSUME NEW p \in Permissions
        PROVE  /\ Changed(f, m, Change("grant", p)) = New(Granted(EntryIn(f, m), p))
               /\ Changed(f, m, Change("revoke", p)) = New(Revoked(EntryIn(f, m), p))
    BY ChangeFields DEF Changed, EntryIn
  <1>5. ASSUME NEW r \in DOMAIN Presets \cup {Nobody} PROVE SetRole(EntryIn(f, m), r) \in Entries
    BY <1>1, EntryChanges
  <1>6. ASSUME NEW p \in Permissions
        PROVE  Granted(EntryIn(f, m), p) \in Entries /\ Revoked(EntryIn(f, m), p) \in Entries
    BY <1>1, EntryChanges
  <1> HIDE DEF New
  <1> QED
    BY <1>2, <1>3, <1>4, <1>5, <1>6

LEMMA ChangedFile ==
    ASSUME NEW f \in Files, NEW m \in Helpers, NEW c \in AllChanges
    PROVE  Changed(f, m, c) \in Files
BY ResetFile, HideFile, RightsFile DEF AllChanges

--------------------------------------------------------------------------------
\* The changes of a replay in their order.
Snapshots == [entry : Entries, hidden : BOOLEAN]

ReplayShape(c, s, b, gs, g, rs, r) ==
    /\ b \in {0, 1} /\ (b = 0 <=> s.entry.role = Nobody)
    /\ Lists(gs, s.entry.grants, g)
    /\ Lists(rs, s.entry.revokes, r)
    /\ c \in [1..(2 + b + g + r) -> AllChanges]
    /\ c[1] = Change("reset", Nobody)
    /\ b = 1 => c[2] = Change("role", s.entry.role)
    /\ \A i \in 1..g : c[1 + b + i] = Change("grant", gs[i])
    /\ \A i \in 1..r : c[1 + b + g + i] = Change("revoke", rs[i])
    /\ c[2 + b + g + r] = Change("hide", s.hidden)

\* Two lists one after the other.
Joins(u, s, p, t, q, X) ==
    /\ u \in [1..(p + q) -> X]
    /\ \A i \in 1..p : u[i] = s[i]
    /\ \A i \in 1..q : u[p + i] = t[i]

LEMMA Concatenated ==
    ASSUME NEW X, NEW p \in Nat, NEW q \in Nat, NEW s \in [1..p -> X], NEW t \in [1..q -> X]
    PROVE  Joins(s \o t, s, p, t, q, X)
  <1>1. s \in Seq(X) /\ t \in Seq(X) /\ Len(s) = p /\ Len(t) = q
    <2>1. s \in Seq(X) /\ t \in Seq(X)
      BY SeqDef
    <2> QED
      BY <2>1, LenProperties
  <1>2. /\ s \o t \in Seq(X)
        /\ Len(s \o t) = p + q
        /\ \A i \in 1..(p + q) : (s \o t)[i] = IF i <= p THEN s[i] ELSE t[i - p]
    BY <1>1, ConcatProperties
  <1>3. s \o t \in [1..(p + q) -> X]
    BY <1>2, LenProperties
  <1> QED
    BY <1>2, <1>3 DEF Joins

LEMMA ReplayOrder ==
    ASSUME NEW s \in Snapshots, IsFiniteSet(Permissions)
    PROVE  \E b, gs, g, rs, r : ReplayShape(Replay(s), s, b, gs, g, rs, r)
  <1> DEFINE gs == SetToSeq(s.entry.grants)
             rs == SetToSeq(s.entry.revokes)
             g == Cardinality(s.entry.grants)
             r == Cardinality(s.entry.revokes)
             b == IF s.entry.role = Nobody THEN 0 ELSE 1
             roleChanges == IF s.entry.role = Nobody THEN <<>> ELSE <<Change("role", s.entry.role)>>
             grantChanges == [i \in DOMAIN gs |-> Change("grant", gs[i])]
             revokeChanges == [i \in DOMAIN rs |-> Change("revoke", rs[i])]
             resetChange == <<Change("reset", Nobody)>>
             hideChange == <<Change("hide", s.hidden)>>
             X == AllChanges
  <1>1. /\ s.entry.grants \subseteq Permissions /\ s.entry.revokes \subseteq Permissions
        /\ s.entry.role \in DOMAIN Presets \cup {Nobody} /\ s.hidden \in BOOLEAN
    BY DEF Snapshots, Entries
  <1>2. Lists(gs, s.entry.grants, g) /\ Lists(rs, s.entry.revokes, r)
    <2>1. IsFiniteSet(s.entry.grants) /\ IsFiniteSet(s.entry.revokes)
      BY <1>1, FS_Subset
    <2> QED
      BY <2>1, Listed
  <1>3. g \in Nat /\ r \in Nat /\ gs \in [1..g -> s.entry.grants] /\ rs \in [1..r -> s.entry.revokes]
    <2> HIDE DEF g, r, gs, rs
    <2> QED
      BY <1>2 DEF Lists
  <1> HIDE DEF gs, rs, g, r
  <1>4. grantChanges \in [1..g -> X] /\ \A i \in 1..g : grantChanges[i] = Change("grant", gs[i])
    <2>1. \A i \in 1..g : Change("grant", gs[i]) \in AllChanges
      BY <1>1, <1>3 DEF AllChanges
    <2> QED
      BY <1>3, <2>1
  <1>5. revokeChanges \in [1..r -> X] /\ \A i \in 1..r : revokeChanges[i] = Change("revoke", rs[i])
    <2>1. \A i \in 1..r : Change("revoke", rs[i]) \in AllChanges
      BY <1>1, <1>3 DEF AllChanges
    <2> QED
      BY <1>3, <2>1
  <1>6. resetChange \in [1..1 -> X] /\ resetChange[1] = Change("reset", Nobody)
    BY DEF AllChanges
  <1>7. hideChange \in [1..1 -> X] /\ hideChange[1] = Change("hide", s.hidden)
    BY <1>1 DEF AllChanges
  <1>8. b \in {0, 1} /\ b \in Nat /\ (b = 0 <=> s.entry.role = Nobody)
    OBVIOUS
  <1>9. roleChanges \in [1..b -> X] /\ (b = 1 => roleChanges[1] = Change("role", s.entry.role))
    <2>1. Change("role", s.entry.role) \in AllChanges
      BY <1>1 DEF AllChanges
    <2> QED
      BY <2>1
  <1>10. Replay(s) = resetChange \o roleChanges \o grantChanges \o revokeChanges \o hideChange
    BY DEF Replay, gs, rs
  <1> HIDE DEF resetChange, roleChanges, grantChanges, revokeChanges, hideChange, b, X
  <1> DEFINE c2 == resetChange \o roleChanges
             c3 == c2 \o grantChanges
             c4 == c3 \o revokeChanges
             c5 == c4 \o hideChange
  <1>11. /\ c2 \in [1..(1 + b) -> X]
         /\ \A i \in 1..1 : c2[i] = resetChange[i]
         /\ \A i \in 1..b : c2[1 + i] = roleChanges[i]
    <2>1. Joins(c2, resetChange, 1, roleChanges, b, X)
      BY <1>6, <1>8, <1>9, Concatenated
    <2> QED
      BY <2>1, Zenon DEF Joins
  <1> HIDE DEF c2
  <1>12. /\ c3 \in [1..(1 + b + g) -> X]
         /\ \A i \in 1..(1 + b) : c3[i] = c2[i]
         /\ \A i \in 1..g : c3[1 + b + i] = grantChanges[i]
    <2> DEFINE n == 1 + b
    <2>1. n \in Nat /\ c2 \in [1..n -> X]
      BY <1>8, <1>11
    <2> HIDE DEF n
    <2>2. Joins(c3, c2, n, grantChanges, g, X)
      BY <1>3, <1>4, <2>1, Concatenated
    <2> QED
      BY <2>2, Zenon DEF n, Joins
  <1> HIDE DEF c3
  <1>13. /\ c4 \in [1..(1 + b + g + r) -> X]
         /\ \A i \in 1..(1 + b + g) : c4[i] = c3[i]
         /\ \A i \in 1..r : c4[1 + b + g + i] = revokeChanges[i]
    <2> DEFINE n == 1 + b + g
    <2>1. n \in Nat /\ c3 \in [1..n -> X]
      BY <1>3, <1>8, <1>12
    <2> HIDE DEF n
    <2>2. Joins(c4, c3, n, revokeChanges, r, X)
      BY <1>3, <1>5, <2>1, Concatenated
    <2> QED
      BY <2>2, Zenon DEF n, Joins
  <1> HIDE DEF c4
  <1>14. /\ c5 \in [1..(2 + b + g + r) -> X]
         /\ \A i \in 1..(1 + b + g + r) : c5[i] = c4[i]
         /\ c5[2 + b + g + r] = hideChange[1]
    <2> DEFINE n == 1 + b + g + r
    <2>1. n \in Nat /\ c4 \in [1..n -> X] /\ 2 + b + g + r = n + 1
      BY <1>3, <1>8, <1>13
    <2> HIDE DEF n
    <2>2. Joins(c5, c4, n, hideChange, 1, X)
      BY <1>7, <2>1, Concatenated
    <2> QED
      BY <2>1, <2>2 DEF n, Joins, Joins, Joins
  <1>15. Replay(s) = c5
    BY <1>10, Zenon DEF c2, c3, c4, c5
  <1> HIDE DEF c5
  <1>16. /\ \A i \in 1..g : 1 + b + i \in 1..(1 + b + g) /\ 1 + b + i \in 1..(1 + b + g + r)
         /\ \A i \in 1..r : 1 + b + g + i \in 1..(1 + b + g + r)
         /\ 1 \in 1..(1 + b + g + r) /\ 1 \in 1..(1 + b + g) /\ 1 \in 1..(1 + b)
         /\ b = 1 => 2 \in 1..(1 + b + g + r) /\ 2 \in 1..(1 + b + g) /\ 2 \in 1..(1 + b) /\ 1 \in 1..b
    BY <1>3, <1>8
  <1>17. ReplayShape(c5, s, b, gs, g, rs, r)
    <2>1. c5[1] = Change("reset", Nobody)
      BY <1>6, <1>11, <1>12, <1>13, <1>14, <1>16
    <2>2. b = 1 => c5[2] = Change("role", s.entry.role)
      BY <1>9, <1>11, <1>12, <1>13, <1>14, <1>16
    <2>3. \A i \in 1..g : c5[1 + b + i] = Change("grant", gs[i])
      BY <1>4, <1>12, <1>13, <1>14, <1>16
    <2>4. \A i \in 1..r : c5[1 + b + g + i] = Change("revoke", rs[i])
      BY <1>5, <1>13, <1>14, <1>16
    <2> QED
      BY <1>2, <1>7, <1>8, <1>14, <2>1, <2>2, <2>3, <2>4 DEF ReplayShape, X
  <1> QED
    BY <1>15, <1>17

--------------------------------------------------------------------------------
\* A replay gives the account the rights of the snapshot, whatever it had before.
Holds(e, role, gs, rs) ==
    e \in Entries /\ e.role = role /\ e.grants = gs /\ e.revokes = rs

LEMMA HeldRights ==
    ASSUME NEW e \in Entries, NEW s \in Entries, Holds(e, s.role, s.grants \ s.revokes, s.revokes)
    PROVE  Effective(e) = Effective(s)
  <1>1. e.role = s.role /\ e.grants = s.grants \ s.revokes /\ e.revokes = s.revokes
    BY DEF Holds
  <1> QED
    BY <1>1 DEF Effective

LEMMA ReplayRestores ==
    ASSUME NEW s \in Snapshots, NEW f \in Files, NEW m \in Helpers, IsFiniteSet(Permissions)
    PROVE  LET new == Replayed(f, m, Replay(s))
           IN  new \in Files /\ Effective(EntryIn(new, m)) = Effective(s.entry)
  <1>1. PICK b, gs, g, rs, r : ReplayShape(Replay(s), s, b, gs, g, rs, r)
    BY ReplayOrder, Zenon
  <1> DEFINE c == Replay(s)
             n == 2 + b + g + r
  <1>2. /\ b \in {0, 1} /\ (b = 0 <=> s.entry.role = Nobody)
        /\ c \in [1..n -> AllChanges]
        /\ c[1] = Change("reset", Nobody)
        /\ b = 1 => c[2] = Change("role", s.entry.role)
        /\ \A i \in 1..g : c[1 + b + i] = Change("grant", gs[i])
        /\ \A i \in 1..r : c[1 + b + g + i] = Change("revoke", rs[i])
        /\ c[n] = Change("hide", s.hidden)
    BY <1>1, Zenon DEF ReplayShape
  <1>3. g \in Nat /\ gs \in [1..g -> s.entry.grants] /\ \A x \in s.entry.grants : \E i \in 1..g : gs[i] = x
    BY <1>1, Zenon DEF ReplayShape, Lists
  <1>4. r \in Nat /\ rs \in [1..r -> s.entry.revokes] /\ \A x \in s.entry.revokes : \E i \in 1..r : rs[i] = x
    BY <1>1, Zenon DEF ReplayShape, Lists
  <1>5. /\ s.entry.grants \subseteq Permissions /\ s.entry.revokes \subseteq Permissions
        /\ s.entry.role \in DOMAIN Presets \cup {Nobody} /\ s.hidden \in BOOLEAN
        /\ s.entry \in Entries
    BY DEF Snapshots, Entries
  <1>6. n \in Nat /\ DOMAIN c = 1..n
    BY <1>2, <1>3, <1>4
  <1>7. \A h \in Files, i \in 1..n : Changed(h, m, c[i]) \in Files
    <2>1. \A i \in 1..n : c[i] \in AllChanges
      BY <1>2
    <2> HIDE DEF c, n
    <2> QED
      BY <2>1, ChangedFile
  <1>8. PICK t \in [0..n -> Files] :
              /\ t[0] = f
              /\ \A k \in 1..n : t[k] = Changed(t[k - 1], m, c[k])
              /\ Replayed(f, m, c) = t[n]
    <2> HIDE DEF c, n
    <2>1. ReplayedThrough(Files, f, m, n, c)
      BY <1>6, <1>7, ReplaySteps
    <2> QED
      BY <2>1, Zenon DEF ReplayedThrough
  <1> HIDE DEF c, n
  <1> DEFINE e(k) == EntryIn(t[k], m)
  <1>9. \A k \in 0..n : t[k] \in Files /\ e(k) \in Entries
    BY FileEntry
  <1>10. 1 \in 1..n /\ Holds(e(1), Nobody, {}, {})
    <2>1. 1 \in 1..n /\ 0 \in 0..n /\ 1 - 1 = 0 /\ 1 \in 0..n
      BY <1>2, <1>3, <1>4 DEF n
    <2>2. t[1] = Changed(t[0], m, Change("reset", Nobody))
      BY <1>2, <1>8, <2>1
    <2>3. e(1) = Blank
      BY <1>9, <2>1, <2>2, ResetFile
    <2> QED
      BY <1>9, <2>1, <2>3 DEF Holds, Blank
  <1>11. Holds(e(1 + b), s.entry.role, {}, {})
    <2>1. CASE b = 0
      BY <1>2, <1>10, <2>1
    <2>2. CASE b = 1
      <3>1. 2 \in 1..n /\ 1 \in 0..n /\ 2 \in 0..n /\ 2 - 1 = 1
        BY <1>2, <1>3, <1>4, <2>2 DEF n
      <3>2. t[2] = Changed(t[1], m, Change("role", s.entry.role))
        BY <1>2, <1>8, <2>2, <3>1
      <3>3. e(2) = SetRole(e(1), s.entry.role)
        BY <1>5, <1>9, <3>1, <3>2, RightsFile
      <3>4. Holds(e(2), s.entry.role, {}, {})
        BY <1>5, <1>9, <1>10, <3>1, <3>3, EntryChanges DEF Holds
      <3> QED
        BY <2>2, <3>4
    <2> QED
      BY <1>2, <2>1, <2>2
  <1>12. Holds(e(1 + b + g), s.entry.role, s.entry.grants, {})
    <2> DEFINE given(k) == {gs[i] : i \in 1..k}
               S == {k \in Nat : k <= g => Holds(e(1 + b + k), s.entry.role, given(k), {})}
    <2>1. 0 \in S
      <3>1. given(0) = {} /\ 1 + b + 0 = 1 + b
        BY <1>2
      <3> QED
        BY <1>11, <3>1
    <2>2. ASSUME NEW k \in Nat, k \in S PROVE k + 1 \in S
      <3> SUFFICES ASSUME k + 1 <= g PROVE Holds(e(1 + b + (k + 1)), s.entry.role, given(k + 1), {})
        OBVIOUS
      <3> DEFINE j == 1 + b + k
                 p == gs[k + 1]
      <3>1. /\ k + 1 \in 1..g /\ j + 1 = 1 + b + (k + 1) /\ j + 1 - 1 = j
            /\ j \in 0..n /\ j + 1 \in 1..n /\ j + 1 \in 0..n
        BY <1>2, <1>3, <1>4 DEF n
      <3>2. Holds(e(j), s.entry.role, given(k), {})
        BY <1>3, <2>2
      <3>3. t[j + 1] = Changed(t[j], m, Change("grant", p))
        BY <1>2, <1>8, <3>1
      <3>4. p \in Permissions /\ given(k + 1) = given(k) \cup {p}
        BY <1>3, <1>5, <3>1
      <3> HIDE DEF j, p, given
      <3>5. e(j + 1) = Granted(e(j), p)
        BY <1>9, <3>1, <3>3, <3>4, RightsFile
      <3>6. Holds(e(j + 1), s.entry.role, given(k) \cup {p}, {})
        <4>1. e(j) \in Entries /\ e(j + 1) \in Entries
          BY <1>9, <3>1
        <4> HIDE DEF e
        <4> QED
          BY <3>2, <3>4, <3>5, <4>1, EntryChanges DEF Holds
      <3> QED
        BY <3>1, <3>4, <3>6
    <2>3. g \in S
      <3> HIDE DEF S
      <3> QED
        BY <1>3, <2>1, <2>2, Induction
    <2>4. given(g) = s.entry.grants
      BY <1>3
    <2>5. Holds(e(1 + b + g), s.entry.role, given(g), {})
      <3> HIDE DEF given, e
      <3> QED
        BY <1>3, <2>3
    <2> QED
      BY <2>4, <2>5, Zenon
  <1>13. Holds(e(1 + b + g + r), s.entry.role, s.entry.grants \ s.entry.revokes, s.entry.revokes)
    <2> DEFINE taken(k) == {rs[i] : i \in 1..k}
               S == {k \in Nat : k <= r => Holds(e(1 + b + g + k), s.entry.role, s.entry.grants \ taken(k), taken(k))}
    <2>1. 0 \in S
      <3>1. taken(0) = {} /\ 1 + b + g + 0 = 1 + b + g /\ s.entry.grants \ {} = s.entry.grants
        BY <1>2, <1>3
      <3> QED
        BY <1>12, <3>1
    <2>2. ASSUME NEW k \in Nat, k \in S PROVE k + 1 \in S
      <3> SUFFICES ASSUME k + 1 <= r
                   PROVE  Holds(e(1 + b + g + (k + 1)), s.entry.role, s.entry.grants \ taken(k + 1), taken(k + 1))
        OBVIOUS
      <3> DEFINE j == 1 + b + g + k
                 p == rs[k + 1]
      <3>1. /\ k + 1 \in 1..r /\ j + 1 = 1 + b + g + (k + 1) /\ j + 1 - 1 = j
            /\ j \in 0..n /\ j + 1 \in 1..n /\ j + 1 \in 0..n
        BY <1>2, <1>3, <1>4 DEF n
      <3>2. Holds(e(j), s.entry.role, s.entry.grants \ taken(k), taken(k))
        <4> HIDE DEF taken, e
        <4> QED
          BY <1>4, <2>2
      <3>3. t[j + 1] = Changed(t[j], m, Change("revoke", p))
        BY <1>2, <1>8, <3>1
      <3>4. p \in Permissions /\ taken(k + 1) = taken(k) \cup {p}
        BY <1>4, <1>5, <3>1
      <3> HIDE DEF j, p, taken
      <3>5. e(j + 1) = Revoked(e(j), p)
        BY <1>9, <3>1, <3>3, <3>4, RightsFile
      <3>6. Holds(e(j + 1), s.entry.role, s.entry.grants \ (taken(k) \cup {p}), taken(k) \cup {p})
        <4>1. e(j) \in Entries /\ e(j + 1) \in Entries
          BY <1>9, <3>1
        <4> HIDE DEF e
        <4> QED
          BY <3>2, <3>4, <3>5, <4>1, EntryChanges DEF Holds
      <3> QED
        BY <3>1, <3>4, <3>6
    <2>3. r \in S
      <3> HIDE DEF S
      <3> QED
        BY <1>4, <2>1, <2>2, Induction
    <2>4. taken(r) = s.entry.revokes
      BY <1>4
    <2>5. Holds(e(1 + b + g + r), s.entry.role, s.entry.grants \ taken(r), taken(r))
      <3> HIDE DEF taken, e
      <3> QED
        BY <1>4, <2>3
    <2> QED
      BY <2>4, <2>5, Zenon
  <1>14. e(n) = e(1 + b + g + r) /\ n \in 0..n
    <2> DEFINE j == 1 + b + g + r
    <2>1. n \in 1..n /\ n \in 0..n /\ n - 1 = j /\ j \in 0..n
      BY <1>2, <1>3, <1>4 DEF n
    <2> HIDE DEF j
    <2>2. t[n] = Changed(t[j], m, Change("hide", s.hidden))
      BY <1>2, <1>8, <2>1
    <2>3. e(n) = e(j)
      BY <1>5, <1>9, <2>1, <2>2, HideFile
    <2> QED
      BY <2>1, <2>3 DEF j
  <1>15. Effective(e(n)) = Effective(s.entry)
    <2>1. Holds(e(n), s.entry.role, s.entry.grants \ s.entry.revokes, s.entry.revokes)
      BY <1>13, <1>14
    <2>2. e(n) \in Entries
      BY <1>9, <1>14
    <2> HIDE DEF e
    <2> QED
      BY <1>5, <2>1, <2>2, HeldRights
  <1> QED
    BY <1>8, <1>9, <1>14, <1>15 DEF c

--------------------------------------------------------------------------------
\* Every file a change, a torn save, a replay or a start leaves is a file again.
LEMMA SavedFiles ==
    ASSUME NEW f \in Files, NEW m \in Helpers, NEW c \in AllChanges
    PROVE  Saves(f, m, c) \subseteq Files
  <1>1. Torn(f, c) \in Files
    <2> DEFINE none == [n \in {} |-> Blank]
    <2>1. none \in [{} -> Entries] /\ {} \in SUBSET Helpers /\ none = <<>>
      OBVIOUS
    <2>2. f.migrated \in BOOLEAN /\ FALSE \in BOOLEAN /\ f.users \in [DOMAIN f.users -> Entries]
          /\ DOMAIN f.users \in SUBSET Helpers
      BY FileFields
    <2>3. [f EXCEPT !.hidden = {}] = [users |-> f.users, migrated |-> f.migrated, hidden |-> {}]
      BY DEF Files
    <2>4. [f EXCEPT !.users = <<>>, !.migrated = FALSE] = [users |-> <<>>, migrated |-> FALSE, hidden |-> f.hidden]
      BY FileUpdates
    <2>5. [users |-> f.users, migrated |-> f.migrated, hidden |-> {}] \in Files
      BY <2>1, <2>2, IsFile
    <2>6. [users |-> none, migrated |-> FALSE, hidden |-> f.hidden] \in Files
      <3> HIDE DEF none
      <3>1. f.hidden \in SUBSET Helpers
        BY FileFields
      <3> QED
        BY <2>1, <2>2, <3>1, IsFile
    <2> QED
      BY <2>1, <2>3, <2>4, <2>5, <2>6 DEF Torn
  <1>2. Changed(f, m, c) \in Files
    BY ChangedFile
  <1> QED
    BY <1>1, <1>2 DEF Saves

LEMMA ReplayedFile ==
    ASSUME NEW f \in Files, NEW m \in Helpers, NEW changes \in Seq(AllChanges)
    PROVE  Replayed(f, m, changes) \in Files
  <1> DEFINE n == Len(changes)
  <1>1. n \in Nat /\ DOMAIN changes = 1..n /\ \A i \in 1..n : changes[i] \in AllChanges
    BY LenProperties
  <1> HIDE DEF n
  <1>2. \A g \in Files, i \in 1..n : Changed(g, m, changes[i]) \in Files
    BY <1>1, ChangedFile
  <1>3. ReplayedThrough(Files, f, m, n, changes)
    BY <1>1, <1>2, ReplaySteps
  <1>4. n \in 0..n
    BY <1>1
  <1> QED
    BY <1>3, <1>4 DEF ReplayedThrough

LEMMA ReplayIsSeq ==
    ASSUME NEW s \in Snapshots, IsFiniteSet(Permissions)
    PROVE  Replay(s) \in Seq(AllChanges)
  <1>1. PICK b, gs, g, rs, r : ReplayShape(Replay(s), s, b, gs, g, rs, r)
    BY ReplayOrder, Zenon
  <1>2. Replay(s) \in [1..(2 + b + g + r) -> AllChanges]
    BY <1>1, Zenon DEF ReplayShape
  <1>3. 2 + b + g + r \in Nat
    <2>1. b \in {0, 1} /\ g \in Nat /\ r \in Nat
      BY <1>1, Zenon DEF ReplayShape, Lists
    <2> QED
      BY <2>1
  <1> HIDE DEF Replay
  <1> QED
    BY <1>2, <1>3, SeqDef

\* A part of a replay, from one of its changes to another.
LEMMA PartOfReplay ==
    ASSUME NEW changes \in Seq(AllChanges), NEW i \in DOMAIN changes
    PROVE  /\ changes[i] \in AllChanges
           /\ SubSeq(changes, 1, i - 1) \in Seq(AllChanges)
           /\ SubSeq(changes, i + 1, Len(changes)) \in Seq(AllChanges)
  <1>1. Len(changes) \in Nat /\ i \in 1..Len(changes) /\ changes[i] \in AllChanges
    BY LenProperties
  <1>2. ASSUME NEW a \in 1..(Len(changes) + 1), NEW z \in 0..Len(changes)
        PROVE  SubSeq(changes, a, z) \in Seq(AllChanges)
    <2>1. \A k \in a..z : k \in 1..Len(changes)
      BY <1>1
    <2> QED
      BY <2>1, <1>1, SubSeqProperties
  <1>3. 1 \in 1..(Len(changes) + 1) /\ i - 1 \in 0..Len(changes) /\ i + 1 \in 1..(Len(changes) + 1)
        /\ Len(changes) \in 0..Len(changes)
    BY <1>1
  <1> QED
    BY <1>1, <1>2, <1>3

LEMMA InterruptedFiles ==
    ASSUME NEW changes \in Seq(AllChanges), NEW m \in Helpers, access \in Files
    PROVE  Spoiled(m, changes) \subseteq Files /\ CutShort(m, changes) \subseteq Files
  <1>1. ASSUME NEW i \in DOMAIN changes
        PROVE  /\ Saves(Replayed(access, m, SubSeq(changes, 1, i - 1)), m, changes[i]) \subseteq Files
               /\ \A g \in Saves(Replayed(access, m, SubSeq(changes, 1, i - 1)), m, changes[i]) :
                      Replayed(g, m, SubSeq(changes, i + 1, Len(changes))) \in Files
    <2>1. /\ changes[i] \in AllChanges
          /\ SubSeq(changes, 1, i - 1) \in Seq(AllChanges)
          /\ SubSeq(changes, i + 1, Len(changes)) \in Seq(AllChanges)
      BY PartOfReplay
    <2>2. Replayed(access, m, SubSeq(changes, 1, i - 1)) \in Files
      BY <2>1, ReplayedFile
    <2>3. Saves(Replayed(access, m, SubSeq(changes, 1, i - 1)), m, changes[i]) \subseteq Files
      BY <2>1, <2>2, SavedFiles
    <2>4. \A g \in Files : Replayed(g, m, SubSeq(changes, i + 1, Len(changes))) \in Files
      BY <2>1, ReplayedFile
    <2> QED
      BY <2>3, <2>4
  <1> QED
    BY <1>1 DEF Spoiled, CutShort

LEMMA MigratedFile ==
    ASSUME NEW f \in Files, HiddenRevokes \subseteq Permissions
    PROVE  Migrated(f) \in Files
  <1> DEFINE new == f.hidden \ DOMAIN f.users
             d == DOMAIN f.users \cup new
             first == [Blank EXCEPT !.revokes = HiddenRevokes]
             u == [m \in d |-> IF m \in new THEN first ELSE f.users[m]]
  <1>1. first \in Entries
    BY DEF Entries, Blank
  <1> HIDE DEF first
  <1>2. d \in SUBSET Helpers /\ u \in [d -> Entries] /\ TRUE \in BOOLEAN /\ f.hidden \in SUBSET Helpers
    BY <1>1, FileFields
  <1>3. [f EXCEPT !.migrated = TRUE, !.users = u] = [users |-> u, migrated |-> TRUE, hidden |-> f.hidden]
    <2> HIDE DEF u
    <2> QED
      BY FileUpdates
  <1>4. [users |-> u, migrated |-> TRUE, hidden |-> f.hidden] \in Files
    <2> HIDE DEF u, d
    <2> QED
      BY <1>2, IsFile
  <1>5. ~f.migrated => Migrated(f) = [f EXCEPT !.migrated = TRUE, !.users = u]
    BY Zenon DEF Migrated, first
  <1>6. f.migrated => Migrated(f) = f
    BY Zenon DEF Migrated
  <1> QED
    <2> HIDE DEF u
    <2> QED
      BY <1>3, <1>4, <1>5, <1>6, Zenon

--------------------------------------------------------------------------------
\* What a manager entry holds, and the rights it stands for.
Remembered ==
    \A m \in DOMAIN tiers : before[m] # Nobody => Effective(tiers[m].snapshot.entry) = before[m]

AccessInv == access \in Files /\ AccessTypeOK /\ Remembered /\ DemotionRestores

LEMMA EntryOfFile == \A m : EntryOf(m) = EntryIn(access, m)
BY DEF EntryOf, EntryIn

LEMMA EffectiveRights == ASSUME NEW e \in Entries, \A r \in DOMAIN Presets : Presets[r] \subseteq Permissions
                         PROVE  Effective(e) \in SUBSET Permissions
BY DEF Entries, Effective


\* The manager entries, the requests and the histories are typed.
TiersTyped ==
    /\ DOMAIN tiers \subseteq Helpers
    /\ \A m \in DOMAIN tiers : tiers[m] \in [active : BOOLEAN, snapshot : Snapshots]
    /\ edits \subseteq Helpers \X {"staff", "manager"}
    /\ before \in [Helpers -> (SUBSET Permissions) \cup {Nobody}]
    /\ demoted \in Helpers \cup {Nobody}

LEMMA AccessTyped == AccessTypeOK => TiersTyped
BY DEF AccessTypeOK, TiersTyped, Snapshots

LEMMA TypedAccess == access' \in Files /\ TiersTyped' => AccessTypeOK'
BY FileFields DEF AccessTypeOK, TiersTyped, Snapshots

\* The entry of one account is written: the others are as they were.
LEMMA EnteredTyped ==
    ASSUME TiersTyped, NEW m \in Helpers, NEW active \in BOOLEAN, NEW s \in Snapshots,
           tiers' = WithEntry(m, active, s)
    PROVE  /\ DOMAIN tiers' \subseteq Helpers
           /\ \A n \in DOMAIN tiers' : tiers'[n] \in [active : BOOLEAN, snapshot : Snapshots]
  <1>1. [active |-> active, snapshot |-> s] \in [active : BOOLEAN, snapshot : Snapshots]
    OBVIOUS
  <1>2. /\ DOMAIN tiers' = DOMAIN tiers \cup {m}
        /\ tiers'[m] = [active |-> active, snapshot |-> s]
        /\ \A n \in DOMAIN tiers \ {m} : tiers'[n] = tiers[n]
    BY DEF WithEntry
  <1>3. DOMAIN tiers \subseteq Helpers /\ \A n \in DOMAIN tiers : tiers[n] \in [active : BOOLEAN, snapshot : Snapshots]
    BY DEF TiersTyped
  <1> QED
    BY <1>1, <1>2, <1>3

\* A promotion remembers the rights it took the snapshot of, or none.
LEMMA PromoteStep ==
    ASSUME AccessInv, AccessAssumption, NEW m \in Helpers, Promote(m)
    PROVE  AccessInv'
  <1>1. TiersTyped /\ access \in Files /\ Remembered /\ access' = access /\ edits' = edits /\ demoted' = Nobody
    BY AccessTyped DEF AccessInv, Promote
  <1>2. EntryOf(m) \in Entries /\ Snapshot(m) \in Snapshots /\ Snapshot(m).entry = EntryOf(m)
    <2>1. EntryOf(m) \in Entries
      BY <1>1, EntryOfFile, FileEntry
    <2> QED
      BY <2>1 DEF Snapshot, Snapshots
  <1>3. Effective(EntryOf(m)) \in SUBSET Permissions
    BY <1>2, EffectiveRights DEF AccessAssumption
  <1>4. CASE TiersLost
    <2>1. DOMAIN tiers' = {} /\ before' = [n \in Helpers |-> Nobody]
      BY <1>4 DEF TiersLost
    <2>2. TiersTyped'
      <3>1. before' \in [Helpers -> (SUBSET Permissions) \cup {Nobody}]
        BY <2>1
      <3>2. edits' \subseteq Helpers \X {"staff", "manager"} /\ demoted' \in Helpers \cup {Nobody}
        BY <1>1 DEF TiersTyped
      <3> QED
        BY <2>1, <3>1, <3>2 DEF TiersTyped
    <2> QED
      BY <1>1, <2>1, <2>2, TypedAccess DEF AccessInv, Remembered, DemotionRestores
  <1>5. CASE /\ TiersSaved(WithEntry(m, TRUE, SnapshotFor(m)))
             /\ before' = [before EXCEPT ![m] =
                    IF m \notin DOMAIN tiers THEN Effective(EntryOf(m))
                    ELSE IF IsManager(m) THEN @ ELSE Nobody]
    <2> DEFINE known == IF m \notin DOMAIN tiers THEN Effective(EntryOf(m))
                        ELSE IF IsManager(m) THEN before[m] ELSE Nobody
    <2>1. SnapshotFor(m) \in Snapshots
      BY <1>1, <1>2 DEF SnapshotFor, TiersTyped
    <2>2. tiers' = WithEntry(m, TRUE, SnapshotFor(m)) /\ before' = [before EXCEPT ![m] = known]
      BY <1>5 DEF TiersSaved
    <2>3. known \in (SUBSET Permissions) \cup {Nobody}
      <3>1. before[m] \in (SUBSET Permissions) \cup {Nobody}
        BY <1>1 DEF TiersTyped
      <3> QED
        BY <1>3, <3>1
    <2>4. known # Nobody => Effective(SnapshotFor(m).entry) = known
      BY <1>1, <1>2 DEF SnapshotFor, Remembered
    <2> HIDE DEF known
    <2>5. before' \in [Helpers -> (SUBSET Permissions) \cup {Nobody}] /\ before'[m] = known
          /\ \A n \in Helpers \ {m} : before'[n] = before[n]
      BY <1>1, <2>2, <2>3 DEF TiersTyped
    <2>6. TiersTyped'
      BY <1>1, <2>1, <2>2, <2>5, EnteredTyped DEF TiersTyped
    <2>7. Remembered'
      <3> SUFFICES ASSUME NEW n \in DOMAIN tiers', before'[n] # Nobody
                   PROVE  Effective(tiers'[n].snapshot.entry) = before'[n]
        BY DEF Remembered, Effective
      <3>1. CASE n = m
        <4>1. tiers'[m] = [active |-> TRUE, snapshot |-> SnapshotFor(m)]
          BY <2>2 DEF WithEntry
        <4> QED
          BY <2>4, <2>5, <3>1, <4>1
      <3>2. CASE n # m
        <4>1. n \in DOMAIN tiers \ {m} /\ n \in Helpers \ {m} /\ tiers'[n] = tiers[n]
          <5>1. /\ DOMAIN tiers' = DOMAIN tiers \cup {m}
                /\ \A l \in DOMAIN tiers \ {m} : tiers'[l] = tiers[l]
            BY <2>2 DEF WithEntry
          <5>2. DOMAIN tiers \subseteq Helpers
            BY <1>1 DEF TiersTyped
          <5> QED
            BY <3>2, <5>1, <5>2
        <4> QED
          BY <1>1, <2>5, <4>1 DEF Remembered
      <3> QED
        BY <3>1, <3>2
    <2> QED
      BY <1>1, <2>6, <2>7, TypedAccess DEF AccessInv, DemotionRestores, AccessAssumption
  <1> QED
    BY <1>4, <1>5 DEF Promote

\* A demotion gives back the rights of the snapshot, or fails half-way and
\* claims nothing.
LEMMA DemoteStep ==
    ASSUME AccessInv, AccessAssumption, NEW m \in Helpers, Demote(m)
    PROVE  AccessInv'
  <1> DEFINE s == tiers[m].snapshot
             changes == Replay(s)
             staff == WithEntry(m, FALSE, s)
  <1>1. TiersTyped /\ access \in Files /\ Remembered /\ m \in DOMAIN tiers /\ s \in Snapshots
    <2>1. TiersTyped /\ access \in Files /\ Remembered /\ m \in DOMAIN tiers
      BY AccessTyped DEF AccessInv, Demote
    <2> QED
      BY <2>1 DEF TiersTyped
  <1>2. IsFiniteSet(Permissions) /\ HiddenRevokes \subseteq Permissions /\ Nobody \notin Helpers
    BY DEF AccessAssumption
  <1>3. changes \in Seq(AllChanges)
    <2> HIDE DEF s
    <2> QED
      BY <1>1, <1>2, ReplayIsSeq
  <1>4. Spoiled(m, changes) \subseteq Files /\ CutShort(m, changes) \subseteq Files
    <2> HIDE DEF changes
    <2> QED
      BY <1>1, <1>3, InterruptedFiles
  <1>5. ASSUME tiers' = staff, before' = before, edits' = edits, demoted' \in Helpers \cup {Nobody}
        PROVE  TiersTyped' /\ Remembered'
    <2>1. /\ DOMAIN tiers' = DOMAIN tiers
          /\ tiers'[m].snapshot = s
          /\ \A n \in DOMAIN tiers \ {m} : tiers'[n] = tiers[n]
      BY <1>1, <1>5 DEF WithEntry
    <2>2. TiersTyped'
      <3>1. /\ DOMAIN tiers' \subseteq Helpers
            /\ \A n \in DOMAIN tiers' : tiers'[n] \in [active : BOOLEAN, snapshot : Snapshots]
        <4> HIDE DEF s
        <4> QED
          BY <1>1, <1>5, EnteredTyped
      <3> QED
        BY <1>1, <1>5, <3>1 DEF TiersTyped
    <2>3. Remembered'
      <3> SUFFICES ASSUME NEW n \in DOMAIN tiers', before'[n] # Nobody
                   PROVE  Effective(tiers'[n].snapshot.entry) = before'[n]
        BY DEF Remembered, Effective
      <3>1. tiers'[n].snapshot = tiers[n].snapshot /\ n \in DOMAIN tiers
        BY <2>1
      <3> QED
        BY <1>1, <1>5, <3>1 DEF Remembered
    <2> QED
      BY <2>2, <2>3
  <1>6. CASE /\ access' = Replayed(access, m, changes)
             /\ TiersSaved(staff)
             /\ demoted' = m
             /\ UNCHANGED <<edits, before>>
    <2>1. access' \in Files /\ Effective(EntryIn(access', m)) = Effective(s.entry)
      <3> HIDE DEF s
      <3> QED
        BY <1>1, <1>2, <1>6, ReplayRestores DEF changes
    <2>2. TiersTyped' /\ Remembered'
      BY <1>5, <1>6 DEF TiersSaved
    <2>3. before[m] # Nobody => Effective(s.entry) = before[m]
      BY <1>1 DEF Remembered
    <2>4. DemotionRestores'
      <3> SUFFICES ASSUME NEW n \in Helpers, demoted' = n, before'[n] # Nobody
                   PROVE  Effective(EntryOf(n)') = before'[n]
        BY DEF DemotionRestores, Effective
      <3>1. n = m /\ before' = before
        BY <1>6
      <3>2. EntryOf(m)' = EntryIn(access', m)
        BY DEF EntryOf, EntryIn
      <3> QED
        BY <2>1, <2>3, <3>1, <3>2
    <2> QED
      BY <2>1, <2>2, <2>4, TypedAccess DEF AccessInv
  <1>7. CASE /\ access' \in Spoiled(m, changes)
             /\ demoted' = Nobody
             /\ \/ TiersSaved(staff) /\ UNCHANGED before
                \/ TiersSaved(tiers) /\ UNCHANGED before
                \/ TiersLost
             /\ UNCHANGED edits
    <2>1. access' \in Files /\ DemotionRestores'
      BY <1>2, <1>4, <1>7 DEF DemotionRestores
    <2>2. TiersTyped' /\ Remembered'
      <3>1. CASE TiersSaved(staff) /\ UNCHANGED before
        BY <1>5, <1>7, <3>1 DEF TiersSaved
      <3>2. CASE TiersSaved(tiers) /\ UNCHANGED before
        BY <1>1, <1>7, <3>2 DEF TiersSaved, TiersTyped, Remembered, Effective
      <3>3. CASE TiersLost
        <4>1. DOMAIN tiers' = {} /\ before' \in [Helpers -> (SUBSET Permissions) \cup {Nobody}]
          BY <3>3 DEF TiersLost
        <4>2. edits' \subseteq Helpers \X {"staff", "manager"} /\ demoted' \in Helpers \cup {Nobody}
          BY <1>1, <1>7 DEF TiersTyped
        <4> QED
          BY <4>1, <4>2 DEF TiersTyped, Remembered
      <3> QED
        BY <1>7, <3>1, <3>2, <3>3
    <2> QED
      BY <2>1, <2>2, TypedAccess DEF AccessInv
  <1>8. CASE /\ \E f \in CutShort(m, changes) : access' = Migrated(f)
             /\ demoted' = Nobody
             /\ edits' = {}
             /\ UNCHANGED <<tiers, before>>
    <2>1. access' \in Files
      <3>1. \A f \in Files : Migrated(f) \in Files
        BY <1>2, MigratedFile
      <3> HIDE DEF changes
      <3> QED
        BY <1>4, <1>8, <3>1
    <2>2. DemotionRestores'
      BY <1>2, <1>8 DEF DemotionRestores
    <2>3. TiersTyped' /\ Remembered'
      BY <1>1, <1>8 DEF TiersTyped, Remembered, Effective
    <2> QED
      BY <2>1, <2>2, <2>3, TypedAccess DEF AccessInv
  <1> QED
    BY <1>6, <1>7, <1>8, Zenon DEF Demote

\* What leaves the manager entries and the histories alone keeps them right.
LEMMA OtherStep ==
    ASSUME AccessInv, AccessAssumption, access' \in Files,
           edits' \subseteq Helpers \X {"staff", "manager"}, demoted' = Nobody, UNCHANGED <<tiers, before>>
    PROVE  AccessInv'
  <1>1. TiersTyped /\ Remembered
    BY AccessTyped DEF AccessInv
  <1>2. TiersTyped' /\ Remembered' /\ DemotionRestores'
    BY <1>1 DEF TiersTyped, Remembered, DemotionRestores, Effective, AccessAssumption
  <1> QED
    BY <1>2, TypedAccess DEF AccessInv

LEMMA ChangesMade == AccessAssumption => \A kind : Changes(kind) \subseteq AllChanges
BY DEF AccessAssumption, Changes, AllChanges

\* The invariant is inductive (AccessInit, AccessNext).
LEMMA AccessInitial == AccessAssumption /\ AccessInit => AccessInv
  <1> SUFFICES ASSUME AccessAssumption, AccessInit PROVE AccessInv
    OBVIOUS
  <1>1. PICK hidden \in SUBSET Helpers : access = Migrated([users |-> <<>>, migrated |-> FALSE, hidden |-> hidden])
    BY DEF AccessInit
  <1> DEFINE none == [n \in {} |-> Blank]
  <1>2. none \in [{} -> Entries] /\ none = <<>> /\ {} \in SUBSET Helpers /\ FALSE \in BOOLEAN
    OBVIOUS
  <1>3. [users |-> none, migrated |-> FALSE, hidden |-> hidden] \in Files
    <2> HIDE DEF none
    <2> QED
      BY <1>2, IsFile
  <1>4. access \in Files
    BY <1>1, <1>2, <1>3, MigratedFile DEF AccessAssumption
  <1>5. DOMAIN tiers = {} /\ edits = {} /\ before \in [Helpers -> (SUBSET Permissions) \cup {Nobody}] /\ demoted = Nobody
    BY DEF AccessInit
  <1>6. AccessTypeOK
    BY <1>4, <1>5, FileFields DEF AccessTypeOK
  <1> QED
    BY <1>4, <1>5, <1>6 DEF AccessInv, Remembered, DemotionRestores, AccessAssumption

LEMMA AccessStep == AccessAssumption /\ AccessInv /\ [AccessNext]_accessVars => AccessInv'
  <1> SUFFICES ASSUME AccessAssumption, AccessInv, [AccessNext]_accessVars PROVE AccessInv'
    OBVIOUS
  <1>1. access \in Files /\ TiersTyped
    BY AccessTyped DEF AccessInv
  <1>2. edits \subseteq Helpers \X {"staff", "manager"}
    BY <1>1 DEF TiersTyped
  <1>3. CASE AppRestarts
    <2>1. access' \in Files
      BY <1>1, <1>3, MigratedFile DEF AppRestarts, AccessAssumption
    <2> QED
      BY <1>3, <2>1, OtherStep DEF AppRestarts
  <1>4. ASSUME NEW m \in Helpers, Promote(m) PROVE AccessInv'
    BY <1>4, PromoteStep
  <1>5. ASSUME NEW m \in Helpers, Demote(m) PROVE AccessInv'
    BY <1>5, DemoteStep
  <1>6. ASSUME NEW m \in Helpers, EditStaff(m) PROVE AccessInv'
    BY <1>1, <1>2, <1>6, OtherStep DEF EditStaff
  <1>7. ASSUME NEW m \in Helpers, EditManager(m) PROVE AccessInv'
    BY <1>1, <1>2, <1>7, OtherStep DEF EditManager
  <1>8. ASSUME NEW m \in Helpers, ResetStaff(m) PROVE AccessInv'
    <2>1. Change("reset", Nobody) \in AllChanges
      BY DEF AllChanges
    <2>2. access' \in Files
      BY <1>1, <1>8, <2>1, SavedFiles DEF ResetStaff
    <2> QED
      BY <1>2, <1>8, <2>2, OtherStep DEF ResetStaff
  <1>9. ASSUME NEW m \in Helpers, NEW kind \in {"staff", "manager"}, EditArrives(m, kind) PROVE AccessInv'
    <2>1. PICK c \in Changes(kind) : access' \in Saves(access, m, c)
      BY <1>9 DEF EditArrives
    <2>2. access' \in Files
      BY <1>1, <2>1, ChangesMade, SavedFiles
    <2>3. edits' \subseteq Helpers \X {"staff", "manager"} /\ demoted' = Nobody /\ UNCHANGED <<tiers, before>>
      BY <1>2, <1>9 DEF EditArrives
    <2> QED
      BY <2>2, <2>3, OtherStep
  <1>10. CASE UNCHANGED accessVars
    BY <1>10 DEF accessVars, AccessInv, AccessTypeOK, Remembered, DemotionRestores, Effective, EntryOf
  <1> QED
    BY <1>3, <1>4, <1>5, <1>6, <1>7, <1>8, <1>9, <1>10 DEF AccessNext
================================================================================
