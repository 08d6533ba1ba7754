------------------------------- MODULE VoxelShop -------------------------------
(***************************************************************************)
(* The Voxel.shop account and the browser-assisted downloads of paid      *)
(* plugins (services/minecraft_updater.py): authorisation states that a    *)
(* callback redeems, tokens that are verified before they are stored, and  *)
(* download sessions that wait for a jar in a watched folder.              *)
(***************************************************************************)
EXTENDS Naturals, FiniteSets

CONSTANTS
    AuthStates,     \* the authorisation states that can be generated
    Sessions,       \* the download sessions that can be started
    Releases        \* the plugin's releases, 1..Releases

ASSUME ReleasesAssumption == Releases \in Nat \ {0}

NoAccount == "nobody"
ByHand    == "by hand"
Ages      == {"none", "now", "young", "old"}
Statuses  == {"none", "waiting", "ready", "applied", "failed"}

VARIABLES
    credential,     \* what connected the stored token: a state, a token entered by hand
    pending,        \* the file of authorisation states, with their ages
    issued,         \* the authorisation states generated so far
    verifying,      \* the connections whose token is being verified
    grants,         \* history: connections that each state began
    sessions,       \* the file of download sessions
    started,        \* the sessions started so far
    folder,         \* the releases whose jar lies in the download folder
    applying,       \* how many requests apply a session, awaiting its check
    installed,      \* the plugin's release in place
    installedBy     \* history: the sessions whose jar was put in place

shopVars == <<credential, pending, issued, verifying, grants,
              sessions, started, folder, applying, installed, installedBy>>
accountVars == <<credential, pending, issued, verifying, grants>>
downloadVars == <<sessions, started, folder, applying, installed, installedBy>>

Session == [status : Statuses, expected : 1..Releases, old : BOOLEAN]
NoSession == [status |-> "none", expected |-> 1, old |-> FALSE]

ShopTypeOK ==
    /\ credential \in AuthStates \cup {ByHand, NoAccount}
    /\ pending \in [AuthStates -> Ages]
    /\ issued \subseteq AuthStates
    /\ verifying \subseteq AuthStates \cup {ByHand}
    /\ grants \in [AuthStates -> 0..2]
    /\ sessions \in [Sessions -> Session]
    /\ started \subseteq Sessions
    /\ folder \subseteq 1..Releases
    /\ applying \in [Sessions -> 0..2]
    /\ installed \in 1..Releases
    /\ installedBy \subseteq Sessions

ShopInit ==
    /\ credential = NoAccount
    /\ pending = [s \in AuthStates |-> "none"]
    /\ issued = {}
    /\ verifying = {}
    /\ grants = [s \in AuthStates |-> 0]
    /\ sessions = [d \in Sessions |-> NoSession]
    /\ started = {}
    /\ folder = {}
    /\ applying = [d \in Sessions |-> 0]
    /\ installed = 1
    /\ installedBy = {}

--------------------------------------------------------------------------------
(* The account.                                                            *)

\* The states that a new authorisation keeps: those younger than half an hour,
\* but for the ones generated in the same second (`age or 1800`).
KeptStates == {s \in AuthStates : pending[s] = "young"}

\* create_voxelshop_authorization_url saves the state before it asks the shop,
\* which changes nothing any more.
StartAuthorization ==
    /\ \E s \in AuthStates \ issued :
          /\ issued' = issued \cup {s}
          /\ pending' = [x \in AuthStates |-> CASE x = s -> "now"
                                                [] x \in KeptStates -> pending[x]
                                                [] OTHER -> "none"]
    /\ UNCHANGED <<credential, verifying, grants, downloadVars>>

\* Mutant: a state is taken out of what was loaded, and that is not saved.
PopUnsaved(s) == UNCHANGED pending

\* complete_voxelshop_authorization takes the state out before it looks at it.
Pop(s) == pending' = [pending EXCEPT ![s] = "none"]

\* The callback, which anybody may call with any state, more than once.
CompleteAuthorization ==
    /\ \E s \in issued, success \in BOOLEAN :
          /\ Pop(s)
          /\ IF pending[s] \in {"now", "young"} /\ success
             THEN /\ verifying' = verifying \cup {s}
                  /\ grants[s] < 2                       \* bounds the count
                  /\ grants' = [grants EXCEPT ![s] = @ + 1]
             ELSE UNCHANGED <<verifying, grants>>
    /\ UNCHANGED <<credential, issued, downloadVars>>

\* connect_voxelshop_token: the token is verified, then stored.
ConnectToken ==
    /\ verifying' = verifying \cup {ByHand}
    /\ UNCHANGED <<credential, pending, issued, grants, downloadVars>>

TokenVerified ==
    /\ \E source \in verifying :
          /\ verifying' = verifying \ {source}
          /\ credential' \in {source, credential}
    /\ UNCHANGED <<pending, issued, grants, downloadVars>>

Disconnect ==
    /\ credential' = NoAccount
    /\ UNCHANGED <<pending, issued, verifying, grants, downloadVars>>

\* Time passes for the states that are pending, which are not all of one age.
StatesAge ==
    /\ \E s \in AuthStates :
          /\ pending[s] \in {"now", "young"}
          /\ pending' = [pending EXCEPT ![s] = IF @ = "now" THEN "young" ELSE "old"]
    /\ UNCHANGED <<credential, issued, verifying, grants, downloadVars>>

--------------------------------------------------------------------------------
(* Browser-assisted downloads.                                             *)

\* _active_voxelshop_browser_sessions: all that a save of the folder or of a
\* session keeps.
Active(d) == sessions[d].status \in {"waiting", "ready"} /\ ~sessions[d].old

ActiveSessions == [d \in Sessions |-> IF Active(d) THEN sessions[d] ELSE [sessions[d] EXCEPT !.status = "none"]]

SaveFolder ==
    /\ sessions' = ActiveSessions
    /\ UNCHANGED <<started, folder, applying, installed, installedBy, accountVars>>

\* start_voxelshop_browser_download_session, whose check and summary are awaited
\* before anything is read that is saved: the release is newer than the one that
\* was in place then.
StartSession ==
    /\ \E d \in Sessions \ started, v \in 2..Releases :
          /\ started' = started \cup {d}
          /\ sessions' = [ActiveSessions EXCEPT ![d] = [status |-> "waiting", expected |-> v, old |-> FALSE]]
    /\ UNCHANGED <<folder, applying, installed, installedBy, accountVars>>

\* _scan_voxelshop_browser_download_session: a jar that matches is accepted,
\* unless it is older than the session or cannot be read.
Accepted(d) == sessions[d].status # "none" /\ sessions[d].expected \in folder

\* Looking at a session that waits and has a candidate makes it ready; another
\* one is left as it is.
Looked(d) ==
    IF sessions[d].status = "waiting"
    THEN [ActiveSessions EXCEPT ![d] = [sessions[d] EXCEPT !.status = "ready"]]
    ELSE sessions

GetSession ==
    /\ \E d \in Sessions : Accepted(d) /\ sessions' = Looked(d)
    /\ UNCHANGED <<started, folder, applying, installed, installedBy, accountVars>>

\* apply_voxelshop_browser_download_session looks at the session first.
ApplySession ==
    /\ \E d \in Sessions :
          /\ Accepted(d)
          /\ applying[d] < 2
          /\ applying' = [applying EXCEPT ![d] = @ + 1]
          /\ sessions' = Looked(d)
    /\ UNCHANGED <<started, folder, installed, installedBy, accountVars>>

\* Mutant: the session is closed without a look at the log.
ClosedAsApplied(d, success) ==
    IF sessions[d].status = "none" THEN sessions ELSE [sessions EXCEPT ![d].status = "applied"]

\* A session that was dropped while its check was awaited is not written again.
Closed(d, success) ==
    IF sessions[d].status = "none" THEN sessions
    ELSE [sessions EXCEPT ![d].status = IF success THEN "applied" ELSE "failed"]

\* The jar is moved away into its place; a jar that is gone is an error that
\* leaves the session alone.
SessionApplied ==
    /\ \E d \in Sessions :
          /\ applying[d] > 0
          /\ applying' = [applying EXCEPT ![d] = @ - 1]
          /\ LET v == sessions[d].expected
             IN  \/ /\ v \in folder
                    /\ folder' = folder \ {v}
                    /\ installed' = v
                    /\ installedBy' = installedBy \cup {d}
                    /\ sessions' = Closed(d, TRUE)
                 \/ /\ v \in folder
                    /\ sessions' = Closed(d, FALSE)
                    /\ folder' \in {folder, folder \ {v}}
                    /\ UNCHANGED <<installed, installedBy>>
                 \/ UNCHANGED <<folder, installed, installedBy, sessions>>
    /\ UNCHANGED <<started, accountVars>>

\* The administrator's browser saves a jar, and half an hour passes.
Download ==
    /\ \E v \in 1..Releases : folder' = folder \cup {v}
    /\ UNCHANGED <<sessions, started, applying, installed, installedBy, accountVars>>

SessionsAge ==
    /\ sessions' = [d \in Sessions |-> [sessions[d] EXCEPT !.old = @ \/ sessions[d].status # "none"]]
    /\ UNCHANGED <<started, folder, applying, installed, installedBy, accountVars>>

AccountNext ==
    \/ StartAuthorization \/ CompleteAuthorization \/ ConnectToken \/ TokenVerified
    \/ Disconnect \/ StatesAge

DownloadNext ==
    \/ SaveFolder \/ StartSession \/ GetSession \/ ApplySession \/ SessionApplied
    \/ Download \/ SessionsAge

ShopSpec == ShopInit /\ [][AccountNext \/ DownloadNext]_shopVars

--------------------------------------------------------------------------------
(* Properties.                                                             *)

\* However often and in whatever order callbacks arrive, a state connects an
\* account at most once.
StateAuthorisesOnce == \A s \in AuthStates : grants[s] <= 1

\* A session reads applied only when its own jar was put in place, also when two
\* requests apply it at once and the jar is downloaded again in between.
AppliedIsInstalled ==
    \A d \in Sessions : sessions[d].status = "applied" => d \in installedBy
================================================================================
