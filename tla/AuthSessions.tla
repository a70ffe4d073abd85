---------------------------- MODULE AuthSessions ----------------------------
(***************************************************************************)
(* AuthService, SessionService and JwtStrategy as concurrent HTTP requests *)
(* on the users, sessions and refresh_tokens tables: login, refresh,       *)
(* logout, logout-all, change-password, reset-password and                 *)
(* switch-organization.                                                    *)
(*                                                                         *)
(* A request reads in one step and writes in a later one, so other         *)
(* requests run between the two.  What it read travels in its record of    *)
(* req.  A request may also end at any step without its next write: the    *)
(* process dies, the transaction times out, or the database aborts it.     *)
(*                                                                         *)
(* A password is an epoch: the number of times the user has set one.  The  *)
(* reset token and the password history are left out here, as are the      *)
(* tables of memberships and the 15 minutes after which an access token    *)
(* expires, which can only refuse more requests than the model does.       *)
(***************************************************************************)
EXTENDS SessionStore

CONSTANTS
    Request,        \* requests that can be in flight at once
    MaxVersion,     \* bound on tokenVersion
    MaxEpoch        \* bound on the password epoch

ASSUME BoundAssumption == MaxVersion \in Nat /\ MaxEpoch \in Nat

VARIABLES
    status,         \* status[u], ACTIVE or LOCKED
    tokenVersion,   \* tokenVersion[u]
    password,       \* password[u], the epoch of u's passwordHash
    access,         \* the access tokens ever signed
    req,            \* req[r], what request r has read and where it stands
    ended           \* ghost: sessions a successful reply said are over

userVars == <<status, tokenVersion, password>>
vars == <<storeVars, userVars, access, req, ended>>

PC == {"idle", "session", "lookup", "bump", "setPassword", "find", "revoke",
       "create", "rotate", "reuse", "user", "sign"}

AuthenticatedOp == {"logout", "logoutAll", "changePassword", "switchOrganization"}

Op == AuthenticatedOp \cup {"none", "login", "refresh", "resetPassword"}

Idle == [pc |-> "idle", op |-> "none", user |-> None, session |-> None,
         token |-> None, version |-> 0,
         targets |-> {},    \* the sessions revocation will write
         doomed |-> {}]     \* ghost: the sessions a success reply says are over

AccessToken == [user : User, session : Session, version : Nat]

RequestState ==
    [pc : PC, op : Op, user : User \cup {None}, session : Session \cup {None},
     token : Token \cup {None}, version : Nat,
     targets : SUBSET Session, doomed : SUBSET Session]

TypeOK ==
    /\ StoreTypeOK
    /\ status \in [User -> {"ACTIVE", "LOCKED"}]
    /\ tokenVersion \in [User -> Nat]
    /\ password \in [User -> Nat]
    /\ access \subseteq AccessToken
    /\ req \in [Request -> RequestState]
    /\ ended \subseteq Session

Init ==
    /\ StoreInit
    /\ status = [u \in User |-> "ACTIVE"]
    /\ tokenVersion = [u \in User |-> 0]
    /\ password = [u \in User |-> 0]
    /\ access = {}
    /\ req = [r \in Request |-> Idle]
    /\ ended = {}

At(r, pc) == req[r].pc = pc
Goto(r, pc) == req' = [req EXCEPT ![r].pc = pc]
Leave(r) == req' = [req EXCEPT ![r] = Idle]

(* An error, a request that dies, or a reply that says nothing of sessions *)
(* being over.                                                             *)
LeaveUnpromised(r) == Leave(r) /\ UNCHANGED ended

(* A success reply reports the doomed sessions ended. *)
LeaveWithSuccess(r) ==
    /\ Leave(r)
    /\ ended' = ended \cup req[r].doomed

-----------------------------------------------------------------------------
(* Mutants.  revokeAllSessionsForUser keeps the caller's session whoever   *)
(* calls it, or never keeps it; an access token carries the version after  *)
(* the user's.                                                             *)

Kept_Always(op, s) == {s}
Kept_Nobody(op, s) == {}
SignedVersion_OffByOne(u) == tokenVersion[u] + 1

-----------------------------------------------------------------------------
(* Login.  The row of the user is read and its password compared in one    *)
(* step: the comparison depends only on the row.  A wrong password, a      *)
(* locked user or an unknown one ends here.                                *)

(* What buildAccessPayload takes from the row of the user. *)
SignedVersion(u) == tokenVersion[u]

Login(r, u) ==
    /\ At(r, "idle")
    /\ status[u] = "ACTIVE"
    /\ req' = [req EXCEPT ![r] = [Idle EXCEPT
                 !.pc = "create", !.op = "login", !.user = u,
                 !.version = SignedVersion(u)]]
    /\ UNCHANGED <<storeVars, userVars, access, ended>>

(* The transaction that opens the session does not look at the user again. *)
OpenSession(r, s, t) ==
    /\ At(r, "create")
    /\ CreateSession(req[r].user, s, t)
    /\ req' = [req EXCEPT ![r].pc = "sign", ![r].session = s]
    /\ UNCHANGED <<userVars, access, ended>>

-----------------------------------------------------------------------------
(* Refresh: rotateRefreshToken in two steps, then the user is read again.  *)

ReadToken(r, t, pc) ==
    req' = [req EXCEPT ![r] = [Idle EXCEPT
              !.pc = pc, !.op = "refresh", !.token = t,
              !.user = owner[sessionOf[t]], !.session = sessionOf[t]]]

(* An expired token and one of a revoked session are refused here. *)
PresentRefreshToken(r, t) ==
    /\ At(r, "idle")
    /\ sessionOf[t] # None
    /\ \/ MayRotate(t) /\ ReadToken(r, t, "rotate")
       \/ t \in spent /\ ReadToken(r, t, "reuse")
    /\ UNCHANGED <<storeVars, userVars, access, ended>>

(* The reuse branch ends in REFRESH_TOKEN_REUSE_DETECTED. *)
RefuseReuse(r) ==
    /\ At(r, "reuse")
    /\ RevokeFamilyAndThrow(req[r].session)
    /\ LeaveUnpromised(r)
    /\ UNCHANGED <<userVars, access>>

Rotate(r, t) ==
    /\ At(r, "rotate")
    /\ RotateRefreshToken(req[r].token, t)
    /\ Goto(r, "user")
    /\ UNCHANGED <<userVars, access, ended>>

(* The re-read of the user by refresh and by switchOrganization.  A user   *)
(* who is not ACTIVE gets a 403; the rotation stays committed.             *)
LoadUser(r) ==
    /\ At(r, "user")
    /\ \/ /\ status[req[r].user] = "ACTIVE"
          /\ req' = [req EXCEPT ![r].pc = "sign",
                                ![r].version = SignedVersion(req[r].user)]
       \/ /\ status[req[r].user] # "ACTIVE"
          /\ Leave(r)
    /\ UNCHANGED <<storeVars, userVars, access, ended>>

(* Sign an access token over what the request read. *)
Sign(r) ==
    /\ At(r, "sign")
    /\ access' = access \cup {[user |-> req[r].user, session |-> req[r].session,
                               version |-> req[r].version]}
    /\ LeaveUnpromised(r)
    /\ UNCHANGED <<storeVars, userVars>>

-----------------------------------------------------------------------------
(* Authentication of a request that carries access token a: JwtStrategy    *)
(* reads the user, then the session.                                       *)

PassesUserCheck(a) ==
    /\ status[a.user] = "ACTIVE"
    /\ tokenVersion[a.user] = a.version

(* The sessions a success reply of op, called in session s, says are over. *)
Doomed(op, u, s, target) ==
    CASE op = "logout" -> SessionsOf(u) \cap {target}
      [] op \in {"logoutAll", "changePassword", "resetPassword"} ->
            SessionsOf(u) \ (IF op = "changePassword" THEN {s} ELSE {})
      [] OTHER -> {}

(* target is the :id of DELETE /sessions/:id; POST /logout names the       *)
(* caller's own session.                                                   *)
PresentAccessToken(r, a, op, target) ==
    /\ At(r, "idle")
    /\ PassesUserCheck(a)
    /\ req' = [req EXCEPT ![r] = [Idle EXCEPT
                 !.pc = "session", !.op = op, !.user = a.user,
                 !.session = a.session,
                 !.targets = IF op = "logout" THEN {target} ELSE {},
                 !.doomed = Doomed(op, a.user, a.session, target)]]
    /\ UNCHANGED <<storeVars, userVars, access, ended>>

(* Where the handler of an authenticated operation starts. *)
FirstStep(op) ==
    CASE op = "logout" -> "lookup"
      [] op = "logoutAll" -> "bump"
      [] op = "changePassword" -> "setPassword"
      [] op = "switchOrganization" -> "user"

CheckSession(r) ==
    /\ At(r, "session")
    /\ \/ Usable(req[r].session) /\ Goto(r, FirstStep(req[r].op))
       \/ ~Usable(req[r].session) /\ Leave(r)
    /\ UNCHANGED <<storeVars, userVars, access, ended>>

-----------------------------------------------------------------------------
(* Revocation. *)

(* The session change-password keeps: exceptSessionId.  No other caller of *)
(* revokeAllSessionsForUser passes one.                                    *)
Kept(op, s) == IF op = "changePassword" THEN {s} ELSE {}

(* revokeSession searches only the sessions of the caller. *)
OwnTargets(r) == req[r].targets \cap SessionsOf(req[r].user)

GotoRevoke(r, found) ==
    req' = [req EXCEPT ![r].pc = "revoke", ![r].targets = found]

(* An absent session is a 404, one already revoked is a success. *)
LookUpTarget(r) ==
    /\ At(r, "lookup")
    /\ \/ OwnTargets(r) = {} /\ LeaveUnpromised(r)
       \/ /\ OwnTargets(r) # {}
          /\ OwnTargets(r) \subseteq revoked
          /\ LeaveWithSuccess(r)
       \/ /\ ~(OwnTargets(r) \subseteq revoked)
          /\ GotoRevoke(r, OwnTargets(r))
          /\ UNCHANGED ended
    /\ UNCHANGED <<storeVars, userVars, access>>

(* logoutAll first invalidates the access tokens, in a write of its own. *)
BumpTokenVersion(r) ==
    /\ At(r, "bump")
    /\ tokenVersion[req[r].user] < MaxVersion
    /\ tokenVersion' = [tokenVersion EXCEPT ![req[r].user] = @ + 1]
    /\ Goto(r, "find")
    /\ UNCHANGED <<storeVars, status, password, access, ended>>

(* The findMany of revokeAllSessionsForUser; none left is a success. *)
FindSessions(r) ==
    /\ At(r, "find")
    /\ LET found == (SessionsOf(req[r].user) \ revoked)
                        \ Kept(req[r].op, req[r].session) IN
       \/ found = {} /\ LeaveWithSuccess(r)
       \/ found # {} /\ GotoRevoke(r, found) /\ UNCHANGED ended
    /\ UNCHANGED <<storeVars, userVars, access>>

Revoke(r) ==
    /\ At(r, "revoke")
    /\ RevokeSessions(req[r].targets)
    /\ LeaveWithSuccess(r)
    /\ UNCHANGED <<userVars, access>>

-----------------------------------------------------------------------------
(* Passwords. *)

(* A reset whose emailed token has just been consumed. *)
ResetPassword(r, u) ==
    /\ At(r, "idle")
    /\ req' = [req EXCEPT ![r] = [Idle EXCEPT
                 !.pc = "setPassword", !.op = "resetPassword", !.user = u,
                 !.doomed = Doomed("resetPassword", u, None, None)]]
    /\ UNCHANGED <<storeVars, userVars, access, ended>>

(* The transaction that stores the new hash; a reset also bumps            *)
(* tokenVersion.  change-password leaves the other sessions alone when its *)
(* caller says so (revokeOtherSessions: false).                            *)
SetPassword(r) ==
    /\ At(r, "setPassword")
    /\ LET u == req[r].user IN
       /\ password[u] < MaxEpoch
       /\ password' = [password EXCEPT ![u] = @ + 1]
       /\ IF req[r].op = "resetPassword"
          THEN /\ tokenVersion[u] < MaxVersion
               /\ tokenVersion' = [tokenVersion EXCEPT ![u] = @ + 1]
          ELSE tokenVersion' = tokenVersion
       /\ \/ Goto(r, "find")
          \/ req[r].op = "changePassword" /\ Leave(r)
    /\ UNCHANGED <<storeVars, status, access, ended>>

-----------------------------------------------------------------------------
(* The rest of the system: failed logins lock the account; a single        *)
(* sign-on login, or a failed login that writes back a stale status, makes *)
(* the user ACTIVE again; time passes; requests die.                       *)

LockAccount(u) ==
    /\ status' = [status EXCEPT ![u] = "LOCKED"]
    /\ UNCHANGED <<storeVars, tokenVersion, password, access, req, ended>>

Reactivate(u) ==
    /\ status' = [status EXCEPT ![u] = "ACTIVE"]
    /\ UNCHANGED <<storeVars, tokenVersion, password, access, req, ended>>

SessionExpires(s) ==
    /\ Expire(s)
    /\ UNCHANGED <<userVars, access, req, ended>>

Die(r) ==
    /\ ~At(r, "idle")
    /\ LeaveUnpromised(r)
    /\ UNCHANGED <<storeVars, userVars, access>>

-----------------------------------------------------------------------------
(* The next step of a request that is being handled. *)
Step(r) ==
    \/ \E s \in Session, t \in Token : OpenSession(r, s, t)
    \/ \E t \in Token : Rotate(r, t)
    \/ RefuseReuse(r)
    \/ LoadUser(r)
    \/ Sign(r)
    \/ CheckSession(r)
    \/ LookUpTarget(r)
    \/ BumpTokenVersion(r)
    \/ FindSessions(r)
    \/ Revoke(r)
    \/ SetPassword(r)

RequestArrives(r) ==
    \/ \E u \in User : Login(r, u) \/ ResetPassword(r, u)
    \/ \E t \in Token : PresentRefreshToken(r, t)
    \/ \E a \in access, op \in AuthenticatedOp, target \in Session :
          PresentAccessToken(r, a, op, target)

Environment ==
    \/ \E u \in User : LockAccount(u) \/ Reactivate(u)
    \/ \E s \in Session : SessionExpires(s)

Next ==
    \/ \E r \in Request : Step(r) \/ RequestArrives(r) \/ Die(r)
    \/ Environment

Spec == Init /\ [][Next]_vars

(* Without crashes. *)
CrashFreeNext ==
    \/ \E r \in Request : Step(r) \/ RequestArrives(r)
    \/ Environment

-----------------------------------------------------------------------------
(* What must hold. *)

(* JwtStrategy lets access token a through. *)
Valid(a) == PassesUserCheck(a) /\ Usable(a.session)

(* Once logout, logout-all, change-password or reset-password has answered *)
(* that a session is over, nothing it ever handed out gets anyone in: no   *)
(* refresh token of it rotates, not even one that a refresh running at the *)
(* same time issued after the revocation, and no access token of it        *)
(* passes JwtStrategy.                                                     *)
EndedSessionsGrantNothing ==
    \A s \in ended :
        /\ \A t \in TokensOf({s}) : ~MayRotate(t)
        /\ \A a \in access : a.session = s => ~Valid(a)

(* A session that is not revoked always has a refresh token that is not    *)
(* revoked: no order of rotations and revocations leaves a session listed  *)
(* as active that no client could ever continue.                           *)
LiveSessionHasLiveToken ==
    \A s \in Session :
        owner[s] # None /\ s \notin revoked
            => \E t \in TokensOf({s}) : t \notin spent

(* A revoked or outdated access token stays so, whatever is in flight when *)
(* it goes bad: tokenVersion is never ahead in a token and never falls     *)
(* back, and no revocation or expiry is undone.                            *)
Dead(a) == a.version # tokenVersion[a.user] \/ ~Usable(a.session)
DeadTokensStayDead == [][\A a \in access : Dead(a) => Dead(a)']_vars

(* The step that revokes a session takes with it every refresh token the   *)
(* session has at that moment, though the request found the session in an  *)
(* earlier step.                                                           *)
RevocationTakesTokens ==
    [][\A s \in revoked' \ revoked : TokensOf({s})' \subseteq spent']_vars

(* A session is only ever revoked by a request of its owner, never by a    *)
(* stranger who names its id, and change-password never revokes the        *)
(* session that called it.                                                 *)
OwnerRevokes ==
    [][\A s \in revoked' \ revoked : \E r \in Request :
          /\ req'[r] # req[r]
          /\ req[r].user = owner[s]
          /\ ~(req[r].op = "changePassword" /\ req[r].session = s)]_vars

(* Unless it dies, a request that set out to revoke all sessions gets      *)
(* every session it promised, though others come and go meanwhile.         *)
RevocationConcludes ==
    \A r \in Request, s \in Session :
        (At(r, "find") /\ s \in req[r].doomed) ~> (s \in revoked)

(* What it promised it carries along: a session it has set out to revoke   *)
(* is revoked, or among those that it is about to, until it dies.          *)
Promised(r, s) ==
    /\ s \in req[r].doomed
    /\ At(r, "find") \/ (At(r, "revoke") /\ s \in req[r].targets)

PromisesAreCarried ==
    [][\A r \in Request, s \in Session :
          Promised(r, s) => Promised(r, s)' \/ s \in revoked' \/ Die(r)]_vars

-----------------------------------------------------------------------------
(* The inductive invariant behind the safety properties.                   *)

(* A refresh token exists when it is spent, and its session exists.        *)
StoreInv ==
    /\ \A t \in spent : sessionOf[t] # None
    /\ \A t \in Token : sessionOf[t] # None => owner[sessionOf[t]] # None

(* What request r knows: whose session it acts in, and which token.        *)
KnowsItsSession(r) ==
    /\ ~At(r, "idle") => req[r].user \in User
    /\ req[r].pc \in {"session", "rotate", "reuse", "user", "sign"} =>
          req[r].session \in Session /\ owner[req[r].session] = req[r].user
    /\ At(r, "rotate") =>
          req[r].token \in Token /\ sessionOf[req[r].token] = req[r].session
    /\ req[r].pc \in {"create", "sign"} =>
          req[r].version <= tokenVersion[req[r].user]

(* Which operations reach which step.                                      *)
RunsItsOperation(r) ==
    /\ At(r, "create") => req[r].op = "login"
    /\ At(r, "session") => req[r].op \in AuthenticatedOp
    /\ At(r, "lookup") => req[r].op = "logout"
    /\ At(r, "bump") => req[r].op = "logoutAll"
    /\ At(r, "setPassword") => req[r].op \in {"changePassword", "resetPassword"}
    /\ At(r, "find") =>
          req[r].op \in {"logoutAll", "changePassword", "resetPassword"}

(* What request r is going to promise it has revoked or is about to.       *)
KeepsItsPromise(r) ==
    /\ ~At(r, "idle") => req[r].doomed \subseteq SessionsOf(req[r].user)
    /\ req[r].op = "logout" /\ req[r].pc \in {"session", "lookup"} =>
          req[r].doomed \subseteq req[r].targets
    /\ req[r].op = "changePassword" => req[r].session \notin req[r].doomed
    /\ At(r, "revoke") =>
          /\ req[r].targets \subseteq
                SessionsOf(req[r].user) \ Kept(req[r].op, req[r].session)
          /\ req[r].doomed \subseteq revoked \cup req[r].targets

AccessInv ==
    \A a \in access :
        owner[a.session] = a.user /\ a.version <= tokenVersion[a.user]

RequestOK(r) == KnowsItsSession(r) /\ RunsItsOperation(r) /\ KeepsItsPromise(r)

IInv ==
    /\ TypeOK
    /\ StoreInv
    /\ AccessInv
    /\ \A r \in Request : RequestOK(r)
    /\ ended \subseteq revoked
    /\ LiveSessionHasLiveToken

-----------------------------------------------------------------------------
(* Seen from outside, all of this is the plain life of a session.          *)
Lifecycle == INSTANCE SessionLifecycle
    WITH holder <- owner, over <- revoked \cup expired,
         current <- tokenVersion, granted <- access
ImplementsLifecycle == Lifecycle!Spec

-----------------------------------------------------------------------------
(* What the documentation says and the code does not do. *)

(* docs/auth.md, "Family + reuse detection": a spent refresh token that is *)
(* presented again kills the entire family.                                *)
ReuseKillsFamily ==
    [][\A r \in Request : RefuseReuse(r) => req[r].session \in revoked']_vars
=============================================================================
