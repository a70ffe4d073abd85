------------------------- MODULE AuthSessionsProofs -------------------------
(***************************************************************************)
(* Theorems about AuthSessions, for any number of users, sessions, tokens  *)
(* and concurrent requests.                                                *)
(***************************************************************************)
EXTENDS AuthSessions, TLAPS

-----------------------------------------------------------------------------
(* Steps only ever add: a row keeps its owner, a revocation stays, a       *)
(* version grows.                                                          *)

Grows ==
    /\ \A s \in Session : owner[s] # None => owner'[s] = owner[s]
    /\ \A t \in Token : sessionOf[t] # None => sessionOf'[t] = sessionOf[t]
    /\ \A u \in User : tokenVersion[u] <= tokenVersion'[u]
    /\ revoked \subseteq revoked'

(* A request that does not move stays OK while the tables grow. *)
LEMMA StillRequestOK ==
    ASSUME IInv, TypeOK', Grows, NEW q \in Request, req'[q] = req[q]
    PROVE  RequestOK(q)'
<1>1. RequestOK(q) /\ TypeOK
  BY DEF IInv
<1>2. KnowsItsSession(q)'
  BY <1>1, NoneAssumption
     DEF RequestOK, KnowsItsSession, At, Grows, TypeOK, StoreTypeOK, RequestState
<1>3. RunsItsOperation(q)'
  BY <1>1 DEF RequestOK, RunsItsOperation, At
<1>4. KeepsItsPromise(q)'
  <2>1. CASE At(q, "idle")
    BY <1>1, <2>1 DEF RequestOK, KeepsItsPromise, At, Kept
  <2>2. CASE ~At(q, "idle")
    <3>1. req[q].user \in User
      BY <1>1, <2>2 DEF RequestOK, KnowsItsSession
    <3>2. SessionsOf(req[q].user) \subseteq SessionsOf(req[q].user)'
      BY <3>1, NoneAssumption DEF SessionsOf, Grows
    <3> QED
      BY <1>1, <3>2 DEF RequestOK, KeepsItsPromise, At, Grows, Kept
  <2> QED BY <2>1, <2>2
<1> QED BY <1>2, <1>3, <1>4 DEF RequestOK

(* The tables and the tokens keep their invariants under a step that only  *)
(* moves a request and perhaps reports some revoked sessions ended.        *)
LEMMA RequestStep ==
    ASSUME IInv, NEW r \in Request,
           UNCHANGED <<storeVars, userVars, access>>,
           req'[r] \in RequestState,
           req' = [req EXCEPT ![r] = req'[r]],
           ended' \subseteq revoked,
           RequestOK(r)'
    PROVE  IInv'
<1> USE DEF storeVars, userVars
<1>1. TypeOK'
  BY DEF IInv, TypeOK, StoreTypeOK
<1>2. Grows
  BY DEF Grows, IInv, TypeOK
<1>3. ASSUME NEW q \in Request PROVE RequestOK(q)'
  <2>1. CASE q = r
    BY <2>1
  <2>2. CASE q # r
    <3>1. req'[q] = req[q]
      BY <2>2 DEF IInv, TypeOK
    <3> QED BY <1>1, <1>2, <3>1, StillRequestOK
  <2> QED BY <2>1, <2>2
<1>4. StoreInv' /\ AccessInv' /\ LiveSessionHasLiveToken'
  BY DEF IInv, StoreInv, AccessInv, LiveSessionHasLiveToken, TokensOf
<1> QED BY <1>1, <1>3, <1>4 DEF IInv

(* A request that has left is in its type. *)
LEMMA IdleOK == Idle \in RequestState
BY DEF Idle, RequestState, PC, Op

(* An idle request is OK whatever the tables hold. *)
LEMMA LeaveOK ==
    ASSUME IInv, NEW r \in Request, Leave(r)
    PROVE  /\ req'[r] \in RequestState
           /\ req' = [req EXCEPT ![r] = req'[r]]
           /\ RequestOK(r)'
<1>1. req'[r] = Idle
  BY DEF Leave, IInv, TypeOK
<1>2. RequestOK(r)'
  BY <1>1 DEF RequestOK, KnowsItsSession, RunsItsOperation, KeepsItsPromise, At, Idle
<1> QED BY <1>1, <1>2, IdleOK DEF Leave

-----------------------------------------------------------------------------
(* Requests arrive. *)

(* A login knows its user and a version that is not ahead. *)
LEMMA LoginInv ==
    ASSUME IInv, NEW r \in Request, NEW u \in User, Login(r, u)
    PROVE  IInv'
<1>1. req'[r] = [Idle EXCEPT !.pc = "create", !.op = "login", !.user = u,
                             !.version = tokenVersion[u]]
  BY DEF Login, SignedVersion, IInv, TypeOK
<1>2. req'[r] \in RequestState
  <2>1. tokenVersion[u] \in Nat
    BY DEF IInv, TypeOK
  <2>2. "login" \in Op /\ "create" \in PC
    BY DEF Op, PC
  <2> QED BY <1>1, <2>1, <2>2, IdleOK, ZenonT(60) DEF RequestState
<1>3. RequestOK(r)'
  <2>1. tokenVersion[u] \in Nat /\ tokenVersion' = tokenVersion
    BY DEF Login, userVars, IInv, TypeOK
  <2>2. KnowsItsSession(r)'
    BY <1>1, <2>1 DEF KnowsItsSession, At, Idle
  <2>3. RunsItsOperation(r)' /\ KeepsItsPromise(r)'
    BY <1>1 DEF RunsItsOperation, KeepsItsPromise, At, Idle
  <2> QED BY <2>2, <2>3 DEF RequestOK
<1>4. req' = [req EXCEPT ![r] = req'[r]]
  BY <1>1 DEF Login, SignedVersion
<1> QED BY <1>2, <1>3, <1>4, RequestStep DEF Login, IInv

(* A password reset dooms only sessions of its user. *)
LEMMA ResetPasswordInv ==
    ASSUME IInv, NEW r \in Request, NEW u \in User, ResetPassword(r, u)
    PROVE  IInv'
<1>1. req'[r] = [Idle EXCEPT !.pc = "setPassword", !.op = "resetPassword",
                             !.user = u, !.doomed = SessionsOf(u)]
  BY DEF ResetPassword, Doomed, IInv, TypeOK
<1>2. req'[r] \in RequestState
  <2>1. SessionsOf(u) \in SUBSET Session
    BY DEF SessionsOf
  <2>2. "resetPassword" \in Op /\ "setPassword" \in PC
    BY DEF Op, PC
  <2> QED BY <1>1, <2>1, <2>2, IdleOK, ZenonT(60) DEF RequestState
<1>3. RequestOK(r)'
  <2>1. SessionsOf(u)' = SessionsOf(u)
    BY DEF ResetPassword, storeVars, SessionsOf
  <2>2. KnowsItsSession(r)' /\ RunsItsOperation(r)'
    BY <1>1 DEF KnowsItsSession, RunsItsOperation, At, Idle
  <2>3. KeepsItsPromise(r)'
    BY <1>1, <2>1 DEF KeepsItsPromise, At, Idle
  <2> QED BY <2>2, <2>3 DEF RequestOK
<1>4. req' = [req EXCEPT ![r] = req'[r]]
  BY <1>1 DEF ResetPassword, Doomed
<1> QED BY <1>2, <1>3, <1>4, RequestStep DEF ResetPassword, IInv

(* A refresh learns the session and the owner of its token. *)
LEMMA PresentRefreshTokenInv ==
    ASSUME IInv, NEW r \in Request, NEW t \in Token, PresentRefreshToken(r, t)
    PROVE  IInv'
<1>1. PICK pc \in {"rotate", "reuse"} : ReadToken(r, t, pc)
  BY DEF PresentRefreshToken
<1>2. /\ sessionOf[t] \in Session
      /\ owner[sessionOf[t]] \in User
  BY NoneAssumption DEF PresentRefreshToken, IInv, TypeOK, StoreTypeOK, StoreInv
<1>3. req'[r] = [Idle EXCEPT !.pc = pc, !.op = "refresh", !.token = t,
                             !.user = owner[sessionOf[t]],
                             !.session = sessionOf[t]]
  BY <1>1 DEF ReadToken, IInv, TypeOK
<1>4. req'[r] \in RequestState
  <2>1. "refresh" \in Op /\ pc \in PC
    BY DEF Op, PC
  <2> QED BY <1>2, <1>3, <2>1, IdleOK, ZenonT(60) DEF RequestState
<1>5. RequestOK(r)'
  BY <1>2, <1>3 DEF RequestOK, KnowsItsSession, RunsItsOperation,
                    KeepsItsPromise, At, Idle, PresentRefreshToken, storeVars
<1>6. req' = [req EXCEPT ![r] = req'[r]]
  BY <1>1, <1>3 DEF ReadToken
<1> QED BY <1>4, <1>5, <1>6, RequestStep DEF PresentRefreshToken, IInv

(* An authenticated request learns its session from a token that was signed *)
(* for the session's owner, and dooms only sessions of that user.          *)
LEMMA PresentAccessTokenInv ==
    ASSUME IInv, NEW r \in Request, NEW a \in access, NEW op \in AuthenticatedOp,
           NEW target \in Session, PresentAccessToken(r, a, op, target)
    PROVE  IInv'
<1> DEFINE doomed == Doomed(op, a.user, a.session, target)
           targets == IF op = "logout" THEN {target} ELSE {}
<1>1. a \in AccessToken /\ owner[a.session] = a.user
  BY DEF IInv, TypeOK, AccessInv
<1>2. /\ doomed \subseteq SessionsOf(a.user)
      /\ op = "logout" => doomed \subseteq targets
      /\ op = "changePassword" => a.session \notin doomed
  BY DEF Doomed, AuthenticatedOp
<1>3. req'[r] = [Idle EXCEPT !.pc = "session", !.op = op, !.user = a.user,
                             !.session = a.session, !.targets = targets,
                             !.doomed = doomed]
  BY DEF PresentAccessToken, IInv, TypeOK
<1> HIDE DEF doomed
<1>4. req'[r] \in RequestState
  <2>1. doomed \in SUBSET Session /\ targets \in SUBSET Session
    BY <1>2 DEF SessionsOf
  <2>2. op \in Op /\ "session" \in PC /\ 0 \in Nat
    BY DEF Op, PC
  <2> HIDE DEF targets
  <2> QED BY <1>1, <1>3, <2>1, <2>2, IdleOK, ZenonT(60) DEF RequestState, AccessToken
<1>5. RequestOK(r)'
  <2>1. /\ SessionsOf(a.user)' = SessionsOf(a.user)
        /\ owner' = owner
    BY DEF PresentAccessToken, storeVars, SessionsOf
  <2>2. KnowsItsSession(r)' /\ RunsItsOperation(r)'
    BY <1>1, <1>3, <2>1 DEF KnowsItsSession, RunsItsOperation, At, Idle, AccessToken
  <2>3. KeepsItsPromise(r)'
    BY <1>2, <1>3, <2>1 DEF KeepsItsPromise, At, Idle
  <2> QED BY <2>2, <2>3 DEF RequestOK
<1>6. req' = [req EXCEPT ![r] = req'[r]]
  BY <1>3 DEF PresentAccessToken, doomed
<1> QED BY <1>4, <1>5, <1>6, RequestStep DEF PresentAccessToken, IInv

-----------------------------------------------------------------------------
(* Requests move on without writing to a table.                            *)

(* A request that leaves reports at most sessions that are revoked.        *)
LEMMA LeaveInv ==
    ASSUME IInv, NEW r \in Request, Leave(r),
           UNCHANGED <<storeVars, userVars, access>>,
           ended' \subseteq revoked
    PROVE  IInv'
BY LeaveOK, RequestStep

(* Leaving with no promise. *)
LEMMA LeaveUnpromisedInv ==
    ASSUME IInv, NEW r \in Request, LeaveUnpromised(r),
           UNCHANGED <<storeVars, userVars, access>>
    PROVE  IInv'
BY LeaveInv DEF LeaveUnpromised, IInv

(* The reuse branch writes nothing that stays. *)
LEMMA RefuseReuseInv ==
    ASSUME IInv, NEW r \in Request, RefuseReuse(r)
    PROVE  IInv'
BY LeaveUnpromisedInv DEF RefuseReuse, RevokeFamilyAndThrow

(* A request that dies writes nothing. *)
LEMMA DieInv ==
    ASSUME IInv, NEW r \in Request, Die(r)
    PROVE  IInv'
BY LeaveUnpromisedInv DEF Die

(* The session check starts the handler or ends the request. *)
LEMMA CheckSessionInv ==
    ASSUME IInv, NEW r \in Request, CheckSession(r)
    PROVE  IInv'
<1>1. CASE Leave(r)
  BY <1>1, LeaveUnpromisedInv DEF LeaveUnpromised, CheckSession
<1>2. CASE Goto(r, FirstStep(req[r].op))
  <2> DEFINE pc == FirstStep(req[r].op)
  <2>1. /\ req[r] \in RequestState
        /\ RequestOK(r)
        /\ At(r, "session")
    BY DEF IInv, TypeOK, CheckSession
  <2>2. \/ req[r].op = "logout" /\ pc = "lookup"
        \/ req[r].op = "logoutAll" /\ pc = "bump"
        \/ req[r].op = "changePassword" /\ pc = "setPassword"
        \/ req[r].op = "switchOrganization" /\ pc = "user"
    BY <2>1 DEF RequestOK, RunsItsOperation, AuthenticatedOp, FirstStep
  <2>3. req'[r] = [req[r] EXCEPT !.pc = pc]
    BY <1>2 DEF Goto, IInv, TypeOK
  <2> HIDE DEF pc
  <2>4. req'[r] \in RequestState
    BY <2>1, <2>2, <2>3 DEF RequestState, PC
  <2>5. owner' = owner /\ SessionsOf(req[r].user)' = SessionsOf(req'[r].user)
    BY <2>1, <2>3 DEF CheckSession, storeVars, SessionsOf, RequestState
  <2>6. KnowsItsSession(r)' /\ RunsItsOperation(r)'
    BY <2>1, <2>2, <2>3, <2>5
       DEF RequestOK, KnowsItsSession, RunsItsOperation, At, RequestState
  <2>7. KeepsItsPromise(r)'
    BY <2>1, <2>2, <2>3, <2>5
       DEF RequestOK, KeepsItsPromise, At, RequestState, SessionsOf
  <2>8. req' = [req EXCEPT ![r] = req'[r]]
    BY <1>2, <2>3 DEF Goto, pc
  <2> QED BY <2>4, <2>6, <2>7, <2>8, RequestStep
          DEF RequestOK, CheckSession, IInv
<1> QED BY <1>1, <1>2 DEF CheckSession

(* The user read again has the version the token will carry. *)
LEMMA LoadUserInv ==
    ASSUME IInv, NEW r \in Request, LoadUser(r)
    PROVE  IInv'
<1>1. CASE Leave(r)
  BY <1>1, LeaveUnpromisedInv DEF LeaveUnpromised, LoadUser
<1>2. CASE req' = [req EXCEPT ![r].pc = "sign",
                              ![r].version = SignedVersion(req[r].user)]
  <2>1. /\ req[r] \in RequestState
        /\ RequestOK(r)
        /\ At(r, "user")
    BY DEF IInv, TypeOK, LoadUser
  <2>2. /\ req[r].user \in User
        /\ tokenVersion[req[r].user] \in Nat
    BY <2>1 DEF RequestOK, KnowsItsSession, At, IInv, TypeOK
  <2>3. req'[r] = [req[r] EXCEPT !.pc = "sign",
                                 !.version = tokenVersion[req[r].user]]
    BY <1>2 DEF SignedVersion, IInv, TypeOK
  <2>4. req'[r] \in RequestState
    BY <2>1, <2>2, <2>3 DEF RequestState, PC
  <2>5. UNCHANGED <<owner, tokenVersion>>
    BY DEF LoadUser, storeVars, userVars
  <2>6. KnowsItsSession(r)' /\ RunsItsOperation(r)'
    BY <2>1, <2>2, <2>3, <2>5
       DEF RequestOK, KnowsItsSession, RunsItsOperation, At, RequestState
  <2>7. KeepsItsPromise(r)'
    BY <2>1, <2>3, <2>5
       DEF RequestOK, KeepsItsPromise, At, RequestState, SessionsOf
  <2>8. req' = [req EXCEPT ![r] = req'[r]]
    BY <1>2, <2>3 DEF SignedVersion, IInv, TypeOK, RequestState
  <2> QED BY <2>4, <2>6, <2>7, <2>8, RequestStep
          DEF RequestOK, LoadUser, IInv
<1> QED BY <1>1, <1>2 DEF LoadUser

(* The step from a read of sessions to the revocation of those found.      *)
LEMMA GoRevokeInv ==
    ASSUME IInv, NEW r \in Request, NEW found \in SUBSET Session,
           ~At(r, "idle"),
           GotoRevoke(r, found),
           UNCHANGED <<storeVars, userVars, access, ended>>,
           found \subseteq SessionsOf(req[r].user)
                             \ Kept(req[r].op, req[r].session),
           req[r].doomed \subseteq revoked \cup found
    PROVE  IInv'
<1>1. req[r] \in RequestState /\ RequestOK(r)
  BY DEF IInv, TypeOK
<1>2. req'[r] = [req[r] EXCEPT !.pc = "revoke", !.targets = found]
  BY DEF GotoRevoke, IInv, TypeOK
<1>3. req'[r] \in RequestState
  <2>1. "revoke" \in PC
    BY DEF PC
  <2> QED BY <1>1, <1>2, <2>1 DEF RequestState
<1>4. UNCHANGED <<owner, revoked, tokenVersion>>
  BY DEF storeVars, userVars
<1>a. /\ req'[r].pc = "revoke"
      /\ req'[r].targets = found
      /\ req'[r].user = req[r].user
      /\ req'[r].op = req[r].op
      /\ req'[r].session = req[r].session
      /\ req'[r].doomed = req[r].doomed
  BY <1>1, <1>2 DEF RequestState
<1>5. KnowsItsSession(r)' /\ RunsItsOperation(r)'
  BY <1>1, <1>a DEF RequestOK, KnowsItsSession, RunsItsOperation, At
<1>6. KeepsItsPromise(r)'
  <2>1. SessionsOf(req[r].user)' = SessionsOf(req[r].user)
    BY <1>4, <1>a DEF SessionsOf
  <2> QED BY <1>1, <1>4, <1>a, <2>1 DEF RequestOK, KeepsItsPromise, At, Kept
<1>7. req' = [req EXCEPT ![r] = req'[r]]
  BY <1>2 DEF GotoRevoke, IInv, TypeOK, RequestState
<1> QED BY <1>3, <1>5, <1>6, <1>7, RequestStep DEF RequestOK, IInv

(* A logout finds its session, or finds it revoked already. *)
LEMMA LookUpTargetInv ==
    ASSUME IInv, NEW r \in Request, LookUpTarget(r)
    PROVE  IInv'
<1>1. req[r] \in RequestState /\ RequestOK(r) /\ At(r, "lookup")
  BY DEF IInv, TypeOK, LookUpTarget
<1>2. req[r].op = "logout" /\ req[r].doomed \subseteq OwnTargets(r)
  BY <1>1 DEF RequestOK, RunsItsOperation, KeepsItsPromise, At, OwnTargets
<1>3. CASE LeaveUnpromised(r)
  BY <1>3, LeaveUnpromisedInv DEF LookUpTarget
<1>4. CASE OwnTargets(r) \subseteq revoked /\ LeaveWithSuccess(r)
  <2>1. ended' \subseteq revoked
    BY <1>2, <1>4 DEF LeaveWithSuccess, IInv
  <2> QED BY <1>4, <2>1, LeaveInv DEF LookUpTarget, LeaveWithSuccess
<1>5. CASE GotoRevoke(r, OwnTargets(r)) /\ UNCHANGED ended
  <2>1. OwnTargets(r) \in SUBSET Session
    BY DEF OwnTargets, SessionsOf
  <2>2. Kept(req[r].op, req[r].session) = {}
    BY <1>2 DEF Kept
  <2>3. OwnTargets(r) \subseteq SessionsOf(req[r].user)
    BY DEF OwnTargets
  <2>4. ~At(r, "idle")
    BY <1>1 DEF At
  <2> QED BY <1>2, <1>5, <2>1, <2>2, <2>3, <2>4, GoRevokeInv DEF LookUpTarget
<1> QED BY <1>3, <1>4, <1>5 DEF LookUpTarget

(* What the search does not return of the doomed sessions is revoked. *)
LEMMA FindSessionsInv ==
    ASSUME IInv, NEW r \in Request, FindSessions(r)
    PROVE  IInv'
<1> DEFINE found == (SessionsOf(req[r].user) \ revoked)
                        \ Kept(req[r].op, req[r].session)
<1>1. req[r] \in RequestState /\ RequestOK(r) /\ At(r, "find")
  BY DEF IInv, TypeOK, FindSessions
<1>2. req[r].doomed \subseteq revoked \cup found
  BY <1>1 DEF RequestOK, RunsItsOperation, KeepsItsPromise, At, Kept
<1>3. CASE found = {} /\ LeaveWithSuccess(r)
  <2>1. ended' \subseteq revoked
    BY <1>2, <1>3 DEF LeaveWithSuccess, IInv
  <2> QED BY <1>3, <2>1, LeaveInv DEF FindSessions, LeaveWithSuccess
<1>4. CASE GotoRevoke(r, found) /\ UNCHANGED ended
  <2>1. found \in SUBSET Session
    BY DEF SessionsOf
  <2>2. ~At(r, "idle")
    BY <1>1 DEF At
  <2>3. found \subseteq SessionsOf(req[r].user) \ Kept(req[r].op, req[r].session)
    OBVIOUS
  <2> HIDE DEF found
  <2> QED BY <1>2, <1>4, <2>1, <2>2, <2>3, GoRevokeInv DEF FindSessions
<1> QED BY <1>3, <1>4 DEF FindSessions

-----------------------------------------------------------------------------
(* Requests write to the tables.                                           *)

(* What is left to show of a step of r that writes, once it grows.         *)
LEMMA WriteStep ==
    ASSUME IInv, TypeOK', Grows, NEW r \in Request,
           req' = [req EXCEPT ![r] = req'[r]],
           RequestOK(r)', StoreInv', AccessInv', ended' \subseteq revoked',
           LiveSessionHasLiveToken'
    PROVE  IInv'
<1>1. ASSUME NEW q \in Request PROVE RequestOK(q)'
  <2>1. CASE q = r
    BY <2>1
  <2>2. CASE q # r
    <3>1. req'[q] = req[q]
      BY <2>2 DEF IInv, TypeOK
    <3> QED BY <3>1, StillRequestOK
  <2> QED BY <2>1, <2>2
<1> QED BY <1>1 DEF IInv

(* A new session has one token, and no promise was made about it. *)
LEMMA OpenSessionInv ==
    ASSUME IInv, NEW r \in Request, NEW s \in Session, NEW t \in Token,
           OpenSession(r, s, t)
    PROVE  IInv'
<1> DEFINE u == req[r].user
<1>1. /\ req[r] \in RequestState /\ RequestOK(r) /\ At(r, "create")
      /\ u \in User
  BY DEF IInv, TypeOK, OpenSession, RequestOK, KnowsItsSession, At
<1>2. /\ owner[s] = None /\ sessionOf[t] = None
      /\ owner' = [owner EXCEPT ![s] = u]
      /\ sessionOf' = [sessionOf EXCEPT ![t] = s]
      /\ UNCHANGED <<revoked, expired, spent, successor>>
      /\ UNCHANGED <<status, tokenVersion, password, access, ended>>
  BY DEF OpenSession, CreateSession, userVars
<1>3. req'[r] = [req[r] EXCEPT !.pc = "sign", !.session = s]
  BY DEF OpenSession, IInv, TypeOK
<1>4. TypeOK'
  <2>1. req'[r] \in RequestState
    BY <1>1, <1>3 DEF RequestState, PC
  <2>2. req' \in [Request -> RequestState]
    BY <1>3, <2>1 DEF OpenSession, IInv, TypeOK
  <2> QED BY <1>1, <1>2, <2>2 DEF IInv, TypeOK, StoreTypeOK
<1>5. Grows
  BY <1>2 DEF Grows, IInv, TypeOK, StoreTypeOK
<1>6. RequestOK(r)'
  <2>1. KnowsItsSession(r)' /\ RunsItsOperation(r)'
    BY <1>1, <1>2, <1>3
       DEF RequestOK, KnowsItsSession, RunsItsOperation, At, RequestState,
           IInv, TypeOK, StoreTypeOK
  <2>2. /\ req'[r].doomed = req[r].doomed /\ req'[r].user = u
        /\ req'[r].pc = "sign" /\ req'[r].op = req[r].op
    BY <1>1, <1>3 DEF RequestState
  <2>3. SessionsOf(u) \subseteq SessionsOf(u)'
    BY <1>1, <1>2, <2>2, NoneAssumption
       DEF SessionsOf, IInv, TypeOK, StoreTypeOK
  <2>4. req'[r].op # "changePassword"
    BY <1>1, <2>2 DEF RequestOK, RunsItsOperation, At
  <2>5. KeepsItsPromise(r)'
    BY <1>1, <2>3, <2>2, <2>4 DEF RequestOK, KeepsItsPromise, At
  <2> QED BY <2>1, <2>5 DEF RequestOK
<1>7. StoreInv'
  BY <1>1, <1>2, NoneAssumption DEF IInv, StoreInv, TypeOK, StoreTypeOK
<1>8. AccessInv'
  BY <1>2, NoneAssumption DEF IInv, AccessInv, TypeOK, AccessToken, StoreTypeOK
<1>9. LiveSessionHasLiveToken'
  <2> SUFFICES ASSUME NEW x \in Session, owner'[x] # None, x \notin revoked
               PROVE  \E y \in Token : sessionOf'[y] \in {x} /\ y \notin spent'
    BY <1>2 DEF LiveSessionHasLiveToken, TokensOf
  <2>1. CASE x = s
    BY <1>2, <2>1 DEF IInv, StoreInv, TypeOK, StoreTypeOK
  <2>2. CASE x # s
    <3>1. PICK y \in TokensOf({x}) : y \notin spent
      BY <1>2, <2>2 DEF IInv, LiveSessionHasLiveToken, TypeOK, StoreTypeOK
    <3>2. y \in Token /\ sessionOf[y] = x /\ y # t
      BY <1>2, <3>1, NoneAssumption DEF TokensOf
    <3> QED BY <1>2, <3>1, <3>2 DEF IInv, TypeOK, StoreTypeOK
  <2> QED BY <2>1, <2>2
<1>10. req' = [req EXCEPT ![r] = req'[r]] /\ ended' \subseteq revoked'
  BY <1>2, <1>3 DEF OpenSession, IInv, TypeOK, RequestState
<1> QED BY <1>4, <1>5, <1>6, <1>7, <1>8, <1>9, <1>10, WriteStep

(* The rotated session keeps a token, the new one, and a revoked session   *)
(* stays revoked although it gets one.                                     *)
LEMMA RotateInv ==
    ASSUME IInv, NEW r \in Request, NEW t \in Token, Rotate(r, t)
    PROVE  IInv'
<1> DEFINE old == req[r].token
           s == req[r].session
<1>1. /\ req[r] \in RequestState /\ RequestOK(r) /\ At(r, "rotate")
      /\ req[r].user \in User
      /\ s \in Session /\ owner[s] = req[r].user
      /\ old \in Token /\ sessionOf[old] = s
  BY DEF IInv, TypeOK, Rotate, RequestOK, KnowsItsSession, At
<1>2. /\ sessionOf[t] = None
      /\ sessionOf' = [sessionOf EXCEPT ![t] = s]
      /\ spent' = spent \cup {old}
      /\ successor' = [successor EXCEPT ![old] = t]
      /\ UNCHANGED <<owner, revoked, expired>>
      /\ UNCHANGED <<status, tokenVersion, password, access, ended>>
  BY <1>1 DEF Rotate, RotateRefreshToken, IssueInto, TouchSession, userVars
<1>3. req'[r] = [req[r] EXCEPT !.pc = "user"]
  BY DEF Rotate, Goto, IInv, TypeOK
<1>4. TypeOK'
  <2>1. req'[r] \in RequestState
    BY <1>1, <1>3 DEF RequestState, PC
  <2>2. req' \in [Request -> RequestState]
    BY <1>3, <2>1 DEF Rotate, Goto, IInv, TypeOK
  <2> QED BY <1>1, <1>2, <2>2 DEF IInv, TypeOK, StoreTypeOK
<1>5. Grows
  BY <1>1, <1>2 DEF Grows, IInv, TypeOK, StoreTypeOK
<1>6. RequestOK(r)'
  <2>1. KnowsItsSession(r)' /\ RunsItsOperation(r)'
    BY <1>1, <1>2, <1>3
       DEF RequestOK, KnowsItsSession, RunsItsOperation, At, RequestState
  <2>2. KeepsItsPromise(r)'
    BY <1>1, <1>2, <1>3
       DEF RequestOK, KeepsItsPromise, At, RequestState, SessionsOf
  <2> QED BY <2>1, <2>2 DEF RequestOK
<1>7. StoreInv'
  BY <1>1, <1>2, NoneAssumption DEF IInv, StoreInv, TypeOK, StoreTypeOK
<1>8. AccessInv'
  BY <1>2 DEF IInv, AccessInv
<1>9. LiveSessionHasLiveToken'
  <2> SUFFICES ASSUME NEW x \in Session, owner[x] # None, x \notin revoked
               PROVE  \E y \in Token : sessionOf'[y] \in {x} /\ y \notin spent'
    BY <1>2 DEF LiveSessionHasLiveToken, TokensOf
  <2>1. PICK y \in TokensOf({x}) : y \notin spent
    BY DEF IInv, LiveSessionHasLiveToken
  <2>2. y \in Token /\ sessionOf[y] = x /\ y # t
    BY <1>2, <2>1, NoneAssumption DEF TokensOf
  <2>3. CASE x = s
    <3>1. t \notin spent /\ t # old /\ sessionOf'[t] = x
      BY <1>1, <1>2, <2>3, NoneAssumption DEF IInv, StoreInv, TypeOK, StoreTypeOK
    <3> QED BY <1>2, <3>1
  <2>4. CASE x # s
    BY <1>1, <1>2, <2>1, <2>2, <2>4 DEF IInv, TypeOK, StoreTypeOK
  <2> QED BY <2>3, <2>4
<1>10. req' = [req EXCEPT ![r] = req'[r]] /\ ended' \subseteq revoked'
  BY <1>2, <1>3 DEF Rotate, Goto, IInv, TypeOK
<1> QED BY <1>4, <1>5, <1>6, <1>7, <1>8, <1>9, <1>10, WriteStep

(* The doomed sessions are revoked when the reply says so. *)
LEMMA RevokeInv ==
    ASSUME IInv, NEW r \in Request, Revoke(r)
    PROVE  IInv'
<1> DEFINE S == req[r].targets
<1>1. /\ req[r] \in RequestState /\ RequestOK(r) /\ At(r, "revoke")
      /\ S \subseteq Session
      /\ req[r].doomed \subseteq revoked \cup S
  BY DEF IInv, TypeOK, Revoke, RequestOK, KeepsItsPromise, At, RequestState
<1>2. /\ revoked' = revoked \cup S
      /\ spent' = spent \cup TokensOf(S)
      /\ UNCHANGED <<owner, expired, sessionOf, successor>>
      /\ UNCHANGED <<status, tokenVersion, password, access>>
      /\ ended' = ended \cup req[r].doomed
      /\ Leave(r)
  BY DEF Revoke, RevokeSessions, LeaveWithSuccess, userVars
<1>3. /\ req'[r] \in RequestState
      /\ req' = [req EXCEPT ![r] = req'[r]]
      /\ RequestOK(r)'
  BY <1>2, LeaveOK
<1>4. TypeOK'
  <2>1. req' \in [Request -> RequestState]
    BY <1>3 DEF IInv, TypeOK
  <2>2. spent' \subseteq Token /\ ended' \subseteq Session
    BY <1>1, <1>2 DEF IInv, TypeOK, StoreTypeOK, TokensOf
  <2> QED BY <1>1, <1>2, <2>1, <2>2 DEF IInv, TypeOK, StoreTypeOK
<1>5. Grows
  BY <1>2 DEF Grows, IInv, TypeOK
<1>6. StoreInv'
  BY <1>1, <1>2, NoneAssumption DEF IInv, StoreInv, TokensOf
<1>7. AccessInv'
  BY <1>2 DEF IInv, AccessInv
<1>8. ended' \subseteq revoked'
  BY <1>1, <1>2 DEF IInv
<1>9. LiveSessionHasLiveToken'
  <2> SUFFICES ASSUME NEW x \in Session, owner[x] # None, x \notin revoked'
               PROVE  \E y \in TokensOf({x}) : y \notin spent'
    BY <1>2 DEF LiveSessionHasLiveToken, TokensOf
  <2>1. PICK y \in TokensOf({x}) : y \notin spent
    BY <1>2 DEF IInv, LiveSessionHasLiveToken
  <2>2. y \notin TokensOf(S)
    BY <1>2, <2>1 DEF TokensOf
  <2> QED BY <1>2, <2>1, <2>2
<1> QED BY <1>3, <1>4, <1>5, <1>6, <1>7, <1>8, <1>9, WriteStep

(* The access token names the owner of its session and no later version. *)
LEMMA SignInv ==
    ASSUME IInv, NEW r \in Request, Sign(r)
    PROVE  IInv'
<1> DEFINE a == [user |-> req[r].user, session |-> req[r].session,
                 version |-> req[r].version]
<1>1. /\ req[r] \in RequestState /\ RequestOK(r) /\ At(r, "sign")
      /\ a \in AccessToken
      /\ owner[a.session] = a.user /\ a.version <= tokenVersion[a.user]
  BY DEF IInv, TypeOK, Sign, RequestOK, KnowsItsSession, At, RequestState, AccessToken
<1>2. /\ access' = access \cup {a}
      /\ Leave(r)
      /\ UNCHANGED <<storeVars, userVars, ended>>
  BY DEF Sign, LeaveUnpromised
<1> HIDE DEF a
<1> USE DEF storeVars, userVars
<1>3. /\ req'[r] \in RequestState
      /\ req' = [req EXCEPT ![r] = req'[r]]
      /\ RequestOK(r)'
  BY <1>2, LeaveOK
<1>4. TypeOK'
  BY <1>1, <1>2, <1>3 DEF IInv, TypeOK, StoreTypeOK
<1>5. Grows
  BY <1>2 DEF Grows, IInv, TypeOK
<1>6. AccessInv'
  BY <1>1, <1>2 DEF IInv, AccessInv
<1>7. StoreInv' /\ LiveSessionHasLiveToken' /\ ended' \subseteq revoked'
  BY <1>2 DEF IInv, StoreInv, LiveSessionHasLiveToken, TokensOf
<1> QED BY <1>3, <1>4, <1>5, <1>6, <1>7, WriteStep

(* A step that raises token versions and sets passwords, and leaves the    *)
(* rest of the tables alone.                                               *)
LEMMA UserStep ==
    ASSUME IInv, NEW r \in Request,
           tokenVersion' \in [User -> Nat], password' \in [User -> Nat],
           \A u \in User : tokenVersion[u] <= tokenVersion'[u],
           UNCHANGED <<storeVars, status, access, ended>>,
           req'[r] \in RequestState,
           req' = [req EXCEPT ![r] = req'[r]],
           RequestOK(r)'
    PROVE  IInv'
<1> USE DEF storeVars
<1>1. TypeOK'
  BY DEF IInv, TypeOK, StoreTypeOK
<1>2. Grows
  BY DEF Grows
<1>3. AccessInv'
  <2> SUFFICES ASSUME NEW a \in access
               PROVE  owner[a.session] = a.user /\ a.version <= tokenVersion'[a.user]
    BY DEF AccessInv
  <2>1. /\ owner[a.session] = a.user /\ a.version <= tokenVersion[a.user]
        /\ a.user \in User /\ a.version \in Nat
    BY DEF IInv, AccessInv, TypeOK, AccessToken
  <2>2. tokenVersion[a.user] \in Nat /\ tokenVersion'[a.user] \in Nat
    BY <2>1 DEF IInv, TypeOK
  <2> QED BY <2>1, <2>2
<1>4. StoreInv' /\ LiveSessionHasLiveToken' /\ ended' \subseteq revoked'
  BY DEF IInv, StoreInv, LiveSessionHasLiveToken, TokensOf
<1> QED BY <1>1, <1>2, <1>3, <1>4, WriteStep

(* A greater version leaves no token ahead of it. *)
LEMMA BumpTokenVersionInv ==
    ASSUME IInv, NEW r \in Request, BumpTokenVersion(r)
    PROVE  IInv'
<1> DEFINE u == req[r].user
<1>1. /\ req[r] \in RequestState /\ RequestOK(r) /\ At(r, "bump")
      /\ u \in User
  BY DEF IInv, TypeOK, BumpTokenVersion, RequestOK, KnowsItsSession, At
<1>2. tokenVersion' = [tokenVersion EXCEPT ![u] = tokenVersion[u] + 1]
  BY DEF BumpTokenVersion
<1>3. /\ tokenVersion' \in [User -> Nat]
      /\ \A x \in User : tokenVersion[x] <= tokenVersion'[x]
  BY <1>1, <1>2 DEF IInv, TypeOK
<1>4. req'[r] = [req[r] EXCEPT !.pc = "find"]
  BY DEF BumpTokenVersion, Goto, IInv, TypeOK
<1>5. req'[r] \in RequestState
  BY <1>1, <1>4 DEF RequestState, PC
<1>6. RequestOK(r)'
  <2>1. KnowsItsSession(r)' /\ RunsItsOperation(r)'
    BY <1>1, <1>4
       DEF RequestOK, KnowsItsSession, RunsItsOperation, At, RequestState
  <2>2. KeepsItsPromise(r)'
    BY <1>1, <1>4 DEF RequestOK, KeepsItsPromise, At, RequestState, SessionsOf,
                      BumpTokenVersion, storeVars
  <2> QED BY <2>1, <2>2 DEF RequestOK
<1>7. req' = [req EXCEPT ![r] = req'[r]]
  BY <1>4 DEF BumpTokenVersion, Goto
<1> QED BY <1>3, <1>5, <1>6, <1>7, UserStep DEF BumpTokenVersion, IInv, TypeOK

(* So does a reset; and a new password touches no session. *)
LEMMA SetPasswordInv ==
    ASSUME IInv, NEW r \in Request, SetPassword(r)
    PROVE  IInv'
<1> DEFINE u == req[r].user
<1>1. /\ req[r] \in RequestState /\ RequestOK(r) /\ At(r, "setPassword")
      /\ u \in User /\ password[u] \in Nat
  BY DEF IInv, TypeOK, SetPassword, RequestOK, KnowsItsSession, At
<1>2. password' \in [User -> Nat]
  BY <1>1 DEF SetPassword, IInv, TypeOK
<1>3. \/ tokenVersion' = [tokenVersion EXCEPT ![u] = tokenVersion[u] + 1]
      \/ tokenVersion' = tokenVersion
  BY DEF SetPassword
<1>4. /\ tokenVersion' \in [User -> Nat]
      /\ \A x \in User : tokenVersion[x] <= tokenVersion'[x]
  BY <1>1, <1>3 DEF IInv, TypeOK
<1>5. CASE Leave(r)
  BY <1>2, <1>4, <1>5, LeaveOK, UserStep DEF SetPassword
<1>6. CASE Goto(r, "find")
  <2>1. req'[r] = [req[r] EXCEPT !.pc = "find"]
    BY <1>6 DEF Goto, IInv, TypeOK
  <2>2. req'[r] \in RequestState
    <3>1. "find" \in PC
      BY DEF PC
    <3> QED BY <1>1, <2>1, <3>1 DEF RequestState
  <2>3. /\ req'[r].pc = "find" /\ req'[r].user = u
        /\ req'[r].op = req[r].op /\ req'[r].doomed = req[r].doomed
        /\ req'[r].session = req[r].session
    BY <1>1, <2>1 DEF RequestState
  <2>4. KnowsItsSession(r)' /\ RunsItsOperation(r)'
    BY <1>1, <2>3 DEF RequestOK, KnowsItsSession, RunsItsOperation, At
  <2>5. SessionsOf(u)' = SessionsOf(u)
    BY <2>3 DEF SessionsOf, SetPassword, storeVars
  <2>6. KeepsItsPromise(r)'
    BY <1>1, <2>3, <2>5 DEF RequestOK, KeepsItsPromise, At
  <2>7. req' = [req EXCEPT ![r] = req'[r]]
    BY <1>6, <2>1 DEF Goto
  <2> QED BY <1>2, <1>4, <2>2, <2>4, <2>6, <2>7, UserStep
          DEF SetPassword, RequestOK
<1> QED BY <1>5, <1>6 DEF SetPassword

-----------------------------------------------------------------------------
(* The rest of the system. *)

(* Locks, reactivations and age touch no row the invariant depends on. *)
LEMMA EnvironmentInv ==
    ASSUME IInv, Environment
    PROVE  IInv'
<1>1. /\ UNCHANGED <<owner, revoked, sessionOf, spent, successor>>
      /\ UNCHANGED <<tokenVersion, password, access, req, ended>>
      /\ status' \in [User -> {"ACTIVE", "LOCKED"}]
      /\ expired' \subseteq Session
  BY DEF Environment, LockAccount, Reactivate, SessionExpires, Expire,
         storeVars, userVars, IInv, TypeOK, StoreTypeOK
<1>2. TypeOK'
  BY <1>1 DEF IInv, TypeOK, StoreTypeOK
<1>3. Grows
  BY <1>1 DEF Grows, IInv, TypeOK
<1>4. ASSUME NEW q \in Request PROVE RequestOK(q)'
  BY <1>1, <1>2, <1>3, StillRequestOK
<1>5. /\ StoreInv' /\ AccessInv' /\ LiveSessionHasLiveToken'
      /\ ended' \subseteq revoked'
  BY <1>1 DEF IInv, StoreInv, AccessInv, LiveSessionHasLiveToken, TokensOf
<1> QED BY <1>2, <1>4, <1>5 DEF IInv

(* Nothing changes when nothing changes. *)
LEMMA StutterInv ==
    ASSUME IInv, UNCHANGED vars
    PROVE  IInv'
<1> USE DEF vars, storeVars, userVars
<1>1. TypeOK' /\ Grows
  BY DEF IInv, TypeOK, StoreTypeOK, Grows
<1>2. ASSUME NEW q \in Request PROVE RequestOK(q)'
  BY <1>1, StillRequestOK
<1>3. /\ StoreInv' /\ AccessInv' /\ LiveSessionHasLiveToken'
      /\ ended' \subseteq revoked'
  BY DEF IInv, StoreInv, AccessInv, LiveSessionHasLiveToken, TokensOf
<1> QED BY <1>1, <1>2, <1>3 DEF IInv

-----------------------------------------------------------------------------
(* The invariant holds. *)

(* The empty database is in order. *)
LEMMA InitInv == Init => IInv
<1> SUFFICES ASSUME Init PROVE IInv
  OBVIOUS
<1> USE DEF Init, StoreInit
<1>1. TypeOK
  BY IdleOK DEF TypeOK, StoreTypeOK
<1>2. ASSUME NEW r \in Request PROVE RequestOK(r)
  BY DEF RequestOK, KnowsItsSession, RunsItsOperation, KeepsItsPromise, At, Idle
<1>3. StoreInv /\ AccessInv /\ LiveSessionHasLiveToken /\ ended \subseteq revoked
  BY DEF StoreInv, AccessInv, LiveSessionHasLiveToken
<1> QED BY <1>1, <1>2, <1>3 DEF IInv

(* Every step preserves the invariant. *)
LEMMA NextInv == IInv /\ [Next]_vars => IInv'
<1> SUFFICES ASSUME IInv, [Next]_vars PROVE IInv'
  OBVIOUS
<1>1. ASSUME NEW r \in Request, Step(r) PROVE IInv'
  BY <1>1, OpenSessionInv, RotateInv, RefuseReuseInv, LoadUserInv, SignInv,
     CheckSessionInv, LookUpTargetInv, BumpTokenVersionInv, FindSessionsInv,
     RevokeInv, SetPasswordInv
     DEF Step
<1>2. ASSUME NEW r \in Request, RequestArrives(r) PROVE IInv'
  BY <1>2, LoginInv, ResetPasswordInv, PresentRefreshTokenInv,
     PresentAccessTokenInv
     DEF RequestArrives
<1> QED BY <1>1, <1>2, DieInv, EnvironmentInv, StutterInv DEF Next

(* All requests, however they interleave and wherever they die, keep the   *)
(* inductive invariant.                                                    *)
THEOREM Inductive == Spec => []IInv
BY InitInv, NextInv, PTL DEF Spec

(* Every variable keeps its type.                                          *)
THEOREM TypeCorrect == Spec => []TypeOK
<1>1. IInv => TypeOK
  BY DEF IInv
<1> QED BY <1>1, Inductive, PTL

(* revokeSession, logoutAll, changePassword and resetPassword mean what    *)
(* they answer: an ended session grants nothing any more.                  *)
THEOREM EndedSessionsAreUseless == Spec => []EndedSessionsGrantNothing
<1>1. IInv => EndedSessionsGrantNothing
  BY DEF IInv, EndedSessionsGrantNothing, TokensOf, MayRotate, Usable, Valid
<1> QED BY <1>1, Inductive, PTL

(* rotateRefreshToken and the revocations never leave a live session       *)
(* without a live refresh token.                                           *)
THEOREM LiveSessionsContinue == Spec => []LiveSessionHasLiveToken
<1>1. IInv => LiveSessionHasLiveToken
  BY DEF IInv
<1> QED BY <1>1, Inductive, PTL

-----------------------------------------------------------------------------
(* What a step may do: only Revoke touches revoked, and only forwards.     *)

(* A step other than Revoke leaves revoked alone; Revoke(r) revokes        *)
(* sessions of r's own user, with their tokens.                            *)
LEMMA RevokedChanges ==
    ASSUME IInv, [Next]_vars
    PROVE  \/ revoked' = revoked
           \/ \E r \in Request : Revoke(r)
<1>1. ASSUME NEW r \in Request, Step(r), ~Revoke(r) PROVE revoked' = revoked
  BY <1>1 DEF Step, OpenSession, CreateSession, Rotate, RotateRefreshToken,
              TouchSession, RefuseReuse, RevokeFamilyAndThrow, LoadUser, Sign,
              CheckSession, LookUpTarget, BumpTokenVersion, FindSessions,
              SetPassword, storeVars
<1>2. ASSUME NEW r \in Request, RequestArrives(r) PROVE revoked' = revoked
  BY <1>2 DEF RequestArrives, Login, ResetPassword, PresentRefreshToken,
              PresentAccessToken, storeVars
<1>3. ASSUME NEW r \in Request, Die(r) PROVE revoked' = revoked
  BY <1>3 DEF Die, storeVars
<1>4. ASSUME Environment PROVE revoked' = revoked
  BY <1>4 DEF Environment, LockAccount, Reactivate, SessionExpires, Expire, storeVars
<1>5. ASSUME UNCHANGED vars PROVE revoked' = revoked
  BY <1>5 DEF vars, storeVars
<1> QED BY <1>1, <1>2, <1>3, <1>4, <1>5 DEF Next

(* Revoke revokes what its request found, of its user, and their tokens. *)
LEMMA RevokeEffect ==
    ASSUME IInv, NEW r \in Request, Revoke(r)
    PROVE  /\ revoked' = revoked \cup req[r].targets
           /\ spent' = spent \cup TokensOf(req[r].targets)
           /\ UNCHANGED <<owner, expired, sessionOf, tokenVersion, access>>
           /\ req[r].user \in User
           /\ req[r].targets \subseteq
                 SessionsOf(req[r].user) \ Kept(req[r].op, req[r].session)
           /\ req'[r] # req[r]
<1>1. /\ RequestOK(r) /\ At(r, "revoke")
      /\ revoked' = revoked \cup req[r].targets
      /\ spent' = spent \cup TokensOf(req[r].targets)
      /\ UNCHANGED <<owner, expired, sessionOf, tokenVersion, access>>
  BY DEF IInv, Revoke, RevokeSessions, userVars
<1>2. /\ req[r].user \in User
      /\ req[r].targets \subseteq
            SessionsOf(req[r].user) \ Kept(req[r].op, req[r].session)
  BY <1>1 DEF RequestOK, KnowsItsSession, KeepsItsPromise, At
<1>3. req'[r] # req[r]
  <2>1. req'[r] = Idle
    BY DEF Revoke, LeaveWithSuccess, Leave, IInv, TypeOK
  <2> QED BY <1>1, <2>1 DEF At, Idle
<1> QED BY <1>1, <1>2, <1>3

(* The transaction of revokeSession and of revokeAllSessionsForUser takes  *)
(* every token its sessions have at the commit.                            *)
THEOREM RevocationIsComplete == Spec => RevocationTakesTokens
<1>1. IInv /\ [Next]_vars =>
         [\A s \in revoked' \ revoked : TokensOf({s})' \subseteq spent']_vars
  <2> SUFFICES ASSUME IInv, [Next]_vars, NEW s \in revoked' \ revoked
               PROVE  TokensOf({s})' \subseteq spent'
    OBVIOUS
  <2>1. PICK r \in Request : Revoke(r)
    BY RevokedChanges
  <2> QED BY <2>1, RevokeEffect DEF TokensOf
<1> QED BY <1>1, Inductive, PTL DEF Spec, RevocationTakesTokens

(* A session that a request has promised to revoke stays promised while    *)
(* others act, and the request itself finds it or revokes it.              *)
LEMMA PromiseStep ==
    ASSUME IInv, [Next]_vars, NEW r \in Request, NEW s \in Session, Promised(r, s), ~Die(r)
    PROVE  Promised(r, s)' \/ s \in revoked'
<1>1. CASE req'[r] = req[r]
  BY <1>1 DEF Promised, At
<1>2. CASE FindSessions(r)
  <2> DEFINE found == (SessionsOf(req[r].user) \ revoked) \ Kept(req[r].op, req[r].session)
  <2>1. /\ At(r, "find") /\ s \in req[r].doomed /\ UNCHANGED storeVars
        /\ found = {} \/ GotoRevoke(r, found)
    BY <1>2 DEF FindSessions, Promised, At
  <2>2. s \in revoked \/ s \in found
    BY <2>1 DEF IInv, RequestOK, KeepsItsPromise, At, Kept
  <2>3. CASE GotoRevoke(r, found)
    <3>1. /\ req'[r].pc = "revoke" /\ req'[r].targets = found
          /\ req'[r].doomed = req[r].doomed
      BY <2>3 DEF GotoRevoke, IInv, TypeOK, RequestState
    <3> QED BY <2>1, <2>2, <3>1 DEF Promised, At, storeVars
  <2> QED BY <2>1, <2>2, <2>3 DEF storeVars
<1>3. CASE Revoke(r)
  BY <1>3, RevokeEffect DEF Promised, At, Revoke
<1>4. ASSUME NEW q \in Request, Step(q) \/ RequestArrives(q) \/ Die(q), q # r
      PROVE  req'[r] = req[r]
  BY <1>4, ZenonT(60) DEF Step, OpenSession, Rotate, RefuseReuse, LoadUser, Sign, CheckSession,
              LookUpTarget, BumpTokenVersion, FindSessions, Revoke, SetPassword,
              RequestArrives, Login, ResetPassword, PresentRefreshToken, ReadToken,
              PresentAccessToken, Die, LeaveUnpromised, LeaveWithSuccess, Leave, Goto,
              GotoRevoke, IInv, TypeOK
<1>5. ASSUME Step(r) PROVE FindSessions(r) \/ Revoke(r)
  BY <1>5 DEF Promised, At, Step, OpenSession, Rotate, RefuseReuse, LoadUser, Sign,
              CheckSession, LookUpTarget, BumpTokenVersion, SetPassword
<1>6. ~RequestArrives(r)
  BY DEF Promised, At, RequestArrives, Login, ResetPassword, PresentRefreshToken,
         PresentAccessToken
<1>7. CASE Environment \/ UNCHANGED vars
  BY <1>1, <1>7 DEF Environment, LockAccount, Reactivate, SessionExpires, vars
<1> QED BY <1>1, <1>2, <1>3, <1>4, <1>5, <1>6, <1>7 DEF Next

(* revokeAllSessionsForUser forgets no session between its findMany and    *)
(* its transaction, whoever logs in, rotates or revokes meanwhile: the     *)
(* safety that RevocationConcludes needs besides fairness.                 *)
THEOREM PromisesAreKept == Spec => PromisesAreCarried
<1>1. IInv /\ [Next]_vars =>
         [\A r \in Request, s \in Session :
             Promised(r, s) => Promised(r, s)' \/ s \in revoked' \/ Die(r)]_vars
  BY PromiseStep
<1> QED BY <1>1, Inductive, PTL DEF Spec, PromisesAreCarried

(* revokeSession's userId filter and exceptSessionId hold through every    *)
(* interleaving.                                                           *)
THEOREM OnlyTheOwnerRevokes == Spec => OwnerRevokes
<1>1. IInv /\ [Next]_vars =>
         [\A s \in revoked' \ revoked : \E r \in Request :
             /\ req'[r] # req[r]
             /\ req[r].user = owner[s]
             /\ ~(req[r].op = "changePassword" /\ req[r].session = s)]_vars
  <2> SUFFICES ASSUME IInv, [Next]_vars, NEW s \in revoked' \ revoked
               PROVE  \E r \in Request :
                         /\ req'[r] # req[r]
                         /\ req[r].user = owner[s]
                         /\ ~(req[r].op = "changePassword" /\ req[r].session = s)
    OBVIOUS
  <2>1. PICK r \in Request : Revoke(r)
    BY RevokedChanges
  <2> QED BY <2>1, RevokeEffect DEF SessionsOf, Kept
<1> QED BY <1>1, Inductive, PTL DEF Spec, OwnerRevokes

-----------------------------------------------------------------------------
(* The requests implement the plain life of a session.                     *)

(* The empty database shows no session. *)
LEMMA LifecycleInit == Init => Lifecycle!Init
BY DEF Init, StoreInit, Lifecycle!Init

(* Steps that change nothing an outsider sees. *)
LEMMA QuietStep ==
    ASSUME UNCHANGED <<owner, revoked, expired, tokenVersion, access>>
    PROVE  UNCHANGED Lifecycle!vars
BY DEF Lifecycle!vars

(* Every step is a step in the life of the sessions, or none. *)
LEMMA LifecycleNext ==
    ASSUME IInv, [Next]_vars
    PROVE  [Lifecycle!Next]_(Lifecycle!vars)
<1> USE DEF storeVars, userVars
<1>1. ASSUME NEW r \in Request, NEW s \in Session, NEW t \in Token, OpenSession(r, s, t)
      PROVE  Lifecycle!Open(req[r].user, s) /\ req[r].user \in User
  BY <1>1 DEF OpenSession, CreateSession, Lifecycle!Open, IInv, RequestOK,
              KnowsItsSession, At
<1>2. ASSUME NEW r \in Request, Revoke(r)
      PROVE  \E u \in User, S \in SUBSET Session : Lifecycle!End(u, S)
  <2>1. req[r].targets \in SUBSET Session
    BY DEF IInv, TypeOK, RequestState
  <2>2. Lifecycle!End(req[r].user, req[r].targets)
    BY <1>2, RevokeEffect DEF Lifecycle!End, SessionsOf
  <2>3. req[r].user \in User
    BY <1>2, RevokeEffect
  <2> QED BY <2>1, <2>2, <2>3
<1>3. ASSUME NEW s \in Session, SessionExpires(s)
      PROVE  Lifecycle!Age(s)
  BY <1>3 DEF SessionExpires, Expire, Lifecycle!Age
<1>4. ASSUME NEW r \in Request, BumpTokenVersion(r)
      PROVE  Lifecycle!Outdate(req[r].user) /\ req[r].user \in User
  BY <1>4 DEF BumpTokenVersion, Lifecycle!Outdate, IInv, RequestOK,
              KnowsItsSession, At
<1>5. ASSUME NEW r \in Request, SetPassword(r)
      PROVE  \/ Lifecycle!Outdate(req[r].user) /\ req[r].user \in User
             \/ UNCHANGED Lifecycle!vars
  BY <1>5 DEF SetPassword, Lifecycle!Outdate, Lifecycle!vars, IInv, RequestOK,
              KnowsItsSession, At
<1>6. ASSUME NEW r \in Request, Sign(r)
      PROVE  \E u \in User, s \in Session : \E v \in 0 .. tokenVersion[u] :
                Lifecycle!Grant(u, s, v)
  <2>1. /\ req[r].user \in User /\ req[r].session \in Session
        /\ owner[req[r].session] = req[r].user
        /\ req[r].version <= tokenVersion[req[r].user]
    BY <1>6 DEF Sign, IInv, RequestOK, KnowsItsSession, At
  <2>2. req[r].version \in 0 .. tokenVersion[req[r].user]
    BY <2>1 DEF IInv, TypeOK, RequestState
  <2>3. Lifecycle!Grant(req[r].user, req[r].session, req[r].version)
    BY <1>6, <2>1 DEF Sign, Lifecycle!Grant
  <2> QED BY <2>1, <2>2, <2>3
<1>7. ASSUME NEW r \in Request, Step(r),
             ~Sign(r), ~SetPassword(r), ~BumpTokenVersion(r), ~Revoke(r),
             ~(\E s \in Session, t \in Token : OpenSession(r, s, t))
      PROVE  UNCHANGED Lifecycle!vars
  BY <1>7, QuietStep
     DEF Step, Rotate, RotateRefreshToken, TouchSession, RefuseReuse,
         RevokeFamilyAndThrow, LoadUser, CheckSession, LookUpTarget, FindSessions
<1>8. ASSUME NEW r \in Request, RequestArrives(r) \/ Die(r)
      PROVE  UNCHANGED Lifecycle!vars
  BY <1>8, QuietStep DEF RequestArrives, Login, ResetPassword,
         PresentRefreshToken, PresentAccessToken, Die
<1>9. ASSUME NEW u \in User, LockAccount(u) \/ Reactivate(u)
      PROVE  UNCHANGED Lifecycle!vars
  BY <1>9, QuietStep DEF LockAccount, Reactivate
<1>10. ASSUME UNCHANGED vars PROVE UNCHANGED Lifecycle!vars
  BY <1>10, QuietStep DEF vars
<1>11. ASSUME NEW r \in Request, Step(r)
       PROVE  Lifecycle!Next \/ UNCHANGED Lifecycle!vars
  BY <1>1, <1>2, <1>4, <1>5, <1>6, <1>7, <1>11 DEF Lifecycle!Next
<1>12. ASSUME Environment
       PROVE  Lifecycle!Next \/ UNCHANGED Lifecycle!vars
  BY <1>3, <1>9, <1>12 DEF Environment, Lifecycle!Next
<1> QED BY <1>8, <1>10, <1>11, <1>12 DEF Next

(* AuthService, SessionService and JwtStrategy together, seen from         *)
(* outside, open, end, age, outdate and grant, and nothing else.           *)
THEOREM Implementation == Spec => ImplementsLifecycle
<1>1. IInv /\ [Next]_vars => [Lifecycle!Next]_(Lifecycle!vars)
  BY LifecycleNext
<1> QED BY <1>1, LifecycleInit, Inductive, PTL
        DEF Spec, ImplementsLifecycle, Lifecycle!Spec

(* tokenVersion, revokedAt and expiresAt only ever take access away.       *)
THEOREM DeadTokensAreDead == Spec => DeadTokensStayDead
<1>1. IInv /\ [Next]_vars => [\A a \in access : Dead(a) => Dead(a)']_vars
  <2> SUFFICES ASSUME IInv, [Next]_vars, NEW a \in access, Dead(a)
               PROVE  Dead(a)'
    OBVIOUS
  <2>1. [Lifecycle!Next]_(Lifecycle!vars)
    BY LifecycleNext
  <2>2. /\ revoked \cup expired \subseteq (revoked \cup expired)'
        /\ \A u \in User : tokenVersion'[u] \in {tokenVersion[u], tokenVersion[u] + 1}
    BY <2>1 DEF Lifecycle!Next, Lifecycle!vars, Lifecycle!Open, Lifecycle!End,
                Lifecycle!Age, Lifecycle!Outdate, Lifecycle!Grant, IInv, TypeOK
  <2>3. /\ a.user \in User /\ a.version \in Nat
        /\ a.version <= tokenVersion[a.user] /\ tokenVersion[a.user] \in Nat
    BY DEF IInv, TypeOK, AccessToken, AccessInv
  <2>4. CASE a.version # tokenVersion[a.user]
    BY <2>2, <2>3, <2>4 DEF Dead
  <2>5. CASE ~Usable(a.session)
    BY <2>2, <2>5 DEF Dead, Usable
  <2> QED BY <2>4, <2>5 DEF Dead
<1> QED BY <1>1, Inductive, PTL DEF Spec, DeadTokensStayDead

=============================================================================
