------------------------------ MODULE MfaLogin ------------------------------
(***************************************************************************)
(* The second factor: MfaLoginService, MfaChallengeService and MfaService  *)
(* on the tables mfa_secrets, backup_codes and mfa_challenges.             *)
(*                                                                         *)
(* A password login of a user with MFA ends in a challenge; a request that *)
(* verifies it checks the challenge, then the code, records the attempt    *)
(* and opens the session, in that many separate database calls.  Set-up,   *)
(* removal and the renewal of backup codes run alongside.                  *)
(*                                                                         *)
(* A TOTP code stands for the secret it is computed from.  Of the codes    *)
(* generated together one is followed, since they are interchangeable.     *)
(* Passwords are right; users are active (see LoginLockout).               *)
(***************************************************************************)
EXTENDS Naturals, FiniteSets

CONSTANTS
    User,
    Challenge,      \* ids a row of mfa_challenges can get
    Secret,         \* TOTP secrets that can be generated
    BackupCode,     \* backup codes that can be generated
    Request,        \* requests that can be in flight at once
    None,
    MaxAttempts     \* MAX_CHALLENGE_ATTEMPTS

Factor == Secret \cup BackupCode

ASSUME MfaAssumption ==
    /\ IsFiniteSet(Request) /\ Request # {}
    /\ None \notin User \cup Challenge \cup Factor
    /\ Secret \cap BackupCode = {}
    /\ MaxAttempts \in Nat \ {0}

VARIABLES
    secret,         \* secret[u], None without a row of mfa_secrets
    enabled,        \* the users whose isEnabled is set
    codeOwner,      \* codeOwner[b], None while b has no row
    used,           \* the backup codes whose usedAt is set
    challenged,     \* challenged[c] is the userId of challenge c, or None
    attempts,       \* attempts[c]
    closed,         \* the challenges consumed (consumedAt) or expired
    req,            \* req[r], what request r has read and where it stands
    issuedTo,       \* ghost: the user each factor was generated for, or None
    challengeLogins,    \* ghost: sessions opened through challenge c
    codeLogins          \* ghost: sessions opened with backup code b

factorVars == <<secret, enabled, codeOwner, issuedTo>>
challengeVars == <<challenged, attempts, closed>>
loginVars == <<challengeLogins, codeLogins>>
vars == <<factorVars, used, challengeVars, req, loginVars>>

PC == {"idle", "issue", "verify", "use", "reject", "accept", "open",
       "saveSecret", "enrol", "enrolCodes", "enable", "renew", "renewCodes",
       "remove", "removeAll"}

(* found: the rows that the deletion of backup codes in a transaction sees. *)
Idle == [pc |-> "idle", user |-> None, challenge |-> None, factor |-> None,
         found |-> {}]

RequestState == [pc : PC, user : User \cup {None},
                 challenge : Challenge \cup {None}, factor : Factor \cup {None},
                 found : SUBSET BackupCode]

TypeOK ==
    /\ secret \in [User -> Secret \cup {None}]
    /\ enabled \subseteq User
    /\ codeOwner \in [BackupCode -> User \cup {None}]
    /\ used \subseteq BackupCode
    /\ challenged \in [Challenge -> User \cup {None}]
    /\ attempts \in [Challenge -> Nat]
    /\ closed \subseteq Challenge
    /\ req \in [Request -> RequestState]
    /\ issuedTo \in [Factor -> User \cup {None}]
    /\ challengeLogins \in [Challenge -> Nat]
    /\ codeLogins \in [BackupCode -> Nat]

Init ==
    /\ secret = [u \in User |-> None]
    /\ enabled = {}
    /\ codeOwner = [b \in BackupCode |-> None]
    /\ used = {}
    /\ challenged = [c \in Challenge |-> None]
    /\ attempts = [c \in Challenge |-> 0]
    /\ closed = {}
    /\ req = [r \in Request |-> Idle]
    /\ issuedTo = [f \in Factor |-> None]
    /\ challengeLogins = [c \in Challenge |-> 0]
    /\ codeLogins = [b \in BackupCode |-> 0]

At(r, pc) == req[r].pc = pc
Goto(r, pc) == req' = [req EXCEPT ![r].pc = pc]
Leave(r) == req' = [req EXCEPT ![r] = Idle]
Arrive(r, pc, u) ==
    /\ At(r, "idle")
    /\ req' = [req EXCEPT ![r] = [Idle EXCEPT !.pc = pc, !.user = u]]

-----------------------------------------------------------------------------
(* Mutants.  The challenge does not look at its attempts, or at whether it *)
(* has been consumed; a backup code is accepted from anybody, or when it   *)
(* has been used; set-up starts over a factor in use.                      *)

ChallengeOpen_AnyAttempts(c) == challenged[c] # None /\ c \notin closed
ChallengeOpen_Consumed(c) == challenged[c] # None /\ attempts[c] < MaxAttempts
AcceptsCode_OfAnyone(u, b) == codeOwner[b] # None /\ b \notin used
AcceptsCode_Used(u, b) == codeOwner[b] = u
MaySetUp_Always(u) == TRUE

-----------------------------------------------------------------------------
(* The challenge: the hook of a password login, or reissueChallenge. *)

RequireSecondFactor(r, u) ==
    /\ u \in enabled
    /\ Arrive(r, "issue", u)
    /\ UNCHANGED <<factorVars, used, challengeVars, loginVars>>

IssueChallenge(r, c) ==
    /\ At(r, "issue")
    /\ challenged[c] = None
    /\ challenged' = [challenged EXCEPT ![c] = req[r].user]
    /\ Leave(r)
    /\ UNCHANGED <<factorVars, used, attempts, closed, loginVars>>

ChallengeExpires(c) ==
    /\ challenged[c] # None
    /\ c \notin closed
    /\ closed' = closed \cup {c}
    /\ UNCHANGED <<factorVars, used, challenged, attempts, req, loginVars>>

-----------------------------------------------------------------------------
(* verifyAndCompleteLogin. *)

(* The checks of consume, which consumes nothing. *)
ChallengeOpen(c) ==
    /\ challenged[c] # None
    /\ c \notin closed
    /\ attempts[c] < MaxAttempts

ReadChallenge(r, c) ==
    /\ At(r, "idle")
    /\ ChallengeOpen(c)
    /\ req' = [req EXCEPT ![r] = [Idle EXCEPT !.pc = "verify",
                 !.user = challenged[c], !.challenge = c]]
    /\ UNCHANGED <<factorVars, used, challengeVars, loginVars>>

Present(r, f) == req' = [req EXCEPT ![r].pc = "use", ![r].factor = f]

(* A code computed from secret x, which may be anybody's. *)
CheckTotp(r, x) ==
    /\ At(r, "verify")
    /\ issuedTo[x] # None
    /\ \/ /\ req[r].user \in enabled /\ secret[req[r].user] = x
          /\ Present(r, x)
       \/ /\ ~(req[r].user \in enabled /\ secret[req[r].user] = x)
          /\ Goto(r, "reject")
    /\ UNCHANGED <<factorVars, used, challengeVars, loginVars>>

AcceptsCode(u, b) == codeOwner[b] = u /\ b \notin used

CheckBackupCode(r, b) ==
    /\ At(r, "verify")
    /\ issuedTo[b] # None
    /\ \/ AcceptsCode(req[r].user, b) /\ Present(r, b)
       \/ ~AcceptsCode(req[r].user, b) /\ Goto(r, "reject")
    /\ UNCHANGED <<factorVars, used, challengeVars, loginVars>>

(* The row whose lastUsedAt or usedAt is stamped: the user's secret,       *)
(* whichever it is by now, or the backup code.                             *)
RowExists(r) ==
    \/ req[r].factor \in Secret /\ secret[req[r].user] # None
    \/ req[r].factor \in BackupCode /\ codeOwner[req[r].factor] # None

(* The update fails when the row has been deleted meanwhile. *)
UseFactor(r) ==
    /\ At(r, "use")
    /\ \/ /\ RowExists(r)
          /\ used' = used \cup ({req[r].factor} \cap BackupCode)
          /\ Goto(r, "accept")
       \/ /\ ~RowExists(r)
          /\ Leave(r)
          /\ UNCHANGED used
    /\ UNCHANGED <<factorVars, challengeVars, loginVars>>

CountAttempt(c) == attempts' = [attempts EXCEPT ![c] = @ + 1]

RecordFailure(r) ==
    /\ At(r, "reject")
    /\ CountAttempt(req[r].challenge)
    /\ Leave(r)
    /\ UNCHANGED <<factorVars, used, challenged, closed, loginVars>>

RecordSuccess(r) ==
    /\ At(r, "accept")
    /\ CountAttempt(req[r].challenge)
    /\ closed' = closed \cup {req[r].challenge}
    /\ Goto(r, "open")
    /\ UNCHANGED <<factorVars, used, challenged, loginVars>>

OpenSession(r) ==
    /\ At(r, "open")
    /\ challengeLogins' = [challengeLogins EXCEPT ![req[r].challenge] = @ + 1]
    /\ codeLogins' = [b \in BackupCode |->
                        codeLogins[b] + IF b = req[r].factor THEN 1 ELSE 0]
    /\ Leave(r)
    /\ UNCHANGED <<factorVars, used, challengeVars>>

-----------------------------------------------------------------------------
(* Enrolment. *)

MaySetUp(u) == u \notin enabled

Setup(r, u) ==
    /\ MaySetUp(u)
    /\ Arrive(r, "saveSecret", u)
    /\ UNCHANGED <<factorVars, used, challengeVars, loginVars>>

(* The upsert does not look at isEnabled again. *)
SaveSecret(r, x) ==
    /\ At(r, "saveSecret")
    /\ issuedTo[x] = None
    /\ issuedTo' = [issuedTo EXCEPT ![x] = req[r].user]
    /\ secret' = [secret EXCEPT ![req[r].user] = x]
    /\ enabled' = enabled \ {req[r].user}
    /\ Leave(r)
    /\ UNCHANGED <<codeOwner, used, challengeVars, loginVars>>

(* The code is right for the secret read here. *)
VerifySetup(r, u) ==
    /\ secret[u] # None
    /\ u \notin enabled
    /\ Arrive(r, "enrol", u)
    /\ UNCHANGED <<factorVars, used, challengeVars, loginVars>>

(* The deletion in a transaction sees the rows of its moment: the codes of *)
(* a transaction that commits before this one does are not among them.     *)
FindBackupCodes(r, from, to) ==
    /\ At(r, from)
    /\ req' = [req EXCEPT ![r].pc = to,
                 ![r].found = {b \in BackupCode : codeOwner[b] = req[r].user}]
    /\ UNCHANGED <<factorVars, used, challengeVars, loginVars>>

CodesWithout(found) ==
    [b \in BackupCode |-> IF b \in found THEN None ELSE codeOwner[b]]

ReplaceBackupCodes(r, b) ==
    /\ issuedTo[b] = None
    /\ issuedTo' = [issuedTo EXCEPT ![b] = req[r].user]
    /\ codeOwner' = [CodesWithout(req[r].found) EXCEPT ![b] = req[r].user]
    /\ \/ /\ At(r, "enrolCodes")
          /\ req' = [req EXCEPT ![r].pc = "enable", ![r].found = {}]
       \/ At(r, "renewCodes") /\ Leave(r)
    /\ UNCHANGED <<secret, enabled, used, challengeVars, loginVars>>

(* The update fails when the secret has been deleted meanwhile. *)
Enable(r) ==
    /\ At(r, "enable")
    /\ \/ secret[req[r].user] # None /\ enabled' = enabled \cup {req[r].user}
       \/ secret[req[r].user] = None /\ UNCHANGED enabled
    /\ Leave(r)
    /\ UNCHANGED <<secret, codeOwner, issuedTo, used, challengeVars, loginVars>>

RegenerateBackupCodes(r, u) ==
    /\ u \in enabled
    /\ Arrive(r, "renew", u)
    /\ UNCHANGED <<factorVars, used, challengeVars, loginVars>>

(* The password and the TOTP code were right. *)
Disable(r, u) ==
    /\ u \in enabled
    /\ Arrive(r, "remove", u)
    /\ UNCHANGED <<factorVars, used, challengeVars, loginVars>>

(* Nothing is deleted when the secret is gone: the transaction fails. *)
RemoveFactors(r) ==
    /\ At(r, "removeAll")
    /\ LET u == req[r].user IN
       \/ /\ secret[u] # None
          /\ secret' = [secret EXCEPT ![u] = None]
          /\ enabled' = enabled \ {u}
          /\ codeOwner' = CodesWithout(req[r].found)
       \/ secret[u] = None /\ UNCHANGED <<secret, enabled, codeOwner>>
    /\ Leave(r)
    /\ UNCHANGED <<issuedTo, used, challengeVars, loginVars>>

(* A crash, a timeout or a user who is no longer active. *)
Die(r) ==
    /\ ~At(r, "idle")
    /\ Leave(r)
    /\ UNCHANGED <<factorVars, used, challengeVars, loginVars>>

-----------------------------------------------------------------------------
VerifyStep(r) ==
    \/ \E x \in Secret : CheckTotp(r, x)
    \/ \E b \in BackupCode : CheckBackupCode(r, b)
    \/ UseFactor(r)
    \/ RecordFailure(r)
    \/ RecordSuccess(r)
    \/ OpenSession(r)

EnrolmentStep(r) ==
    \/ \E x \in Secret : SaveSecret(r, x)
    \/ FindBackupCodes(r, "enrol", "enrolCodes")
    \/ FindBackupCodes(r, "renew", "renewCodes")
    \/ FindBackupCodes(r, "remove", "removeAll")
    \/ \E b \in BackupCode : ReplaceBackupCodes(r, b)
    \/ Enable(r)
    \/ RemoveFactors(r)

RequestArrives(r) ==
    \/ \E u \in User : \/ RequireSecondFactor(r, u)
                       \/ Setup(r, u)
                       \/ VerifySetup(r, u)
                       \/ RegenerateBackupCodes(r, u)
                       \/ Disable(r, u)
    \/ \E c \in Challenge : ReadChallenge(r, c)

Next ==
    \/ \E r \in Request : \/ RequestArrives(r)
                          \/ VerifyStep(r)
                          \/ EnrolmentStep(r)
                          \/ Die(r)
                          \/ \E c \in Challenge : IssueChallenge(r, c)
    \/ \E c \in Challenge : ChallengeExpires(c)

Spec == Init /\ [][Next]_vars

-----------------------------------------------------------------------------
(* What must hold. *)

Verifying == {"verify", "use", "reject", "accept", "open"}

(* Nobody opens a session with another user's factor: the challenge of the *)
(* session is the user's and so is the secret or backup code presented,    *)
(* although codes are looked up by their hash among everybody's, and       *)
(* secrets and codes change hands while the request is under way.          *)
SessionNeedsOwnFactor ==
    \A r \in Request : At(r, "open") =>
        /\ challenged[req[r].challenge] = req[r].user
        /\ issuedTo[req[r].factor] = req[r].user

(* However many verifications race, the failed and successful attempts at  *)
(* one challenge exceed the limit by less than the number of requests.     *)
AttemptsBounded ==
    \A c \in Challenge : attempts[c] < MaxAttempts + Cardinality(Request)

(* The limit and the consumption are checked before and recorded after the *)
(* code is verified, so a challenge can let in several logins, but only    *)
(* those that raced the first: as many as requests at once.                *)
ChallengeLoginsBounded ==
    \A c \in Challenge : challengeLogins[c] <= Cardinality(Request)

(* A used backup code stays used: the logins it opens all raced the first. *)
CodeLoginsBounded ==
    \A b \in BackupCode : codeLogins[b] <= Cardinality(Request)

(* MFA is on, and no set-up or removal that began before is under way: it  *)
(* goes off by a new request for its removal alone, not by a set-up.       *)
EnrolmentPending(u) ==
    \E r \in Request :
        req[r].pc \in {"saveSecret", "remove", "removeAll"} /\ req[r].user = u

Enrolled(u) == u \in enabled /\ ~EnrolmentPending(u)

EnrolmentSettles ==
    [][\A u \in User :
          Enrolled(u) => Enrolled(u)' \/ \E r \in Request : Disable(r, u)]_vars

-----------------------------------------------------------------------------
(* The inductive invariant. *)

(* A factor in use was generated for its user. *)
FactorInv ==
    /\ \A u \in User : secret[u] # None => issuedTo[secret[u]] = u
    /\ \A b \in BackupCode : codeOwner[b] # None => issuedTo[b] = codeOwner[b]

(* What request r has read, and what it has already written. *)
RequestOK(r) ==
    /\ ~At(r, "idle") => req[r].user \in User
    /\ req[r].pc \in Verifying =>
          req[r].challenge \in Challenge /\ challenged[req[r].challenge] = req[r].user
    /\ req[r].pc \notin Verifying => req[r].challenge = None
    /\ req[r].pc \in {"use", "accept", "open"} =>
          req[r].factor \in Factor /\ issuedTo[req[r].factor] = req[r].user
    /\ req[r].pc \notin {"use", "accept", "open"} => req[r].factor = None
    /\ req[r].pc \in {"accept", "open"} /\ req[r].factor \in BackupCode =>
          req[r].factor \in used
    /\ At(r, "open") => req[r].challenge \in closed

(* The requests that verify challenge c, those among them that have not    *)
(* counted their attempt, and the requests that hold backup code b.        *)
AtChallenge(c) == {r \in Request : req[r].challenge = c}
Uncounted(c) == {r \in AtChallenge(c) : ~At(r, "open")}
Holding(b) == {r \in Request : req[r].factor = b}

CountInv ==
    /\ \A c \in Challenge :
          /\ attempts[c] + Cardinality(Uncounted(c)) < MaxAttempts + Cardinality(Request)
          /\ challengeLogins[c] + Cardinality(AtChallenge(c)) <= Cardinality(Request)
          /\ challengeLogins[c] > 0 => c \in closed
    /\ \A b \in BackupCode :
          /\ codeLogins[b] + Cardinality(Holding(b)) <= Cardinality(Request)
          /\ codeLogins[b] > 0 => b \in used

IInv == TypeOK /\ FactorInv /\ (\A r \in Request : RequestOK(r)) /\ CountInv
=============================================================================
