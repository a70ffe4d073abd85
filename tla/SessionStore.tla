---------------------------- MODULE SessionStore ----------------------------
(***************************************************************************)
(* The tables `sessions` and `refresh_tokens`, and the database            *)
(* transactions SessionService runs on them.                               *)
(*                                                                         *)
(* The database runs at READ COMMITTED.  An interactive transaction of the *)
(* service first reads, then writes by primary key without looking again   *)
(* at what it read, so a caller reads in one step and commits in another,  *)
(* and the operators below are the commits: each is one atomic step.       *)
(*                                                                         *)
(* A session has a fresh familyId of its own and rotation copies it, so a  *)
(* session stands for its family.  Every refresh token carries its         *)
(* session's expiresAt, so a token has expired when its session has.       *)
(***************************************************************************)
EXTENDS Naturals

CONSTANTS
    User,       \* rows of users
    Session,    \* ids a row of sessions can get
    Token,      \* ids a row of refresh_tokens can get
    None        \* the null of a nullable column

ASSUME NoneAssumption == None \notin User \cup Session \cup Token

VARIABLES
    owner,      \* owner[s] is the userId of session s, None before s exists
    revoked,    \* the sessions whose revokedAt is set
    expired,    \* the sessions whose expiresAt lies in the past
    sessionOf,  \* sessionOf[t] is the sessionId of token t, None before t exists
    spent,      \* the tokens whose revokedAt is set
    successor   \* successor[t] is the replacedByTokenId of token t

storeVars == <<owner, revoked, expired, sessionOf, spent, successor>>

StoreTypeOK ==
    /\ owner \in [Session -> User \cup {None}]
    /\ revoked \subseteq Session
    /\ expired \subseteq Session
    /\ sessionOf \in [Token -> Session \cup {None}]
    /\ spent \subseteq Token
    /\ successor \in [Token -> Token \cup {None}]

StoreInit ==
    /\ owner = [s \in Session |-> None]
    /\ revoked = {}
    /\ expired = {}
    /\ sessionOf = [t \in Token |-> None]
    /\ spent = {}
    /\ successor = [t \in Token |-> None]

SessionsOf(u) == {s \in Session : owner[s] = u}
TokensOf(S) == {t \in Token : sessionOf[t] \in S}
Usable(s) == s \notin revoked \cup expired

-----------------------------------------------------------------------------
(* Mutants.  The rotation does not look at the session; it revokes every   *)
(* token of the family, the new one with them; it extends the session's    *)
(* expiry.  Revocation leaves the refresh tokens alone; it stores the id   *)
(* of the user.                                                            *)

MayRotate_NoSessionCheck(t) == t \notin spent /\ sessionOf[t] \notin expired


TouchSession_Extends(s) ==
    expired' = expired \ {s} /\ UNCHANGED <<owner, revoked>>

RevokeSessions_KeepTokens(S) ==
    /\ revoked' = revoked \cup S
    /\ UNCHANGED <<owner, expired, sessionOf, spent, successor>>

RevokeSessions_ByUserId(S) ==
    /\ revoked' = revoked \cup {owner[s] : s \in S}
    /\ UNCHANGED <<owner, expired, sessionOf, spent, successor>>

-----------------------------------------------------------------------------
(* createSession: the session and its first refresh token. *)
CreateSession(u, s, t) ==
    /\ owner[s] = None
    /\ sessionOf[t] = None
    /\ owner' = [owner EXCEPT ![s] = u]
    /\ sessionOf' = [sessionOf EXCEPT ![t] = s]
    /\ UNCHANGED <<revoked, expired, spent, successor>>

(* The checks rotateRefreshToken makes on the row it reads. *)
MayRotate(t) == t \notin spent /\ Usable(sessionOf[t])

(* Issue t in the family of old, mark old revoked and replaced. *)
IssueInto(old, t) ==
    /\ sessionOf' = [sessionOf EXCEPT ![t] = sessionOf[old]]
    /\ spent' = spent \cup {old}
    /\ successor' = [successor EXCEPT ![old] = t]

(* Only lastActivityAt, ipAddress and userAgent change, which no check     *)
(* reads.                                                                  *)
TouchSession(s) == UNCHANGED <<owner, revoked, expired>>

RotateRefreshToken(old, t) ==
    /\ sessionOf[t] = None
    /\ IssueInto(old, t)
    /\ TouchSession(sessionOf[old])

(* The reuse branch revokes the family s through tx (revokeFamily), then    *)
(* throws out of the transaction callback, so the revocation rolls back.   *)
RevokeFamilyAndThrow(s) == UNCHANGED storeVars

(* The writes of revokeSession, where S is one session, and of             *)
(* revokeAllSessionsForUser.                                               *)
RevokeSessions(S) ==
    /\ revoked' = revoked \cup S
    /\ spent' = spent \cup TokensOf(S)
    /\ UNCHANGED <<owner, expired, sessionOf, successor>>

(* expiresAt passes. *)
Expire(s) ==
    /\ owner[s] # None
    /\ s \notin expired
    /\ expired' = expired \cup {s}
    /\ UNCHANGED <<owner, revoked, sessionOf, spent, successor>>

=============================================================================
