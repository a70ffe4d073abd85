---------------------------- MODULE LoginLockout ----------------------------
(***************************************************************************)
(* The lockout of one user: the columns status, failedLoginAttempts and    *)
(* lockUntil of a row of users, and every request that writes them.        *)
(*                                                                         *)
(* A login reads the row, compares the password (some 100 ms of bcrypt)    *)
(* and then writes columns computed from what it read, so concurrent       *)
(* logins overwrite each other.  Nothing in the code sets SUSPENDED or     *)
(* INACTIVE, so a status is ACTIVE or LOCKED.  lockUntil is only ever      *)
(* compared with the clock: null is a lockUntil in the past.               *)
(*                                                                         *)
(* Passwords are also compared by POST /auth/mfa/challenge, which reads    *)
(* status alone and writes none of the columns, right or wrong.            *)
(***************************************************************************)
EXTENDS Naturals

CONSTANTS
    Request,        \* requests that can be in flight at once
    MaxAttempts,    \* maxLoginAttempts
    MaxCount        \* bound on failedLoginAttempts

ASSUME AttemptsAssumption ==
    /\ MaxAttempts \in Nat \ {0}    \* env.validation.ts: min(1)
    /\ MaxCount \in Nat

VARIABLES
    status,
    attempts,       \* failedLoginAttempts
    lockUntil,      \* "past" (or null) or "future"
    req,            \* req[r], what request r has read and where it stands
    wrong           \* ghost: wrong passwords logins compared, up to MaxAttempts

userVars == <<status, attempts, lockUntil>>
vars == <<userVars, req, wrong>>

Status == {"ACTIVE", "LOCKED"}
Idle == [pc |-> "idle", attempts |-> 0, status |-> "ACTIVE"]
Read(pc) == [pc |-> pc, attempts |-> attempts, status |-> status]

TypeOK ==
    /\ status \in Status
    /\ attempts \in Nat
    /\ lockUntil \in {"past", "future"}
    /\ req \in [Request -> [pc : {"idle", "fail", "succeed", "reactivate", "challenge"},
                            attempts : Nat, status : Status]]
    /\ wrong \in 0 .. MaxAttempts

Init ==
    /\ status = "ACTIVE"
    /\ attempts = 0
    /\ lockUntil = "past"
    /\ req = [r \in Request |-> Idle]
    /\ wrong = 0

At(r, pc) == req[r].pc = pc
Leave(r) == req' = [req EXCEPT ![r] = Idle]
Arrive(r, pc) == At(r, "idle") /\ req' = [req EXCEPT ![r] = Read(pc)]

-----------------------------------------------------------------------------
(* Mutants.  The account locks one failure early; locking starts the count *)
(* afresh; the count is written back as it was read; the account locks one *)
(* failure late.                                                           *)

ShouldLock_Early(n) == n + 1 >= MaxAttempts
NewAttempts_ResetOnLock(r) ==
    IF req[r].attempts + 1 >= MaxAttempts THEN 0 ELSE req[r].attempts + 1
NewAttempts_Unchanged(r) == req[r].attempts
ShouldLock_Late(n) == n > MaxAttempts

-----------------------------------------------------------------------------
RefusedAsLocked == status = "LOCKED" \/ lockUntil = "future"

(* Logins with a wrong and with the right password. *)
GuessWrong(r) ==
    /\ ~RefusedAsLocked
    /\ attempts < MaxCount
    /\ Arrive(r, "fail")
    /\ wrong' = IF wrong < MaxAttempts THEN wrong + 1 ELSE wrong
    /\ UNCHANGED userVars

EnterPassword(r) ==
    /\ ~RefusedAsLocked
    /\ Arrive(r, "succeed")
    /\ UNCHANGED <<userVars, wrong>>

(* The second factor looks at status only, a social login at neither.      *)
CompleteMfa(r) ==
    /\ status = "ACTIVE"
    /\ Arrive(r, "succeed")
    /\ UNCHANGED <<userVars, wrong>>

OAuthLogin(r) ==
    /\ Arrive(r, "succeed")
    /\ UNCHANGED <<userVars, wrong>>

(* reissueChallenge: the password is compared whatever the count and the   *)
(* date say.  What follows a right one is MfaLogin's.                      *)
ReissueChallenge(r) ==
    /\ status = "ACTIVE"
    /\ Arrive(r, "challenge")
    /\ UNCHANGED <<userVars, wrong>>

(* JIT provisioning writes the row only of a user who is not ACTIVE. *)
SsoLogin(r) ==
    /\ status # "ACTIVE"
    /\ Arrive(r, "reactivate")
    /\ UNCHANGED <<userVars, wrong>>

-----------------------------------------------------------------------------
(* handleFailedLogin, on the row as the login read it. *)
NewAttempts(r) == req[r].attempts + 1
ShouldLock(n) == n >= MaxAttempts

HandleFailedLogin(r) ==
    /\ At(r, "fail")
    /\ attempts' = NewAttempts(r)
    /\ \/ /\ ShouldLock(req[r].attempts + 1)
          /\ lockUntil' = "future"
          /\ status' = "LOCKED"
       \/ /\ ~ShouldLock(req[r].attempts + 1)
          /\ lockUntil' = "past"
          /\ status' = req[r].status
    /\ Leave(r)
    /\ UNCHANGED wrong

(* All the ways to log in clear the counter and the date, never status. *)
ResetCounters(r) ==
    /\ At(r, "succeed")
    /\ attempts' = 0
    /\ lockUntil' = "past"
    /\ Leave(r)
    /\ UNCHANGED <<status, wrong>>

Reactivate(r) ==
    /\ At(r, "reactivate")
    /\ status' = "ACTIVE"
    /\ Leave(r)
    /\ UNCHANGED <<attempts, lockUntil, wrong>>

(* The challenge, or the refusal, is sent. *)
AnswerChallenge(r) ==
    /\ At(r, "challenge")
    /\ Leave(r)
    /\ UNCHANGED <<userVars, wrong>>

(* The lock duration passes. *)
LockPasses ==
    /\ lockUntil = "future"
    /\ lockUntil' = "past"
    /\ UNCHANGED <<status, attempts, req, wrong>>

Die(r) ==
    /\ ~At(r, "idle")
    /\ Leave(r)
    /\ UNCHANGED <<userVars, wrong>>

Step(r) ==
    \/ HandleFailedLogin(r)
    \/ ResetCounters(r)
    \/ Reactivate(r)
    \/ AnswerChallenge(r)

RequestArrives(r) ==
    \/ GuessWrong(r)
    \/ EnterPassword(r)
    \/ CompleteMfa(r)
    \/ OAuthLogin(r)
    \/ ReissueChallenge(r)
    \/ SsoLogin(r)

Next ==
    \/ \E r \in Request : RequestArrives(r) \/ Step(r) \/ Die(r)
    \/ LockPasses

Spec == Init /\ [][Next]_vars

-----------------------------------------------------------------------------
(* What must hold. *)

(* Nobody is locked out who was not the object of MaxAttempts wrong        *)
(* passwords, however the failed logins and the resets overlap.            *)
NoLockWithoutFailures == status = "LOCKED" => wrong >= MaxAttempts

(* The count the user has reached for good: what is stored, and what every *)
(* failed login still in flight is going to store, is at least n.          *)
AtLeast(n) ==
    /\ attempts >= n
    /\ \A r \in Request : At(r, "fail") => req[r].attempts + 1 >= n

(* A failed login can overwrite a later count with an earlier one, but the *)
(* overwriting cannot go on for ever: only a login that succeeds takes     *)
(* back a count the user has reached for good.                             *)
OnlySuccessRewinds ==
    [][\A n \in 1 .. MaxAttempts :
          AtLeast(n) => AtLeast(n)' \/ \E r \in Request : ResetCounters(r)]_vars

(* So guessing by logging in comes to an end: POST /auth/login compares    *)
(* only so many wrong passwords, in whatever order the logins overwrite    *)
(* each other's counts and locks.  Once nobody logs the user in, and no    *)
(* login dies after it has compared a password, there is a last wrong one. *)
(* It says nothing of POST /auth/mfa/challenge, which goes on comparing    *)
(* meanwhile and is not counted.                                           *)
OnlyGuesses ==
    \A r \in Request :
        /\ ~ResetCounters(r) /\ ~Reactivate(r)
        /\ At(r, "fail") => req'[r] = req[r] \/ HandleFailedLogin(r)
LoginGuessesEnd ==
    <>[][OnlyGuesses]_vars => <>[][\A r \in Request : ~GuessWrong(r)]_vars

(* What takes the count on from n: while nobody succeeds, the failed       *)
(* logins in flight that will store no more than n only get fewer.  Each   *)
(* that ends is one of those or stores more, and at MaxAttempts each locks.*)
Behind(n) == {r \in Request : At(r, "fail") /\ req[r].attempts + 1 <= n}

GetsAhead(n) ==
    /\ Behind(n)' \subseteq Behind(n)
    /\ \A r \in Request : HandleFailedLogin(r) =>
          /\ Behind(n)' # Behind(n) \/ attempts' > n
          /\ n = MaxAttempts => status' = "LOCKED"

GuessesGetAhead ==
    [][\A n \in 0 .. MaxAttempts :
          AtLeast(n) => GetsAhead(n) \/ \E r \in Request : ResetCounters(r)]_vars

-----------------------------------------------------------------------------
(* The inductive invariant: no count, stored or about to be, is ahead of   *)
(* the wrong passwords; a failed login was let through as ACTIVE.          *)
CountInv ==
    /\ attempts <= wrong \/ wrong = MaxAttempts
    /\ \A r \in Request : At(r, "fail") =>
          /\ req[r].attempts + 1 <= wrong \/ wrong = MaxAttempts
          /\ req[r].status = "ACTIVE"

IInv == TypeOK /\ CountInv /\ NoLockWithoutFailures

-----------------------------------------------------------------------------
(* What the documentation says and the code does not do. *)

(* docs/configuration.md: LOCK_DURATION_MS is the lock duration, and only  *)
(* with 0 does a lock last for ever.  So a user whose lock duration has    *)
(* just passed is not refused as locked any more.                          *)
LockIsTemporary == [][LockPasses => ~RefusedAsLocked']_vars
=============================================================================
