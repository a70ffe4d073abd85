---------------------------- MODULE OneTimeTokens ----------------------------
(***************************************************************************)
(* VerificationService and the operations of AuthService that issue and    *)
(* take its tokens: register, verifyEmail, requestPasswordReset and        *)
(* resetPassword, with changePassword, which shares the password history.  *)
(* All of it is about one email address: tokens and histories of different *)
(* users never meet.                                                       *)
(*                                                                         *)
(* Reads and writes are steps of their own, transactions included: they    *)
(* run at READ COMMITTED, so what one read may be stale when it writes.    *)
(* Two transactions that set a password do follow one another, because     *)
(* each begins by updating the row of the user.  A token can be presented  *)
(* once it has been mailed.                                                *)
(*                                                                         *)
(* The sessions a new password ends are in AuthSessions, the password      *)
(* policy, which only refuses requests, and the audit log nowhere.         *)
(***************************************************************************)
EXTENDS Naturals, Sequences

CONSTANTS
    Token,          \* ids of rows of both token tables
    Password,
    Request,        \* requests that can be in flight at once
    Limit,          \* passwordPolicy.historyLimit, 0 turns the history off
    MaxChanges,     \* bound on the passwords ever set
    None

ASSUME TokenAssumption ==
    /\ Limit \in Nat /\ MaxChanges \in Nat
    /\ None \notin Token /\ None \notin Password

Purpose == {"verify", "reset"}
Row == [purpose : Purpose, used : BOOLEAN, expired : BOOLEAN]

ASSUME RowAssumption == \A row \in Row : row # None

VARIABLES
    token,          \* token[t], its row, None without one
    mailed,         \* tokens a mail job carries
    isEmailVerified,
    password,       \* None before the registration
    history,        \* rows of password_history, newest first
    req,            \* req[r], what request r has read and where it stands
    past,           \* ghost: the passwords ever set, newest first
    consumed,       \* ghost: tokens a request has taken
    redeemed,       \* ghost: tokens that have set a password
    contested,      \* ghost: tokens two requests held before either took it
    beside          \* ghost: beside[t], tokens issued while t was being issued

tokenVars == <<token, mailed, isEmailVerified>>
passwordVars == <<password, history, past>>
ghostVars == <<consumed, redeemed, contested, beside>>
vars == <<tokenVars, passwordVars, req, ghostVars>>

PC == {"idle", "register", "issue", "mail", "verify", "take", "history", "set"}

Idle == [pc |-> "idle", token |-> None, new |-> None, seen |-> 0,
         marked |-> {},     \* the unused tokens issuePasswordResetToken will mark
         beside |-> {}]     \* ghost: tokens issued since

RequestState ==
    [pc : PC, token : Token \cup {None}, new : Password \cup {None}, seen : Nat,
     marked : SUBSET Token, beside : SUBSET Token]

Init ==
    /\ token = [t \in Token |-> None]
    /\ mailed = {}
    /\ isEmailVerified = FALSE
    /\ password = None
    /\ history = <<>> /\ past = <<>>
    /\ req = [r \in Request |-> Idle]
    /\ consumed = {} /\ redeemed = {} /\ contested = {}
    /\ beside = [t \in Token |-> {}]

At(r, pc) == req[r].pc = pc
Leave(r) == req' = [req EXCEPT ![r] = Idle]

-----------------------------------------------------------------------------
(* Mutants.  A find does not look at usedAt; a new link leaves the others  *)
(* alone; one row of the history too many is trimmed.                      *)

Valid_Used(t, purpose) == token[t] # None /\ token[t].purpose = purpose /\ ~token[t].expired
Inserted_KeepOthers(t, purpose, marked) ==
    [token EXCEPT ![t] = [purpose |-> purpose, used |-> FALSE, expired |-> FALSE]]
Trim_OffByOne(rows) == SubSeq(rows, 1, IF Len(rows) < Limit THEN Len(rows) ELSE Limit - 1)

-----------------------------------------------------------------------------
(* Tokens. *)

Issued(t) == token[t] # None
Unused(t) == Issued(t) /\ ~token[t].used

(* What a find may return: not used, not expired. *)
Valid(t, purpose) == Unused(t) /\ token[t].purpose = purpose /\ ~token[t].expired

UnusedResets == {t \in Token : Unused(t) /\ token[t].purpose = "reset"}

(* The rows of marked get a usedAt and t a row. *)
Inserted(t, purpose, marked) ==
    [x \in Token |->
        IF x = t THEN [purpose |-> purpose, used |-> FALSE, expired |-> FALSE]
        ELSE IF x \in marked /\ Issued(x) THEN [token[x] EXCEPT !.used = TRUE]
        ELSE token[x]]

Taken(t) == [token EXCEPT ![t] = [@ EXCEPT !.used = TRUE]]

-----------------------------------------------------------------------------
(* The history of passwords. *)

Newest(rows, n) == {rows[i] : i \in {j \in DOMAIN rows : j <= n}}

(* ensureNotRecentlyUsed: take the newest rows and compare each. *)
RecentlyUsed(new) == new \in Newest(history, Limit)

(* trimPasswordHistory deletes what comes after the newest Limit rows. *)
Trim(rows) == IF Limit = 0 \/ Len(rows) <= Limit THEN rows ELSE SubSeq(rows, 1, Limit)

BecomesPassword(new) ==
    /\ Len(past) < MaxChanges
    /\ password' = new
    /\ past' = <<new>> \o past

-----------------------------------------------------------------------------
(* register. *)

(* No user has the address. *)
Register(r, new) ==
    /\ At(r, "idle")
    /\ password = None
    /\ req' = [req EXCEPT ![r] = [Idle EXCEPT !.pc = "register", !.new = new]]
    /\ UNCHANGED <<tokenVars, passwordVars, ghostVars>>

(* The address is unique: a second user is refused. *)
CreateUser(r, t) ==
    /\ At(r, "register")
    /\ ~Issued(t)
    /\ password = None
    /\ BecomesPassword(req[r].new)
    /\ history' = <<req[r].new>>
    /\ token' = Inserted(t, "verify", {})
    /\ req' = [req EXCEPT ![r] = [Idle EXCEPT !.pc = "mail", !.token = t]]
    /\ UNCHANGED <<mailed, isEmailVerified, ghostVars>>

(* enqueueVerifyEmail, enqueueResetPassword, and the reply. *)
Mail(r) ==
    /\ At(r, "mail")
    /\ mailed' = mailed \cup {req[r].token}
    /\ Leave(r)
    /\ UNCHANGED <<token, isEmailVerified, passwordVars, ghostVars>>

-----------------------------------------------------------------------------
(* requestPasswordReset. *)

(* The updateMany of issuePasswordResetToken finds its rows. *)
RequestPasswordReset(r) ==
    /\ At(r, "idle")
    /\ password # None
    /\ req' = [req EXCEPT ![r] = [Idle EXCEPT !.pc = "issue", !.marked = UnusedResets]]
    /\ UNCHANGED <<tokenVars, passwordVars, ghostVars>>

(* The transaction commits. *)
Issue(r, t) ==
    /\ At(r, "issue")
    /\ ~Issued(t)
    /\ token' = Inserted(t, "reset", req[r].marked)
    /\ beside' = [beside EXCEPT ![t] = req[r].beside]
    /\ req' = [x \in Request |->
          IF x = r THEN [Idle EXCEPT !.pc = "mail", !.token = t]
          ELSE IF At(x, "issue") THEN [req[x] EXCEPT !.beside = @ \cup {t}]
          ELSE req[x]]
    /\ UNCHANGED <<mailed, isEmailVerified, passwordVars, consumed, redeemed, contested>>

-----------------------------------------------------------------------------
(* consumeEmailVerificationToken and consumePasswordResetToken. *)

(* The findUnique.  Another request may have found the token as well. *)
Find(r, t, purpose, pc, new) ==
    /\ At(r, "idle")
    /\ t \in mailed /\ Valid(t, purpose)
    /\ req' = [req EXCEPT ![r] = [Idle EXCEPT !.pc = pc, !.token = t, !.new = new]]
    /\ contested' = IF \E x \in Request : At(x, pc) /\ req[x].token = t
                    THEN contested \cup {t} ELSE contested
    /\ UNCHANGED <<tokenVars, passwordVars, consumed, redeemed, beside>>

FindVerification(r, t) == Find(r, t, "verify", "verify", None)
FindReset(r, t, new) == Find(r, t, "reset", "take", new)

Take(r) ==
    /\ token' = Taken(req[r].token)
    /\ consumed' = consumed \cup {req[r].token}
    /\ UNCHANGED <<mailed, passwordVars, redeemed, contested, beside>>

VerifyEmail(r) ==
    /\ At(r, "verify")
    /\ Take(r)
    /\ isEmailVerified' = TRUE
    /\ Leave(r)

(* Committed before the new password is looked at. *)
TakeReset(r) ==
    /\ At(r, "take")
    /\ Take(r)
    /\ req' = [req EXCEPT ![r] = [@ EXCEPT !.pc = "history"]]
    /\ UNCHANGED isEmailVerified

-----------------------------------------------------------------------------
(* changePassword and the rest of resetPassword. *)

(* The caller is signed in and knows the current password. *)
ChangePassword(r, new) ==
    /\ At(r, "idle")
    /\ password # None
    /\ req' = [req EXCEPT ![r] = [Idle EXCEPT !.pc = "history", !.new = new]]
    /\ UNCHANGED <<tokenVars, passwordVars, ghostVars>>

(* A refusal does not give the link back. *)
EnsureNotRecentlyUsed(r) ==
    /\ At(r, "history")
    /\ req' = [req EXCEPT ![r] =
          IF RecentlyUsed(req[r].new) THEN Idle ELSE [@ EXCEPT !.pc = "set", !.seen = Len(past)]]
    /\ UNCHANGED <<tokenVars, passwordVars, ghostVars>>

SetPassword(r) ==
    /\ At(r, "set")
    /\ BecomesPassword(req[r].new)
    /\ history' = Trim(<<req[r].new>> \o history)
    /\ redeemed' = redeemed \cup ({req[r].token} \ {None})
    /\ Leave(r)
    /\ UNCHANGED <<tokenVars, consumed, contested, beside>>

-----------------------------------------------------------------------------
Expire(t) ==
    /\ Unused(t) /\ ~token[t].expired
    /\ token' = [token EXCEPT ![t] = [@ EXCEPT !.expired = TRUE]]
    /\ UNCHANGED <<mailed, isEmailVerified, passwordVars, req, ghostVars>>

(* A crash, an abort by the database, or a queue that refuses the job. *)
Die(r) ==
    /\ ~At(r, "idle")
    /\ Leave(r)
    /\ UNCHANGED <<tokenVars, passwordVars, ghostVars>>

RequestArrives(r) ==
    \/ \E new \in Password : Register(r, new) \/ ChangePassword(r, new)
    \/ RequestPasswordReset(r)
    \/ \E t \in Token : FindVerification(r, t)
    \/ \E t \in Token, new \in Password : FindReset(r, t, new)

Step(r) ==
    \/ \E t \in Token : CreateUser(r, t) \/ Issue(r, t)
    \/ Mail(r) \/ VerifyEmail(r) \/ TakeReset(r)
    \/ EnsureNotRecentlyUsed(r) \/ SetPassword(r)

Next ==
    \/ \E r \in Request : RequestArrives(r) \/ Step(r) \/ Die(r)
    \/ \E t \in Token : Expire(t)

Spec == Init /\ [][Next]_vars

-----------------------------------------------------------------------------
(* What must hold. *)

TypeOK ==
    /\ token \in [Token -> {None} \cup Row]
    /\ mailed \subseteq Token
    /\ isEmailVerified \in BOOLEAN
    /\ password \in Password \cup {None}
    /\ history \in Seq(Password) /\ past \in Seq(Password)
    /\ req \in [Request -> RequestState]
    /\ consumed \subseteq Token /\ redeemed \subseteq Token /\ contested \subseteq Token
    /\ beside \in [Token -> SUBSET Token]

(* One reset link sets one password, however many requests present it,     *)
(* unless two of them found it before either had taken it.                 *)
LinkSetsOnePassword ==
    \A r \in Request : At(r, "set") /\ req[r].token \in redeemed => req[r].token \in contested

(* Two reset links work at the same time only if they were issued at the   *)
(* same time: a new link ends the ones before it.                          *)
LiveLinksWereIssuedTogether ==
    \A t1, t2 \in UnusedResets : t1 # t2 => t1 \in beside[t2] \/ t2 \in beside[t1]

(* A password that is set is none of the last Limit ever set, unless       *)
(* another one was set after its check.                                    *)
RecentPasswordsAreRefused ==
    \A r \in Request : At(r, "set") /\ req[r].seen = Len(past) =>
        req[r].new \notin Newest(past, Limit)

-----------------------------------------------------------------------------
(* Why: the inductive invariant. *)

Took(r) == req[r].pc \in {"history", "set"} /\ req[r].token # None

RequestOK(r) ==
    /\ req[r].pc \in {"register", "take", "history", "set"} => req[r].new \in Password
    /\ req[r].pc \in {"mail", "verify", "take"} =>
          req[r].token \in Token /\ Issued(req[r].token)
    /\ At(r, "verify") => token[req[r].token].purpose = "verify"
    /\ At(r, "take") => token[req[r].token].purpose = "reset"
    /\ Took(r) => req[r].token \in consumed
    /\ At(r, "issue") => UnusedResets \subseteq req[r].marked \cup req[r].beside
    /\ At(r, "take") /\ req[r].token \in consumed => req[r].token \in contested
    /\ Took(r) /\ req[r].token \in redeemed => req[r].token \in contested

(* Two requests with one token that are both before, or both after, the    *)
(* taking of it.                                                           *)
PairOK(r, q) ==
    /\ r # q /\ req[r].token = req[q].token
    /\ \/ At(r, "take") /\ At(q, "take")
       \/ Took(r) /\ Took(q)
    => req[r].token \in contested

(* The history has what the ghost has, as far as the limit goes. *)
HistoryOK ==
    /\ password = None => history = <<>> /\ past = <<>>
    /\ \A k \in 0..Limit : Newest(history, k) = Newest(past, k)
    /\ \A r \in Request : req[r].seen <= Len(past)

IInv ==
    /\ TypeOK
    /\ \A t \in consumed : Issued(t) /\ token[t].used
    /\ redeemed \subseteq consumed
    /\ \A r \in Request : RequestOK(r)
    /\ \A r, q \in Request : PairOK(r, q)
    /\ HistoryOK
    /\ LiveLinksWereIssuedTogether
    /\ RecentPasswordsAreRefused
=============================================================================
