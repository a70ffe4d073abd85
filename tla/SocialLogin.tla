----------------------------- MODULE SocialLogin -----------------------------
(***************************************************************************)
(* OAuthFlowService, OAuthStateService and OAuthService: logging in with a *)
(* provider account, signing up with it, linking and unlinking it.         *)
(*                                                                         *)
(* A callback is a chain of separate statements.  The state parameter is   *)
(* read from Redis, then deleted, and either call may fail: CacheService   *)
(* swallows the error.  The rows of users and oauth_accounts are read and  *)
(* written outside any transaction.                                        *)
(*                                                                         *)
(* The provider is trusted: an authorization code stands for the account   *)
(* it was issued for.  A row of oauth_accounts that is deleted and made    *)
(* again counts as the same row, which only lets more requests succeed.    *)
(* Its tokens and profile, PKCE and the redirects are left out; what the   *)
(* login does to the counters of the user is in LoginLockout.              *)
(***************************************************************************)
EXTENDS Naturals

CONSTANTS
    User,           \* users and the addresses they have or would have
    Identity,       \* accounts at the providers
    Provider,
    ProviderOf,     \* ProviderOf[i]
    Email,          \* Email[i], the user with the address the provider tells
    State,          \* values of the state parameter
    SocialRequest,  \* callbacks and unlinkings that can be in flight at once
    None

Data == [provider : Provider, linkUser : User \cup {None}]

ASSUME SocialAssumption ==
    /\ ProviderOf \in [Identity -> Provider] /\ Email \in [Identity -> User]
    /\ None \notin User /\ None \notin State /\ None \notin Identity
    /\ \A data \in Data : data # None

VARIABLES
    stored,         \* stored[s], what Redis has for state s, None without
    status,         \* status[u]: no row, may sign in, may not
    owner,          \* owner[i], the user of the row of oauth_accounts, or None
    call,           \* call[r], what request r has read and where it stands
    begun,          \* ghost: states ever created
    passed,         \* ghost: states a callback got past the deletion with
    excused,        \* ghost: states two callbacks read, or Redis did not delete
    linked          \* ghost: linked[r], the owners of its identity since it came

tables == <<status, owner>>
stateGhosts == <<begun, passed, excused>>
socialVars == <<stored, tables, call, stateGhosts, linked>>

CallPC == {"idle", "delete", "account", "email", "create", "attach", "persist",
           "session", "identity", "provider", "attachLink", "unlink"}

Resting == [pc |-> "idle", state |-> None, identity |-> None, row |-> None,
            user |-> None, linkUser |-> None, matches |-> FALSE, active |-> FALSE]

CallState ==
    [pc : CallPC, state : State \cup {None}, identity : Identity \cup {None},
     row : Identity \cup {None}, user : User \cup {None}, linkUser : User \cup {None}, matches : BOOLEAN,
     active : BOOLEAN]

SocialInit ==
    /\ stored = [s \in State |-> None]
    /\ status = [u \in User |-> "absent"]
    /\ owner = [i \in Identity |-> None]
    /\ call = [r \in SocialRequest |-> Resting]
    /\ begun = {} /\ passed = {} /\ excused = {}
    /\ linked = [r \in SocialRequest |-> {}]

In(r, pc) == call[r].pc = pc
Hangup(r) == call' = [call EXCEPT ![r] = Resting]
Proceed(r, pc) == call' = [call EXCEPT ![r] = [@ EXCEPT !.pc = pc]]

(* The ghost of the owners, after a write of owner. *)
OwnersSeen ==
    linked' = [r \in SocialRequest |->
        IF call[r].identity = None THEN linked[r]
        ELSE linked[r] \cup ({owner'[call[r].identity]} \ {None})]

-----------------------------------------------------------------------------
(* Mutants.  The state is not deleted; the row is looked up by its         *)
(* provider alone.                                                         *)

WithoutState_Kept(s) == stored
RowsOf_Provider(i) == {j \in Identity : ProviderOf[j] = ProviderOf[i] /\ owner[j] # None}

-----------------------------------------------------------------------------
(* OAuthStateService.create, for beginLogin and for beginLink. *)

(* up: Redis took it. *)
Begin(s, data) ==
    /\ s \notin begun
    /\ begun' = begun \cup {s}
    /\ \E up \in BOOLEAN : stored' = [stored EXCEPT ![s] = IF up THEN data ELSE None]
    /\ UNCHANGED <<tables, call, passed, excused, linked>>

BeginLogin(s, provider) == Begin(s, [provider |-> provider, linkUser |-> None])

BeginLink(s, provider, u) ==
    /\ status[u] = "active"
    /\ Begin(s, [provider |-> provider, linkUser |-> u])

(* ttlSeconds. *)
StateExpires(s) ==
    /\ stored[s] # None
    /\ stored' = [stored EXCEPT ![s] = None]
    /\ UNCHANGED <<tables, call, stateGhosts, linked>>

-----------------------------------------------------------------------------
(* handleCallback. *)

(* consume: the get.  The callback comes from the provider of identity i.  *)
ReadState(r, s, i) ==
    /\ In(r, "idle")
    /\ stored[s] # None
    /\ call' = [call EXCEPT ![r] = [Resting EXCEPT
          !.pc = "delete", !.state = s, !.identity = i, !.linkUser = stored[s].linkUser,
          !.matches = (stored[s].provider = ProviderOf[i])]]
    /\ excused' = IF \E q \in SocialRequest : In(q, "delete") /\ call[q].state = s
                  THEN excused \cup {s} ELSE excused
    /\ linked' = [linked EXCEPT ![r] = {owner[i]} \ {None}]
    /\ UNCHANGED <<stored, tables, begun, passed>>

WithoutState(s) == [stored EXCEPT ![s] = None]

(* The delete, then the comparison of the providers. *)
DeleteState(r) ==
    /\ In(r, "delete")
    /\ passed' = passed \cup {call[r].state}
    /\ \/ stored' = WithoutState(call[r].state) /\ UNCHANGED excused
       \/ UNCHANGED stored /\ excused' = excused \cup {call[r].state}
    /\ \/ ~call[r].matches /\ Hangup(r)
       \/ call[r].matches /\ Proceed(r, IF call[r].linkUser = None THEN "account" ELSE "identity")
    /\ UNCHANGED <<tables, begun, linked>>

-----------------------------------------------------------------------------
(* loginOrSignup. *)

(* The row with the provider and the account of an identity, if any. *)
RowsOf(i) == {i} \cap {j \in Identity : owner[j] # None}

(* What is read of the user is compared after the next write. *)
Found(r, row, u, pc) ==
    call' = [call EXCEPT ![r] = [@ EXCEPT
        !.pc = pc, !.row = row, !.user = u, !.active = (status[u] = "active")]]

FindAccount(r) ==
    /\ In(r, "account")
    /\ \/ RowsOf(call[r].identity) = {} /\ Proceed(r, "email")
       \/ \E j \in RowsOf(call[r].identity) : Found(r, j, owner[j], "persist")
    /\ UNCHANGED <<stored, tables, stateGhosts, linked>>

(* A user with the same address is merged with. *)
FindUser(r) ==
    /\ In(r, "email")
    /\ LET u == Email[call[r].identity]
       IN  Found(r, None, u, IF status[u] = "absent" THEN "create" ELSE "attach")
    /\ UNCHANGED <<stored, tables, stateGhosts, linked>>

(* Addresses are unique: a user created since makes this fail. *)
CreateUser(r) ==
    /\ In(r, "create")
    /\ status[call[r].user] = "absent"
    /\ status' = [status EXCEPT ![call[r].user] = "active"]
    /\ call' = [call EXCEPT ![r] = [@ EXCEPT !.pc = "attach", !.active = TRUE]]
    /\ UNCHANGED <<stored, owner, stateGhosts, linked>>

(* The two unique indexes of oauth_accounts. *)
Attachable(i, u) ==
    /\ owner[i] = None
    /\ \A j \in Identity : ProviderOf[j] = ProviderOf[i] => owner[j] # u

CreateLinkedAccount(i, u) ==
    /\ Attachable(i, u)
    /\ owner' = [owner EXCEPT ![i] = u]
    /\ OwnersSeen

(* The status is looked at after the row is written. *)
Attach(r) ==
    /\ In(r, "attach")
    /\ CreateLinkedAccount(call[r].identity, call[r].user)
    /\ IF call[r].active THEN Proceed(r, "session") ELSE Hangup(r)
    /\ UNCHANGED <<stored, status, stateGhosts>>

(* The row must still be there. *)
PersistTokens(r) ==
    /\ In(r, "persist")
    /\ owner[call[r].row] = call[r].user
    /\ IF call[r].active THEN Proceed(r, "session") ELSE Hangup(r)
    /\ UNCHANGED <<stored, tables, stateGhosts, linked>>

OpenSession(r) ==
    /\ In(r, "session")
    /\ Hangup(r)
    /\ UNCHANGED <<stored, tables, stateGhosts, linked>>

-----------------------------------------------------------------------------
(* linkAccount. *)

(* Nobody else has the identity. *)
CheckIdentity(r) ==
    /\ In(r, "identity")
    /\ owner[call[r].identity] \in {None, call[r].linkUser}
    /\ Proceed(r, "provider")
    /\ UNCHANGED <<stored, tables, stateGhosts, linked>>

(* The user has none of this provider. *)
CheckProvider(r) ==
    /\ In(r, "provider")
    /\ \A j \in Identity :
          ProviderOf[j] = ProviderOf[call[r].identity] => owner[j] # call[r].linkUser
    /\ Proceed(r, "attachLink")
    /\ UNCHANGED <<stored, tables, stateGhosts, linked>>

Link(r) ==
    /\ In(r, "attachLink")
    /\ CreateLinkedAccount(call[r].identity, call[r].linkUser)
    /\ Hangup(r)
    /\ UNCHANGED <<stored, status, stateGhosts>>

-----------------------------------------------------------------------------
(* unlinkAccount. *)

(* ensureNotLastAuthMethod.  The marker of an unusable password is hashed  *)
(* with it, so every passwordHash passes for a usable password.            *)
HasUsablePassword(u) == status[u] # "absent"
OtherProviders(i) == {j \in Identity : owner[j] = owner[i] /\ ProviderOf[j] # ProviderOf[i]}

FindLinked(r, i) ==
    /\ In(r, "idle")
    /\ owner[i] # None /\ status[owner[i]] = "active"
    /\ HasUsablePassword(owner[i]) \/ OtherProviders(i) # {}
    /\ call' = [call EXCEPT ![r] = [Resting EXCEPT
          !.pc = "unlink", !.identity = i, !.user = owner[i]]]
    /\ linked' = [linked EXCEPT ![r] = {owner[i]}]
    /\ UNCHANGED <<stored, tables, stateGhosts>>

Unlink(r) ==
    /\ In(r, "unlink")
    /\ owner[call[r].identity] = call[r].user
    /\ owner' = [owner EXCEPT ![call[r].identity] = None]
    /\ OwnersSeen
    /\ Hangup(r)
    /\ UNCHANGED <<stored, status, stateGhosts>>

-----------------------------------------------------------------------------
(* The user registers, or is suspended, deleted or restored. *)
SetStatus(u, value) ==
    /\ value # status[u]
    /\ status[u] = "absent" => value = "active"
    /\ status' = [status EXCEPT ![u] = value]
    /\ UNCHANGED <<stored, owner, call, stateGhosts, linked>>

(* A check fails, the provider refuses the code, the request dies. *)
Abandon(r) ==
    /\ ~In(r, "idle")
    /\ Hangup(r)
    /\ UNCHANGED <<stored, tables, stateGhosts, linked>>

CallbackStep(r) ==
    \/ DeleteState(r)
    \/ FindAccount(r) \/ FindUser(r) \/ CreateUser(r) \/ Attach(r) \/ PersistTokens(r)
    \/ OpenSession(r)
    \/ CheckIdentity(r) \/ CheckProvider(r) \/ Link(r)
    \/ Unlink(r)

SocialNext ==
    \/ \E s \in State, provider \in Provider :
          \/ BeginLogin(s, provider)
          \/ \E u \in User : BeginLink(s, provider, u)
    \/ \E s \in State : StateExpires(s)
    \/ \E r \in SocialRequest :
          \/ \E s \in State, i \in Identity : ReadState(r, s, i)
          \/ \E i \in Identity : FindLinked(r, i)
          \/ CallbackStep(r) \/ Abandon(r)
    \/ \E u \in User, value \in {"active", "barred"} : SetStatus(u, value)

SocialSpec == SocialInit /\ [][SocialNext]_socialVars

-----------------------------------------------------------------------------
(* What must hold. *)

SocialTypeOK ==
    /\ stored \in [State -> {None} \cup Data]
    /\ status \in [User -> {"absent", "active", "barred"}]
    /\ owner \in [Identity -> User \cup {None}]
    /\ call \in [SocialRequest -> CallState]
    /\ begun \subseteq State /\ passed \subseteq State /\ excused \subseteq State
    /\ linked \in [SocialRequest -> SUBSET User]

(* A state parameter starts one login or one link: a second callback gets  *)
(* no further than reading it, unless it read before the first deleted it, *)
(* or Redis did not delete it.                                             *)
StateStartsOneFlow ==
    \A r \in SocialRequest :
        In(r, "delete") /\ call[r].state \in passed => call[r].state \in excused

(* A session is opened for the user of the address the provider tells, or  *)
(* for one the identity was linked to while the login was under way:       *)
(* linking, unlinking and signing up beside it cannot make it another's.   *)
SessionsFollowLinks ==
    \A r \in SocialRequest : In(r, "session") =>
        call[r].user \in linked[r] \cup {Email[call[r].identity]}

-----------------------------------------------------------------------------
(* Why: the inductive invariants. *)

(* A state that is still in Redis, or that another callback holds, has not *)
(* been passed without an excuse.                                          *)
StateInv ==
    /\ passed \subseteq begun
    /\ \A s \in State : stored[s] # None => s \in begun
    /\ \A s \in passed : stored[s] # None => s \in excused
    /\ \A r \in SocialRequest : In(r, "delete") =>
          /\ call[r].state \in begun
          /\ call[r].state \in passed => call[r].state \in excused
    /\ \A r, q \in SocialRequest :
          r # q /\ In(r, "delete") /\ In(q, "delete") /\ call[r].state = call[q].state =>
              call[r].state \in excused

(* What a callback has read of the owner of its identity. *)
CallOK(r) ==
    /\ call[r].identity = None => In(r, "idle")
    /\ call[r].identity # None => owner[call[r].identity] \in linked[r] \cup {None}
    /\ In(r, "delete") => call[r].state \in State
    /\ In(r, "persist") => call[r].row = call[r].identity /\ call[r].user \in linked[r]
    /\ call[r].pc \in {"create", "attach"} => call[r].user = Email[call[r].identity]
    /\ call[r].pc \in {"identity", "provider", "attachLink"} => call[r].linkUser \in User
    /\ In(r, "session") => call[r].user \in linked[r] \cup {Email[call[r].identity]}

SocialIInv ==
    /\ SocialTypeOK
    /\ StateInv
    /\ \A r \in SocialRequest : CallOK(r)
=============================================================================
