-------------------------- MODULE SessionLifecycle --------------------------
(***************************************************************************)
(* What sessions promise their users, with no requests, refresh tokens or  *)
(* database steps in sight: a session is opened once, for one user, ends   *)
(* at most once and for good, by its owner's will or by age; access tokens *)
(* are granted to the owner of an opened session and to nobody else; and   *)
(* the token version of a user only grows, in single steps, with no token  *)
(* granted ahead of it.                                                    *)
(***************************************************************************)
EXTENDS Naturals

CONSTANTS User, Session, None

VARIABLES
    holder,     \* holder[s] is the user session s was opened for, or None
    over,       \* the sessions that have ended
    current,    \* current[u] is the token version of u
    granted     \* the access tokens granted so far

vars == <<holder, over, current, granted>>

Init ==
    /\ holder = [s \in Session |-> None]
    /\ over = {}
    /\ current = [u \in User |-> 0]
    /\ granted = {}

Open(u, s) ==
    /\ holder[s] = None
    /\ holder' = [holder EXCEPT ![s] = u]
    /\ UNCHANGED <<over, current, granted>>

(* u ends some of its sessions at once. *)
End(u, S) ==
    /\ \A s \in S : holder[s] = u
    /\ over' = over \cup S
    /\ UNCHANGED <<holder, current, granted>>

Age(s) ==
    /\ holder[s] # None
    /\ over' = over \cup {s}
    /\ UNCHANGED <<holder, current, granted>>

Outdate(u) ==
    /\ current' = [current EXCEPT ![u] = @ + 1]
    /\ UNCHANGED <<holder, over, granted>>

(* A session that ends while a token of it is being granted may still be   *)
(* named by the grant, and the version may be an old one: such a token is  *)
(* dead from the start.                                                    *)
Grant(u, s, v) ==
    /\ holder[s] = u
    /\ v <= current[u]
    /\ granted' = granted \cup {[user |-> u, session |-> s, version |-> v]}
    /\ UNCHANGED <<holder, over, current>>

Next ==
    \/ \E u \in User, s \in Session : Open(u, s)
    \/ \E u \in User, S \in SUBSET Session : End(u, S)
    \/ \E s \in Session : Age(s)
    \/ \E u \in User : Outdate(u)
    \/ \E u \in User, s \in Session : \E v \in 0 .. current[u] : Grant(u, s, v)

Spec == Init /\ [][Next]_vars
=============================================================================
