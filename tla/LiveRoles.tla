----------------------------- MODULE LiveRoles -----------------------------
(***************************************************************************)
(* What the access tokens of an organization promise, with no versions,    *)
(* requests or statements in sight: a grant names exactly the roles its    *)
(* user holds when it is made, as if they had been looked up in one step;  *)
(* it ends at once with any change of its user's membership; and when the  *)
(* end of a role is reported, no grant names that role any more.  Roles    *)
(* may also be given late: then grants go on, and do not name them yet.    *)
(***************************************************************************)
CONSTANTS User, Role

VARIABLES
    members,    \* the users who belong to the organization
    held,       \* held[u], the roles of u
    late,       \* late[u], those of them that a grant need not name
    retired,    \* the roles that have been deleted
    gone,       \* those whose deletion has been reported
    grants      \* the grants that are honoured

vars == <<members, held, late, retired, gone, grants>>

Init ==
    /\ members \subseteq User
    /\ held \in [User -> SUBSET Role]
    /\ late = [u \in User |-> {}]
    /\ retired = {} /\ gone = {} /\ grants = {}

Without(us) == {g \in grants : g.user \notin us}

Grant(u, rs) ==
    /\ u \in members
    /\ rs \subseteq held[u] \ retired
    /\ held[u] \ (retired \cup late[u]) \subseteq rs
    /\ grants' = grants \cup {[user |-> u, roles |-> rs]}
    /\ UNCHANGED <<members, held, late, retired, gone>>

(* u comes, leaves, gets or loses roles, or attributes. *)
Rewrite(u, rs, belongs) ==
    /\ held' = [held EXCEPT ![u] = rs]
    /\ late' \in {late, [late EXCEPT ![u] = {}]}
    /\ members' = IF belongs THEN members \cup {u} ELSE members \ {u}
    /\ grants' = Without({u})
    /\ UNCHANGED <<retired, gone>>

(* u gets roles, and perhaps comes with them, and the grants of u go on. *)
GiveLate(u, rs) ==
    /\ held' = [held EXCEPT ![u] = @ \cup rs]
    /\ late' = [late EXCEPT ![u] = @ \cup (rs \ held[u])]
    /\ members' \in {members, members \cup {u}}
    /\ UNCHANGED <<retired, gone, grants>>

Retire(ro) ==
    /\ retired' = retired \cup {ro}
    /\ UNCHANGED <<members, held, late, gone, grants>>

(* Before its deletion is reported, a role may still be named; with the    *)
(* report the grants of these users end, of all who have one that names it.*)
Report(ro, us) ==
    /\ ro \in retired
    /\ gone' = gone \cup {ro}
    /\ \A g \in grants : ro \in g.roles => g.user \in us
    /\ grants' = Without(us)
    /\ late' = [u \in User |-> IF u \in us THEN {} ELSE late[u]]
    /\ UNCHANGED <<members, held, retired>>

Next ==
    \/ \E u \in User, rs \in SUBSET Role : Grant(u, rs) \/ GiveLate(u, rs)
    \/ \E u \in User, rs \in SUBSET Role, belongs \in BOOLEAN : Rewrite(u, rs, belongs)
    \/ \E ro \in Role : Retire(ro)
    \/ \E ro \in Role, us \in SUBSET User : Report(ro, us)

Spec == Init /\ [][Next]_vars
=============================================================================
