---------------------------- MODULE MCMemberships ----------------------------
(* Memberships on small instances.  A behaviour follows one of two scenes, *)
(* so that each has the bounds it needs in one run: the tokens of one user, *)
(* or two users who may both be administrators, one of them twice over,    *)
(* and the removals of them.                                               *)
EXTENDS Memberships, TLC

CONSTANTS u1, u2

VARIABLE scene

(* The administrator's role is neither offered nor provisioned here. *)
OneMember ==
    /\ status[u2] = None
    /\ Admin \notin unannounced[u1]
    /\ \A i \in Invitation : invitation[i] # None => invitation[i].role # Admin

RemovalsOnly ==
    /\ \A u \in User : permissionsVersion[u] <= 2 /\ attributesVersion[u] <= 2
    /\ roles[u2] \subseteq {Admin} /\ \A u \in User : unannounced[u] = {}
    /\ \A r \in Request : req[r].pc \in {"idle", "accept", "isAdmin", "remove", "findHolders"}
    /\ \A i \in Invitation : invitation[i] # None => invitation[i].role = None

InScene == IF scene = "tokens" THEN OneMember ELSE RemovalsOnly

MCInit == Init /\ status[u2] = None /\ scene \in {"tokens", "removals"}
MCNext == Next /\ UNCHANGED scene /\ InScene'
MCSpec == MCInit /\ [][MCNext]_<<vars, scene>>

Symmetry == Permutations(Request)
=============================================================================
