--------------------------- MODULE PermissionCache ---------------------------
(***************************************************************************)
(* What the roles of a member permit, and the copy of it in Redis:         *)
(* RoleService, PermissionService and CacheService, for the memberships of *)
(* one organization, which the role routes of the others reach too.        *)
(*                                                                         *)
(* A writer changes the rows, then increments the versions of the          *)
(* memberships concerned, then deletes their cache entries, and looks up   *)
(* who they are before each.  Meanwhile readers load what they did not     *)
(* find in the cache and store it.  CacheService swallows the failure of a *)
(* Redis command: a get finds nothing, a set or a delete is lost.          *)
(*                                                                         *)
(* The versions of a membership matter only as far as they differ from     *)
(* those of an access token: "current" has the users who hold a token with *)
(* the versions of their row.  A check that a row exists, where the row    *)
(* may be gone when it is written, is part of the write.                   *)
(***************************************************************************)
EXTENDS Naturals, FiniteSets

CONSTANTS
    User,           \* each with a membership, or to have one
    Role,           \* what a member may come to hold, wherever it was created
    SystemRole,     \* the roles with isSystem set
    Permission,
    Request,        \* requests that can be in flight at once
    None

Entry == [value : SUBSET Permission, expires : BOOLEAN]

ASSUME CacheAssumption ==
    /\ SystemRole \subseteq Role
    /\ None \notin User \cup Role \cup Permission
    /\ \A ps \in SUBSET Permission : ps # None
    /\ \A entry \in Entry : entry # None

VARIABLES
    permissions,    \* the rows of permissions
    roles,          \* the rows of roles without deletedAt
    grants,         \* grants[ro], the rows of role_permissions; None without a role
    held,           \* held[u], the rows of user_roles
    removed,        \* the users with no membership, or one with deletedAt set
    current,        \* the users with an access token of the current versions
    cache,          \* cache[u], the entry of u
    req,            \* req[r], what request r has read and where it stands
    unaware,        \* ghost: users in current whose permissions changed since
    excused         \* ghost: users whose entry an accident may have left stale

rowVars == <<permissions, roles, grants, held, removed>>
vars == <<rowVars, current, cache, req, unaware, excused>>

PC == {"idle", "delete", "findMembers", "bump", "findHolders", "invalidate", "load", "store"}

Idle == [pc |-> "idle", user |-> None, role |-> None, permission |-> None,
         found |-> {}, value |-> {}]

RequestState ==
    [pc : PC, user : User \cup {None}, role : Role \cup {None},
     permission : Permission \cup {None}, found : SUBSET User, value : SUBSET Permission]

TypeOK ==
    /\ permissions \subseteq Permission
    /\ grants \in [Role -> {None} \cup SUBSET Permission]
    /\ roles \subseteq {ro \in Role : grants[ro] # None}
    /\ held \in [User -> SUBSET {ro \in Role : grants[ro] # None}]
    /\ removed \subseteq User
    /\ current \subseteq User
    /\ cache \in [User -> {None} \cup Entry]
    /\ req \in [Request -> RequestState]
    /\ \A r \in Request : req[r].pc \in {"load", "store"} => req[r].user \in User
    /\ unaware \subseteq current
    /\ excused \subseteq User

(* The seed has run; nobody is a member yet. *)
Init ==
    /\ permissions = Permission
    /\ roles = SystemRole
    /\ \E seeded \in [SystemRole -> SUBSET Permission] :
          grants = [ro \in Role |-> IF ro \in SystemRole THEN seeded[ro] ELSE None]
    /\ held = [u \in User |-> {}]
    /\ removed = User
    /\ current = {}
    /\ cache = [u \in User |-> None]
    /\ req = [r \in Request |-> Idle]
    /\ unaware = {} /\ excused = {}

At(r, pc) == req[r].pc = pc
Leave(r) == req' = [req EXCEPT ![r] = Idle]
Created(ro) == grants[ro] # None
Cached(u) == cache[u] # None

(* What the roles of u permit: the query of resolveForMembership. *)
Permits(u) == UNION {grants[ro] : ro \in held[u] \cap roles}
Changed == {u \in User : Permits(u)' # Permits(u)}

(* A change is news to the holders of a token until it outdates the token. *)
Observe == unaware' = (unaware \cup Changed) \cap current'

-----------------------------------------------------------------------------
(* Mutants.  The holders are those of roles that are not deleted; the      *)
(* entry stays when a role is revoked; it is stored without a lifetime.    *)

Holders_Live(ro) == {u \in User \ removed : ro \in held[u] \cap roles}
Outdated_Nobody(u, own) == {}
Stored_ForEver(value) == [value |-> value, expires |-> FALSE]

-----------------------------------------------------------------------------
(* CacheService. *)

(* get finds nothing: there is no entry, or Redis fails. *)
GetMisses(u, up) == up => ~Cached(u)

Stored(value) == [value |-> value, expires |-> TRUE]

SetEntry(u, value, up) ==
    /\ cache' = IF up THEN [cache EXCEPT ![u] = Stored(value)] ELSE cache
    /\ excused' = IF up THEN (excused \ {u}) \cup {v \in {u} : value # Permits(v)}
                         ELSE excused

DeleteEntries(us, up) ==
    /\ cache' = IF up THEN [u \in User |-> IF u \in us THEN None ELSE cache[u]] ELSE cache
    /\ excused' = IF up THEN excused \ us ELSE excused \cup {u \in us : Cached(u)}

(* The lifetime of an entry ends. *)
Expire(u) ==
    /\ Cached(u) /\ cache[u].expires
    /\ cache' = [cache EXCEPT ![u] = None]
    /\ excused' = excused \ {u}
    /\ UNCHANGED <<rowVars, current, req, unaware>>

-----------------------------------------------------------------------------
(* Permissions. *)

CreatePermission(p) ==
    /\ permissions' = permissions \cup {p}
    /\ UNCHANGED <<roles, grants, held, removed, current, cache, req, unaware, excused>>

CountUsage(r, p) ==
    /\ At(r, "idle")
    /\ p \in permissions
    /\ \A ro \in Role : Created(ro) => p \notin grants[ro]
    /\ req' = [req EXCEPT ![r] = [Idle EXCEPT !.pc = "delete", !.permission = p]]
    /\ UNCHANGED <<rowVars, current, cache, unaware, excused>>

(* The database takes the permission from the roles that got it meanwhile; *)
(* neither versions nor entries follow.                                    *)
RemovePermission(r) ==
    /\ At(r, "delete")
    /\ req[r].permission \in permissions
    /\ permissions' = permissions \ {req[r].permission}
    /\ grants' = [ro \in Role |->
                     IF Created(ro) THEN grants[ro] \ {req[r].permission} ELSE None]
    /\ Leave(r)
    /\ UNCHANGED <<roles, held, removed, current, cache, unaware>>
    /\ excused' = excused \cup {u \in Changed : Cached(u)}

-----------------------------------------------------------------------------
(* Roles.  A permission that is not there aborts the transaction. *)

CreateRole(ro, ps) ==
    /\ ~Created(ro)
    /\ ps \subseteq permissions
    /\ roles' = roles \cup {ro}
    /\ grants' = [grants EXCEPT ![ro] = ps]
    /\ UNCHANGED <<permissions, held, removed, current, cache, req, unaware, excused>>

(* What remove and setPermissions do next, for role ro. *)
Announce(r, ro) == req' = [req EXCEPT ![r] = [Idle EXCEPT !.pc = "findMembers", !.role = ro]]

SetPermissions(r, ro, ps) ==
    /\ At(r, "idle")
    /\ Created(ro)
    /\ ps \subseteq permissions
    /\ grants' = [grants EXCEPT ![ro] = ps]
    /\ Announce(r, ro)
    /\ UNCHANGED <<permissions, roles, held, removed, current, cache, excused>>
    /\ Observe

RemoveRole(r, ro) ==
    /\ At(r, "idle")
    /\ Created(ro) /\ ro \notin SystemRole
    /\ roles' = roles \ {ro}
    /\ Announce(r, ro)
    /\ UNCHANGED <<permissions, grants, held, removed, current, cache, excused>>
    /\ Observe

(* bumpPermissionsVersionForRole, invalidateForRole. *)
Holders(ro) == {u \in User \ removed : ro \in held[u]}

FindMembers(r) ==
    /\ At(r, "findMembers")
    /\ req' = [req EXCEPT ![r] = [@ EXCEPT !.pc = "bump", !.found = Holders(req[r].role)]]
    /\ UNCHANGED <<rowVars, current, cache, unaware, excused>>

BumpVersions(r) ==
    /\ At(r, "bump")
    /\ current' = current \ req[r].found
    /\ req' = [req EXCEPT ![r] = [@ EXCEPT !.pc = "findHolders", !.found = {}]]
    /\ UNCHANGED <<rowVars, cache, excused>>
    /\ Observe

FindHolders(r) ==
    /\ At(r, "findHolders")
    /\ req' = [req EXCEPT ![r] = [@ EXCEPT !.pc = "invalidate", !.found = Holders(req[r].role)]]
    /\ UNCHANGED <<rowVars, current, cache, unaware, excused>>

Invalidate(r) ==
    /\ At(r, "invalidate")
    /\ \E up \in BOOLEAN : DeleteEntries(req[r].found, up)
    /\ Leave(r)
    /\ UNCHANGED <<rowVars, current, unaware>>

(* The entry that assignToMembership and revokeFromMembership delete: that *)
(* of the user in the organization of the route.  Nobody asks whether the  *)
(* membership is of this organization; own says that it is.                *)
Outdated(u, own) == IF own THEN {u} ELSE {}

(* The version changes in the transaction, the entry is deleted after it.  *)
Reassign(r, u, ros, own) ==
    /\ At(r, "idle")
    /\ held' = [held EXCEPT ![u] = ros]
    /\ current' = current \ {u}
    /\ req' = [req EXCEPT ![r] = [Idle EXCEPT !.pc = "invalidate", !.found = Outdated(u, own)]]
    /\ excused' = IF own THEN excused ELSE excused \cup {v \in {u} : Cached(v)}
    /\ UNCHANGED <<permissions, roles, grants, removed, cache>>
    /\ Observe

(* A role of another organization than the route's is refused; whose the   *)
(* roles are that are not system roles is left open here.                  *)
AssignToMembership(r, u, ro, own) == Created(ro) /\ Reassign(r, u, held[u] \cup {ro}, own)
RevokeFromMembership(r, u, ro, own) == Reassign(r, u, held[u] \ {ro}, own)

(* Through a route of this organization u gets or loses a role elsewhere.  *)
ReassignElsewhere(r, u) ==
    /\ At(r, "idle")
    /\ req' = [req EXCEPT ![r] = [Idle EXCEPT !.pc = "invalidate", !.found = {u}]]
    /\ UNCHANGED <<rowVars, current, cache, unaware, excused>>

-----------------------------------------------------------------------------
(* Members. *)

RemoveMember(u) ==
    /\ removed' = removed \cup {u}
    /\ UNCHANGED <<permissions, roles, grants, held, current, cache, req, unaware, excused>>

(* An invitation is accepted, with the role it offers or none.  The        *)
(* versions change with the row; the entry of a former life stays.         *)
Accept(u, offered) ==
    /\ Cardinality(offered) <= 1
    /\ \A ro \in offered : Created(ro)
    /\ removed' = removed \ {u}
    /\ held' = [held EXCEPT ![u] = @ \cup offered]
    /\ current' = current \ {u}
    /\ excused' = excused \cup {v \in {u} : Cached(v)}
    /\ UNCHANGED <<permissions, roles, grants, cache, req>>
    /\ Observe

(* JIT provisioning adds roles to a row; neither versions nor entries      *)
(* follow.  It creates the row, but does not bring a removed one back: one *)
(* that is removed and has no roles is taken for none.                     *)
Provision(u, ros) ==
    /\ \A ro \in ros : Created(ro)
    /\ held' = [held EXCEPT ![u] = @ \cup ros]
    /\ UNCHANGED <<permissions, roles, grants, cache, req>>
    /\ \/ /\ excused' = excused \cup {v \in Changed : Cached(v)}
          /\ UNCHANGED <<removed, current, unaware>>
       \/ /\ u \in removed /\ held[u] = {}
          /\ removed' = removed \ {u}
          /\ excused' = excused \cup {v \in {u} : Cached(v)}
          /\ current' = current \ {u}
          /\ unaware' = unaware \ {u}

(* A login or a refresh signs a token. *)
IssueToken(u) ==
    /\ u \notin removed
    /\ current' = current \cup {u}
    /\ unaware' = unaware \ {u}
    /\ UNCHANGED <<rowVars, cache, req, excused>>

-----------------------------------------------------------------------------
(* Readers: getOrSet in resolveForMembership. *)

Miss(r, u) ==
    /\ At(r, "idle")
    /\ \E up \in BOOLEAN : GetMisses(u, up)
    /\ req' = [req EXCEPT ![r] = [Idle EXCEPT !.pc = "load", !.user = u]]
    /\ UNCHANGED <<rowVars, current, cache, unaware, excused>>

Load(r) ==
    /\ At(r, "load")
    /\ req' = [req EXCEPT ![r] = [@ EXCEPT !.pc = "store", !.value = Permits(req[r].user)]]
    /\ UNCHANGED <<rowVars, current, cache, unaware, excused>>

Store(r) ==
    /\ At(r, "store")
    /\ \E up \in BOOLEAN : SetEntry(req[r].user, req[r].value, up)
    /\ Leave(r)
    /\ UNCHANGED <<rowVars, current, unaware>>

-----------------------------------------------------------------------------
(* The users whose version, or entry, request r is about to see to. *)
WillBump(r) ==
    {u \in User : \/ At(r, "findMembers") /\ u \in Holders(req[r].role)
                  \/ At(r, "bump") /\ u \in req[r].found}

WillDelete(r) ==
    {u \in User : \/ /\ req[r].pc \in {"findMembers", "bump", "findHolders"}
                     /\ u \in Holders(req[r].role)
                  \/ At(r, "invalidate") /\ u \in req[r].found}

(* A crash, or an error of the database; the changes made stay. *)
Die(r) ==
    /\ ~At(r, "idle")
    /\ Leave(r)
    /\ unaware' = unaware \ WillBump(r)
    /\ excused' = excused \cup {u \in WillDelete(r) : Cached(u)}
    /\ UNCHANGED <<rowVars, current, cache>>

Step(r) ==
    \/ FindMembers(r) \/ BumpVersions(r) \/ FindHolders(r) \/ Invalidate(r)
    \/ Load(r) \/ Store(r) \/ RemovePermission(r)

RequestArrives(r) ==
    \/ \E p \in Permission : CountUsage(r, p)
    \/ \E ro \in Role, ps \in SUBSET Permission : SetPermissions(r, ro, ps)
    \/ \E ro \in Role : RemoveRole(r, ro)
    \/ \E u \in User, ro \in Role, own \in BOOLEAN :
          AssignToMembership(r, u, ro, own) \/ RevokeFromMembership(r, u, ro, own)
    \/ \E u \in User : ReassignElsewhere(r, u) \/ Miss(r, u)

Write ==
    \/ \E p \in Permission : CreatePermission(p)
    \/ \E ro \in Role, ps \in SUBSET Permission : CreateRole(ro, ps)
    \/ \E u \in User : RemoveMember(u) \/ IssueToken(u) \/ Expire(u)
    \/ \E u \in User, ros \in SUBSET Role : Accept(u, ros) \/ Provision(u, ros)

Next ==
    \/ \E r \in Request : RequestArrives(r) \/ Step(r) \/ Die(r)
    \/ Write

Spec == Init /\ [][Next]_vars

(* A request goes on; the lifetime of an entry passes. *)
FairSpec ==
    /\ Spec
    /\ \A r \in Request : WF_vars(Step(r))
    /\ \A u \in User : WF_vars(Expire(u))

-----------------------------------------------------------------------------
(* What must hold. *)

(* The entry of a member that differs from the rows is about to be deleted *)
(* by the request that changed them, unless there was an accident: it was  *)
(* loaded before the change and stored after it, a request died or Redis   *)
(* lost a command, a permission was removed while a role got it, single    *)
(* sign-on gave roles, the member is back after a removal, or a role was   *)
(* given or taken through the route of another organization.               *)
Stale(u) == Cached(u) /\ cache[u].value # Permits(u)

StaleOnlyIfRaced ==
    \A u \in User \ removed :
        Stale(u) => u \in excused \/ \E r \in Request : u \in WillDelete(r)

(* A member whose permissions have changed, other than by the silent       *)
(* writes RemovePermission and Provision, has no access token that still   *)
(* passes, unless the request that changed them is about to increment the  *)
(* version: holders are looked up after the change, in another statement.  *)
ChangesOutdateTokens ==
    unaware \ removed \subseteq UNION {WillBump(r) : r \in Request}

IInv == TypeOK /\ StaleOnlyIfRaced /\ ChangesOutdateTokens

(* While the rows stay, nothing stale is loaded any more: an entry becomes *)
(* stale only by using up a copy that was loaded before they changed, and  *)
(* every entry has a lifetime.                                             *)
Late(u) == {r \in Request : At(r, "store") /\ req[r].user = u /\ req[r].value # Permits(u)}

RunsOut(u) ==
    /\ Late(u)' \subseteq Late(u)
    /\ Stale(u)' => Stale(u) \/ Late(u)' # Late(u)
    /\ Cached(u)' => Cached(u) \/ cache'[u].expires

StalenessRunsOut == [][UNCHANGED rowVars => \A u \in User : RunsOut(u)]_vars

(* Once the rows stay as they are, the cache is right for good, whatever   *)
(* was lost or stored late.                                                *)
ChangesTakeEffect == <>[][FALSE]_rowVars => \A u \in User : <>[]~Stale(u)
=============================================================================
