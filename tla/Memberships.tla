---------------------------- MODULE Memberships ----------------------------
(***************************************************************************)
(* Who belongs to an organization, with which roles, and which access      *)
(* tokens still say so: MembershipService, InvitationService, RoleService  *)
(* and the membership check of JwtStrategy, for one active organization.   *)
(*                                                                         *)
(* A token carries the roles and the two version numbers of a membership;  *)
(* it passes while the numbers are those of the row.  Requests read and    *)
(* write in separate statements; a transaction that only writes is one.    *)
(* Where a write is preceded only by a check that the row exists, or may   *)
(* be written, the check may be stale when the row is written: such a      *)
(* request is one step, whose guard is what the check leaves true for ever.*)
(*                                                                         *)
(* Of the statuses of a membership the code tells ACTIVE from the rest.    *)
(* What a role permits, and its cache, are not modelled here.              *)
(***************************************************************************)
EXTENDS Naturals, FiniteSets

CONSTANTS
    User,
    Role,
    Admin,          \* the system role whose slug is admin
    AdminRole,      \* the roles whose slug is admin: Admin, and those that
                    \* organizations create beside it
    Invitation,     \* ids a row of organization_invitations can get
    Request,        \* requests that can be in flight at once
    None,
    MaxPermissions, \* bound: permissionsVersion
    MaxAttributes,  \* bound: attributesVersion
    MaxTokens       \* bound: tokens signed

ASSUME MembershipAssumption ==
    /\ Admin \in AdminRole /\ AdminRole \subseteq Role
    /\ None \notin User \cup Role \cup Invitation \cup {"active", "inactive"}

VARIABLES
    status,         \* status[u], None without a row of memberships
    deleted,        \* the users whose membership has deletedAt set
    roles,          \* roles[u], the rows of user_roles
    permissionsVersion, attributesVersion,
    unannounced,    \* ghost: unannounced[u], the roles that single sign-on has
                    \* given u since its permissionsVersion was incremented
    deletedRoles,   \* the roles with deletedAt set
    invitation,     \* invitation[i], the user and the role while it is pending
    tokens,         \* the access tokens signed
    req,            \* req[r], what request r has read and where it stands
    reported,       \* ghost: roles whose deletion has been reported
    steady          \* ghost: requests that counted the present rows

versionVars == <<permissionsVersion, attributesVersion>>
memberVars == <<status, deleted, roles, versionVars, unannounced>>
tokenVars == <<tokens, deletedRoles, reported>>
vars == <<memberVars, invitation, tokenVars, req, steady>>

Token == [user : User, roles : SUBSET Role, pv : Nat, av : Nat]

PC == {"idle", "accept", "isAdmin", "remove", "findHolders", "bump",
       "readRoles", "sign"}

Idle == [pc |-> "idle", user |-> None, role |-> None, inv |-> None,
         pv |-> 0, av |-> 0, found |-> {}, names |-> {}]

RequestState ==
    [pc : PC, user : User \cup {None}, role : Role \cup {None},
     inv : Invitation \cup {None}, pv : Nat, av : Nat, found : SUBSET User,
     names : SUBSET Role]

TypeOK ==
    /\ status \in [User -> {"active", "inactive", None}]
    /\ deleted \subseteq User
    /\ roles \in [User -> SUBSET Role]
    /\ permissionsVersion \in [User -> Nat]
    /\ attributesVersion \in [User -> Nat]
    /\ unannounced \in [User -> SUBSET Role]
    /\ deletedRoles \subseteq Role
    /\ invitation \in [Invitation -> [user : User, role : Role \cup {None}] \cup {None}]
    /\ tokens \subseteq Token
    /\ req \in [Request -> RequestState]
    /\ reported \subseteq Role
    /\ steady \subseteq Request

(* The creator of the organization is its first administrator. *)
Init ==
    /\ \E creator \in User :
          /\ status = [u \in User |-> IF u = creator THEN "active" ELSE None]
          /\ roles = [u \in User |-> IF u = creator THEN {Admin} ELSE {}]
    /\ deleted = {}
    /\ permissionsVersion = [u \in User |-> 1]
    /\ attributesVersion = [u \in User |-> 1]
    /\ unannounced = [u \in User |-> {}]
    /\ deletedRoles = {}
    /\ invitation = [i \in Invitation |-> None]
    /\ tokens = {}
    /\ req = [r \in Request |-> Idle]
    /\ reported = {}
    /\ steady = {}

At(r, pc) == req[r].pc = pc
Goto(r, pc) == req' = [req EXCEPT ![r].pc = pc]
Leave(r) == req' = [req EXCEPT ![r] = Idle]
Member(u) == status[u] # None /\ u \notin deleted

(* The rows of user_roles that ensureNotLastAdmin counts, and whose they   *)
(* are.  A role of this slug that an organization creates counts too,      *)
(* whatever it permits, and a user who has two of them counts twice.       *)
AdminRows ==
    {row \in User \X AdminRole :
        /\ status[row[1]] = "active" /\ Member(row[1])
        /\ row[2] \in roles[row[1]] \ deletedRoles}
Admins == {row[1] : row \in AdminRows}

(* A request is steady while the rows are those it counted. *)
Observe == steady' = {r \in steady : AdminRows' = AdminRows /\ req'[r] # Idle}

(* A version that is incremented announces the roles there are. *)
Announce ==
    unannounced' = [u \in User |-> IF permissionsVersion'[u] = permissionsVersion[u]
                                    THEN unannounced[u] ELSE {}]

-----------------------------------------------------------------------------
(* Mutants.  Revoking a role, or accepting a new invitation, does not      *)
(* increment the version; any removal passes while there is an             *)
(* administrator; only active members hold a role; a token is signed with  *)
(* the version there is when it is signed.                                 *)

RevokedVersion_Same(u) == permissionsVersion
AcceptedVersion_Same(u) == attributesVersion
EnoughAdmins_One == Cardinality(AdminRows) >= 1
Holders_Active(ro) == {u \in User : ro \in roles[u] /\ Member(u) /\ status[u] = "active"}
Signed_ReadLast(r) == [user |-> req[r].user, roles |-> req[r].names \ deletedRoles,
                       pv |-> permissionsVersion[req[r].user], av |-> req[r].av]

-----------------------------------------------------------------------------
(* Which versions a write of the rows of these users increments. *)
Bump(versions, us) == [u \in User |-> versions[u] + IF u \in us THEN 1 ELSE 0]

(* The bounds on versions. *)
PermissionsRoom(us) == \A u \in us : permissionsVersion[u] < MaxPermissions
AttributesRoom(us) == \A u \in us : attributesVersion[u] < MaxAttributes

(* Invitations. *)

(* A row that is no longer pending matters to nobody; its id can stand for *)
(* another when no request holds it.  One past its expiresAt is a row that *)
(* nobody accepts: the transaction that would store EXPIRED rolls back.    *)
Invite(i, u, ro) ==
    /\ invitation[i] = None
    /\ \A r \in Request : req[r].inv # i
    /\ ro # None => ro \notin deletedRoles
    /\ invitation' = [invitation EXCEPT ![i] = [user |-> u, role |-> ro]]
    /\ UNCHANGED <<memberVars, tokenVars, req, steady>>

ReadInvitation(r, i) ==
    /\ At(r, "idle")
    /\ invitation[i] # None
    /\ req' = [req EXCEPT ![r] = [Idle EXCEPT !.pc = "accept", !.inv = i,
                  !.user = invitation[i].user, !.role = invitation[i].role]]
    /\ UNCHANGED <<memberVars, invitation, tokenVars, steady>>

Returning(u) == IF status[u] = None THEN {} ELSE {u}
AcceptedVersion(u) == Bump(attributesVersion, Returning(u))

(* A membership that was removed comes back with the roles it had. *)
Accept(r) ==
    /\ At(r, "accept")
    /\ LET u == req[r].user
           offered == {req[r].role} \ {None}
           promoted == IF offered = {} THEN {} ELSE {u}
       IN  /\ PermissionsRoom(promoted) /\ AttributesRoom(Returning(u))
           /\ status' = [status EXCEPT ![u] = "active"]
           /\ deleted' = deleted \ {u}
           /\ attributesVersion' = AcceptedVersion(u)
           /\ roles' = [roles EXCEPT ![u] = @ \cup offered]
           /\ permissionsVersion' = Bump(permissionsVersion, promoted)
    /\ invitation' = [invitation EXCEPT ![req[r].inv] = None]
    /\ Leave(r)
    /\ UNCHANGED tokenVars
    /\ Announce /\ Observe

RevokeInvitation(i) ==
    /\ invitation' = [invitation EXCEPT ![i] = None]
    /\ UNCHANGED <<memberVars, tokenVars, req, steady>>

-----------------------------------------------------------------------------
(* Members. *)

(* The member was found before, and may be gone.  s is the new status,     *)
(* None to keep it; the version follows attributes, not the status.        *)
UpdateAttributes(u, s, attributeChanged) ==
    /\ status[u] # None
    /\ attributeChanged => AttributesRoom({u})
    /\ status' = [status EXCEPT ![u] = IF s = None THEN @ ELSE s]
    /\ attributesVersion' =
          Bump(attributesVersion, IF attributeChanged THEN {u} ELSE {})
    /\ UNCHANGED <<deleted, roles, permissionsVersion, unannounced, invitation, tokenVars, req>>
    /\ Observe

EnoughAdmins == Cardinality(AdminRows) > 1

(* ensureNotLastAdmin: the count, and the look at the member if it is low, *)
(* which takes a deleted role for one too.                                 *)
CountAdmins(r, u) ==
    /\ At(r, "idle")
    /\ status[u] # None
    /\ req' = [req EXCEPT ![r] = [Idle EXCEPT !.user = u,
                  !.pc = IF EnoughAdmins THEN "remove" ELSE "isAdmin"]]
    /\ steady' = steady \cup {r}
    /\ UNCHANGED <<memberVars, invitation, tokenVars>>

CheckMember(r) ==
    /\ At(r, "isAdmin")
    /\ \/ roles[req[r].user] \cap AdminRole # {} /\ Leave(r)
       \/ roles[req[r].user] \cap AdminRole = {} /\ Goto(r, "remove")
    /\ UNCHANGED <<memberVars, invitation, tokenVars>>
    /\ Observe

Remove(r) ==
    /\ At(r, "remove")
    /\ status' = [status EXCEPT ![req[r].user] = "inactive"]
    /\ deleted' = deleted \cup {req[r].user}
    /\ Leave(r)
    /\ UNCHANGED <<roles, versionVars, unannounced, invitation, tokenVars>>
    /\ Observe

-----------------------------------------------------------------------------
(* Roles. *)

(* The role was found before, and may be deleted. *)
AssignToMembership(u, ro) ==
    /\ status[u] # None
    /\ PermissionsRoom({u})
    /\ roles' = [roles EXCEPT ![u] = @ \cup {ro}]
    /\ permissionsVersion' = Bump(permissionsVersion, {u})
    /\ UNCHANGED <<status, deleted, attributesVersion, invitation, tokenVars, req>>
    /\ Announce /\ Observe

RevokedVersion(u) == Bump(permissionsVersion, {u})

RevokeFromMembership(u, ro) ==
    /\ status[u] # None
    /\ PermissionsRoom({u})
    /\ roles' = [roles EXCEPT ![u] = @ \ {ro}]
    /\ permissionsVersion' = RevokedVersion(u)
    /\ UNCHANGED <<status, deleted, attributesVersion, invitation, tokenVars, req>>
    /\ Announce /\ Observe

(* JIT provisioning, the transaction of a single sign-on login: the row is *)
(* made ACTIVE, or created, and the roles of the default and of the groups *)
(* are added, and no version is incremented.  deletedAt stays; the roles   *)
(* were found before, and may be deleted.                                  *)
Provision(u, ros) ==
    /\ status' = [status EXCEPT ![u] = "active"]
    /\ roles' = [roles EXCEPT ![u] = @ \cup ros]
    /\ unannounced' = [unannounced EXCEPT ![u] = @ \cup (ros \ roles[u])]
    /\ UNCHANGED <<deleted, versionVars, invitation, tokenVars, req>>
    /\ Observe

(* System roles cannot be deleted; Admin is the one followed here.  The    *)
(* role was found before, and may have been deleted since.                 *)
DeleteRole(r, ro) ==
    /\ At(r, "idle")
    /\ ro # Admin
    /\ deletedRoles' = deletedRoles \cup {ro}
    /\ req' = [req EXCEPT ![r] = [Idle EXCEPT !.pc = "findHolders", !.role = ro]]
    /\ UNCHANGED <<memberVars, invitation, tokens, reported>>
    /\ Observe

Holders(ro) == {u \in User : ro \in roles[u] /\ Member(u)}

FindHolders(r) ==
    /\ At(r, "findHolders")
    /\ req' = [req EXCEPT ![r] = [@ EXCEPT !.pc = "bump",
                                             !.found = Holders(req[r].role)]]
    /\ UNCHANGED <<memberVars, invitation, tokenVars, steady>>

BumpHolders(r) ==
    /\ At(r, "bump")
    /\ PermissionsRoom(req[r].found)
    /\ permissionsVersion' = Bump(permissionsVersion, req[r].found)
    /\ reported' = reported \cup {req[r].role}
    /\ Leave(r)
    /\ Announce
    /\ UNCHANGED <<status, deleted, roles, attributesVersion, invitation,
                   tokens, deletedRoles, steady>>

-----------------------------------------------------------------------------
(* Tokens. *)

(* The bound on tokens: those signed and those about to be. *)
MayIssue ==
    Cardinality(tokens) + Cardinality({r \in Request : req[r].pc \in {"readRoles", "sign"}})
        < MaxTokens

(* resolveForOrganization and resolveDefault: the row of memberships, its  *)
(* user_roles and the rows of these roles are read in three statements.    *)
ReadMembership(r, u) ==
    /\ At(r, "idle")
    /\ MayIssue
    /\ Member(u) /\ status[u] = "active"
    /\ req' = [req EXCEPT ![r] = [Idle EXCEPT !.pc = "readRoles", !.user = u,
                 !.pv = permissionsVersion[u], !.av = attributesVersion[u]]]
    /\ UNCHANGED <<memberVars, invitation, tokenVars, steady>>

ReadUserRoles(r) ==
    /\ At(r, "readRoles")
    /\ req' = [req EXCEPT ![r] = [@ EXCEPT !.pc = "sign",
                                             !.names = roles[req[r].user]]]
    /\ UNCHANGED <<memberVars, invitation, tokenVars, steady>>

(* What is read last is signed with what was read first. *)
Signed(r) == [user |-> req[r].user, roles |-> req[r].names \ deletedRoles,
              pv |-> req[r].pv, av |-> req[r].av]

Sign(r) ==
    /\ At(r, "sign")
    /\ tokens' = tokens \cup {Signed(r)}
    /\ Leave(r)
    /\ UNCHANGED <<memberVars, invitation, deletedRoles, reported, steady>>

(* A crash, a timeout or an abort. *)
Die(r) ==
    /\ ~At(r, "idle")
    /\ Leave(r)
    /\ UNCHANGED <<memberVars, invitation, tokenVars>>
    /\ Observe

-----------------------------------------------------------------------------
RequestArrives(r) ==
    \/ \E i \in Invitation : ReadInvitation(r, i)
    \/ \E u \in User : CountAdmins(r, u) \/ ReadMembership(r, u)
    \/ \E ro \in Role : DeleteRole(r, ro)

Step(r) ==
    \/ Accept(r)
    \/ CheckMember(r) \/ Remove(r)
    \/ FindHolders(r) \/ BumpHolders(r)
    \/ ReadUserRoles(r) \/ Sign(r)
    \/ Die(r)

Write ==
    \/ \E i \in Invitation, u \in User, ro \in Role \cup {None} : Invite(i, u, ro)
    \/ \E i \in Invitation : RevokeInvitation(i)
    \/ \E u \in User, s \in {"active", "inactive", None}, changed \in BOOLEAN :
          UpdateAttributes(u, s, changed)
    \/ \E u \in User, ro \in Role :
          AssignToMembership(u, ro) \/ RevokeFromMembership(u, ro)
    \/ \E u \in User, ros \in SUBSET Role : Provision(u, ros)

Next ==
    \/ \E r \in Request : RequestArrives(r) \/ Step(r)
    \/ Write

Spec == Init /\ [][Next]_vars

-----------------------------------------------------------------------------
(* What must hold. *)

VersionsMatch(t) ==
    t.pv = permissionsVersion[t.user] /\ t.av = attributesVersion[t.user]

(* The membership check of JwtStrategy. *)
Passes(t) == Member(t.user) /\ status[t.user] = "active" /\ VersionsMatch(t)

(* A token that passes names no role its user does not have, and all the   *)
(* roles the user has but for deleted ones and those that single sign-on   *)
(* gave without a word: whatever else changes the roles increments the     *)
(* version with them, and signing reads the version first.                 *)
PassingTokenNamesRoles ==
    \A t \in tokens : Passes(t) =>
        /\ t.roles \subseteq roles[t.user]
        /\ roles[t.user] \ (deletedRoles \cup unannounced[t.user]) \subseteq t.roles

(* Once the deletion of a role has been reported no token that names it    *)
(* passes, or ever will, although the holders are looked up and their      *)
(* versions incremented in two statements, after the deletion.             *)
DeletedRoleGrantsNothing ==
    \A t \in tokens : Passes(t) => t.roles \cap reported = {}

(* A token that is outdated stays outdated: a membership that was removed  *)
(* comes back with another version than the tokens of its former life.     *)
Outdated(t) == ~Member(t.user) \/ ~VersionsMatch(t)

OutdatedStaysOutdated ==
    [][\A t \in tokens : Outdated(t) => Outdated(t)']_vars

CountedTwice(u) == Cardinality({row \in AdminRows : row[1] = u}) > 1

(* A removal takes the last administrator, that is the last holder of a    *)
(* role with the slug admin, only when such rows have come or gone since   *)
(* it counted them, or when that administrator had two of them and was     *)
(* counted twice.                                                          *)
LastAdminLostOnlyIfMiscounted ==
    [][\A r \in steady : Remove(r) /\ Admins # {} =>
          Admins' # {} \/ CountedTwice(req[r].user)]_vars

(* Seen from outside, a token that is not outdated is a live look at the   *)
(* roles of its user, and ends with any change of the membership but the   *)
(* silent ones of single sign-on: that is what the two versions, read      *)
(* first and incremented last, are for.                                    *)
Honoured == {[user |-> t.user, roles |-> t.roles] : t \in {x \in tokens : ~Outdated(x)}}

Live == INSTANCE LiveRoles
    WITH members <- {u \in User : Member(u)}, held <- roles,
         late <- unannounced,
         retired <- deletedRoles, gone <- reported, grants <- Honoured
ImplementsLiveRoles == Live!Spec

-----------------------------------------------------------------------------
(* The inductive invariant. *)

(* What a request works on is there, and stays there. *)
RequestsKnow ==
    \A r \in Request :
        /\ At(r, "accept") => req[r].user \in User /\ req[r].inv \in Invitation
        /\ req[r].pc \in {"isAdmin", "remove", "readRoles", "sign"} =>
              req[r].user \in User /\ status[req[r].user] # None
        /\ req[r].pc \in {"findHolders", "bump"} => req[r].role \in deletedRoles

(* No version that was read is ahead of its row. *)
VersionsPast ==
    /\ \A t \in tokens : /\ status[t.user] # None
                        /\ t.pv <= permissionsVersion[t.user]
                        /\ t.av <= attributesVersion[t.user]
    /\ \A r \in Request : req[r].pc \in {"readRoles", "sign"} =>
          /\ req[r].pv <= permissionsVersion[req[r].user]
          /\ req[r].av <= attributesVersion[req[r].user]

(* While the version read is that of the row, so are the roles, but for    *)
(* those not announced.                                                    *)
RolesExact ==
    /\ \A t \in tokens : t.pv = permissionsVersion[t.user] =>
          /\ t.roles \subseteq roles[t.user]
          /\ roles[t.user] \ (deletedRoles \cup unannounced[t.user]) \subseteq t.roles
    /\ \A r \in Request :
          At(r, "sign") /\ req[r].pv = permissionsVersion[req[r].user] =>
              /\ req[r].names \subseteq roles[req[r].user]
              /\ roles[req[r].user] \ unannounced[req[r].user] \subseteq req[r].names

(* The tokens that name a role whose deletion is reported are outdated; the *)
(* deletion has found the users of all others.                             *)
DeletionFinds ==
    /\ reported \subseteq deletedRoles
    /\ \A t \in tokens : t.roles \cap reported # {} => Outdated(t)
    /\ \A r \in Request, t \in tokens :
          At(r, "bump") /\ req[r].role \in t.roles =>
              Outdated(t) \/ t.user \in req[r].found

(* A steady request about to remove a member has counted another row, or   *)
(* the member is no administrator.                                         *)
SteadySafe ==
    \A r \in steady :
        \/ At(r, "isAdmin")
        \/ At(r, "remove") /\ (Cardinality(AdminRows) > 1 \/ req[r].user \notin Admins)

IInv == /\ TypeOK
        /\ RequestsKnow
        /\ VersionsPast
        /\ RolesExact
        /\ DeletionFinds
        /\ SteadySafe
=============================================================================
