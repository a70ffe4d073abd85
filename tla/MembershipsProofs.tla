------------------------- MODULE MembershipsProofs -------------------------
(***************************************************************************)
(* Proofs about Memberships, for any users, roles, invitations, requests   *)
(* and bounds.                                                             *)
(***************************************************************************)
EXTENDS Memberships, TLAPS

LEMMA IdleTyped == Idle \in RequestState /\ Idle.pc = "idle" /\ Idle.inv = None
BY DEF Idle, RequestState, PC

LEMMA BumpTyped ==
    ASSUME NEW versions \in [User -> Nat], NEW us
    PROVE  Bump(versions, us) \in [User -> Nat]
BY DEF Bump

LEMMA AnnounceTyped == TypeOK /\ Announce => unannounced' \in [User -> SUBSET Role]
BY DEF TypeOK, Announce

(* What a request finds fits in its state. *)
LEMMA FindingsTyped ==
    ASSUME NEW q \in RequestState, NEW pc \in PC, NEW us \in SUBSET User, NEW ros \in SUBSET Role
    PROVE  /\ [q EXCEPT !.pc = pc, !.found = us] \in RequestState
           /\ [q EXCEPT !.pc = pc, !.names = ros] \in RequestState
BY DEF RequestState

(* A request that goes on, or leaves, is again in a state of a request. *)
LEMMA ReqTyped ==
    ASSUME TypeOK, NEW r \in Request
    PROVE  /\ Leave(r) => req' \in [Request -> RequestState]
           /\ \A pc \in PC : Goto(r, pc) => req' \in [Request -> RequestState]
           /\ \A to \in RequestState :
                 req' = [req EXCEPT ![r] = to] => req' \in [Request -> RequestState]
<1>1. Leave(r) => req' \in [Request -> RequestState]
  BY IdleTyped DEF Leave, TypeOK
<1>2. ASSUME NEW pc \in PC PROVE [req[r] EXCEPT !.pc = pc] \in RequestState
  BY DEF TypeOK, RequestState
<1>3. ASSUME NEW pc \in PC, Goto(r, pc) PROVE req' \in [Request -> RequestState]
  BY <1>2, <1>3 DEF Goto, TypeOK
<1>. QED
  BY <1>1, <1>3 DEF TypeOK

(* So do the two steps that look up users or roles. *)
LEMMA FindingTyped ==
    ASSUME TypeOK, NEW r \in Request
    PROVE  /\ FindHolders(r) => req' \in [Request -> RequestState]
           /\ ReadUserRoles(r) /\ req[r].user \in User => req' \in [Request -> RequestState]
<1>1. req[r] \in RequestState /\ "bump" \in PC /\ "sign" \in PC
  BY DEF TypeOK, PC
<1>2. ASSUME FindHolders(r) PROVE req' \in [Request -> RequestState]
  <2>1. Holders(req[r].role) \in SUBSET User
    BY DEF Holders
  <2>2. [req[r] EXCEPT !.pc = "bump", !.found = Holders(req[r].role)] \in RequestState
    BY <1>1, <2>1, FindingsTyped
  <2>. QED
    BY <1>2, <2>2, ReqTyped DEF FindHolders
<1>3. ASSUME ReadUserRoles(r), req[r].user \in User PROVE req' \in [Request -> RequestState]
  <2>1. roles[req[r].user] \in SUBSET Role
    BY <1>3 DEF TypeOK
  <2>2. [req[r] EXCEPT !.pc = "sign", !.names = roles[req[r].user]] \in RequestState
    BY <1>1, <2>1, FindingsTyped
  <2>. QED
    BY <1>3, <2>2, ReqTyped DEF ReadUserRoles
<1>. QED
  BY <1>2, <1>3

(* Every step keeps every variable in its type. *)
LEMMA TypeStep ==
    ASSUME TypeOK, RequestsKnow, [Next]_vars
    PROVE  TypeOK'
<1>. USE IdleTyped, BumpTyped, AnnounceTyped, MembershipAssumption DEF TypeOK, RequestState, PC,
         Leave, Goto, At, Observe, memberVars, versionVars, tokenVars
<1>1. ASSUME NEW r \in Request, RequestArrives(r) PROVE TypeOK'
  <2>1. ASSUME NEW i \in Invitation, ReadInvitation(r, i) PROVE TypeOK'
    BY <2>1, ZenonT(60) DEF ReadInvitation, Idle
  <2>2. ASSUME NEW u \in User, CountAdmins(r, u) PROVE TypeOK'
    BY <2>2, ZenonT(60) DEF CountAdmins, Idle
  <2>3. ASSUME NEW u \in User, ReadMembership(r, u) PROVE TypeOK'
    BY <2>3, ZenonT(60) DEF ReadMembership, Idle
  <2>4. ASSUME NEW ro \in Role, DeleteRole(r, ro) PROVE TypeOK'
    BY <2>4, ZenonT(60) DEF DeleteRole, Idle
  <2>. QED
    BY <1>1, <2>1, <2>2, <2>3, <2>4 DEF RequestArrives
<1>2. ASSUME NEW r \in Request, Step(r) PROVE TypeOK'
  <2>1. CASE Accept(r)
    BY <2>1 DEF Accept, AcceptedVersion, RequestsKnow
  <2>2. CASE CheckMember(r)
    <3>1. req' \in [Request -> RequestState]
      BY ONLY <2>2, TypeOK, ReqTyped, r \in Request DEF CheckMember, PC
    <3>2. UNCHANGED <<memberVars, invitation, tokenVars>> /\ steady' \subseteq steady
      BY ONLY <2>2 DEF CheckMember, Observe
    <3>. QED
      BY ONLY <3>1, <3>2, TypeOK DEF TypeOK, memberVars, versionVars, tokenVars
  <2>3. CASE Remove(r)
    BY <2>3 DEF Remove, RequestsKnow
  <2>4. CASE FindHolders(r)
    <3>1. /\ req' \in [Request -> RequestState]
          /\ UNCHANGED <<memberVars, invitation, tokenVars, steady>>
      BY ONLY <2>4, TypeOK, FindingTyped, r \in Request DEF FindHolders
    <3>. QED
      BY ONLY <3>1, TypeOK
  <2>5. CASE BumpHolders(r)
    <3>1. req[r].role \in Role
      BY <2>5 DEF BumpHolders, RequestsKnow
    <3>2. permissionsVersion' \in [User -> Nat]
      BY <2>5, SMTT(60) DEF BumpHolders
    <3>. QED
      BY <2>5, <3>1, <3>2 DEF BumpHolders
  <2>6. CASE ReadUserRoles(r)
    <3>1. req[r].user \in User
      BY <2>6 DEF ReadUserRoles, RequestsKnow
    <3>2. /\ req' \in [Request -> RequestState]
          /\ UNCHANGED <<memberVars, invitation, tokenVars, steady>>
      BY ONLY <2>6, <3>1, TypeOK, FindingTyped, r \in Request DEF ReadUserRoles
    <3>. QED
      BY ONLY <3>2, TypeOK
  <2>7. CASE Sign(r)
    <3>1. Signed(r) \in Token
      BY <2>7 DEF Sign, Signed, RequestsKnow, Token
    <3>. QED
      BY <2>7, <3>1 DEF Sign
  <2>8. CASE Die(r)
    BY <2>8 DEF Die
  <2>. QED
    BY <1>2, <2>1, <2>2, <2>3, <2>4, <2>5, <2>6, <2>7, <2>8 DEF Step
<1>3. CASE Write
  <2>1. ASSUME NEW i \in Invitation, NEW u \in User, NEW ro \in Role \cup {None},
               Invite(i, u, ro)
        PROVE  TypeOK'
    BY <2>1 DEF Invite
  <2>2. ASSUME NEW i \in Invitation, RevokeInvitation(i) PROVE TypeOK'
    BY <2>2 DEF RevokeInvitation
  <2>3. ASSUME NEW u \in User, NEW s \in {"active", "inactive", None},
               NEW changed \in BOOLEAN, UpdateAttributes(u, s, changed)
        PROVE  TypeOK'
    BY <2>3 DEF UpdateAttributes
  <2>4. ASSUME NEW u \in User, NEW ro \in Role, AssignToMembership(u, ro) PROVE TypeOK'
    BY <2>4 DEF AssignToMembership
  <2>5. ASSUME NEW u \in User, NEW ro \in Role, RevokeFromMembership(u, ro) PROVE TypeOK'
    BY <2>5 DEF RevokeFromMembership, RevokedVersion
  <2>6. ASSUME NEW u \in User, NEW ros \in SUBSET Role, Provision(u, ros) PROVE TypeOK'
    BY <2>6 DEF Provision
  <2>. QED
    BY <1>3, <2>1, <2>2, <2>3, <2>4, <2>5, <2>6 DEF Write
<1>4. CASE UNCHANGED vars
  BY <1>4 DEF vars
<1>. QED
  BY <1>1, <1>2, <1>3, <1>4 DEF Next

LEMMA BumpUp ==
    ASSUME NEW versions \in [User -> Nat], NEW us, NEW u \in User
    PROVE  /\ versions[u] <= Bump(versions, us)[u]
           /\ u \in us => versions[u] < Bump(versions, us)[u]
BY DEF Bump

(* Rows and versions only move on: while the version of the permissions    *)
(* stays, a member only gets roles, which are not announced; with the      *)
(* return of a member goes the version of the attributes.                  *)
RolesGrow(u) ==
    /\ roles[u] \subseteq roles'[u]
    /\ unannounced[u] \subseteq unannounced'[u]
    /\ roles'[u] \ roles[u] \subseteq unannounced'[u]

RolesMoveOn ==
    \A u \in User : /\ permissionsVersion[u] <= permissionsVersion'[u]
                    /\ permissionsVersion[u] < permissionsVersion'[u] \/ RolesGrow(u)

MembersMoveOn ==
    \A u \in User : /\ attributesVersion[u] <= attributesVersion'[u]
                    /\ status[u] # None => status'[u] # None
                    /\ status[u] # None /\ ~Member(u) /\ Member(u)' =>
                          attributesVersion[u] < attributesVersion'[u]

MoveOn == /\ RolesMoveOn
          /\ MembersMoveOn
          /\ deletedRoles \subseteq deletedRoles'

LEMMA StandStill ==
    ASSUME TypeOK, UNCHANGED memberVars, deletedRoles \subseteq deletedRoles'
    PROVE  MoveOn
BY DEF TypeOK, memberVars, versionVars, MoveOn, RolesMoveOn, RolesGrow, MembersMoveOn, Member

(* A write that increments the versions of us and announces its changes    *)
(* moves on when nobody else's roles change.                               *)
LEMMA AnnouncedMoves ==
    ASSUME TypeOK, NEW us, permissionsVersion' = Bump(permissionsVersion, us), Announce,
           \A u \in User : roles'[u] # roles[u] => u \in us
    PROVE  RolesMoveOn
<1>. SUFFICES ASSUME NEW u \in User
     PROVE  /\ permissionsVersion[u] <= permissionsVersion'[u]
            /\ permissionsVersion[u] < permissionsVersion'[u] \/ RolesGrow(u)
  BY DEF RolesMoveOn
<1>1. CASE u \in us
  BY <1>1, BumpUp DEF TypeOK
<1>2. CASE u \notin us
  <2>1. permissionsVersion'[u] = permissionsVersion[u] /\ permissionsVersion[u] \in Nat
    BY <1>2 DEF TypeOK, Bump
  <2>2. unannounced'[u] = unannounced[u] /\ roles'[u] = roles[u]
    BY <1>2, <2>1 DEF Announce
  <2>. QED
    BY <2>1, <2>2 DEF RolesGrow
<1>. QED
  BY <1>1, <1>2

LEMMA MoveOnStep ==
    ASSUME IInv, [Next]_vars
    PROVE  MoveOn
<1>. USE BumpUp DEF IInv, TypeOK
<1>1. ASSUME NEW r \in Request, Accept(r) PROVE MoveOn
  <2>1. req[r].user \in User
    BY <1>1 DEF Accept, RequestsKnow
  <2>2. MembersMoveOn
    BY <1>1, <2>1, MembershipAssumption DEF Accept, AcceptedVersion, Returning, MembersMoveOn, Member
  <2>3. RolesMoveOn
    <3>. DEFINE us == IF req[r].role = None THEN {} ELSE {req[r].user}
    <3>1. permissionsVersion' = Bump(permissionsVersion, us)
      BY <1>1 DEF Accept
    <3>2. \A u \in User : roles'[u] # roles[u] => u \in us
      BY <1>1, <2>1 DEF Accept
    <3>. QED
      BY <1>1, <3>1, <3>2, AnnouncedMoves DEF Accept
  <2>. QED
    BY <1>1, <2>2, <2>3 DEF Accept, MoveOn, tokenVars
<1>2. ASSUME NEW r \in Request, Remove(r) PROVE MoveOn
  BY <1>2, MembershipAssumption DEF Remove, RequestsKnow, MoveOn, RolesMoveOn, RolesGrow,
     MembersMoveOn, Member, versionVars, tokenVars
<1>3. ASSUME NEW r \in Request, BumpHolders(r) PROVE MoveOn
  <2>1. UNCHANGED <<status, deleted, roles, attributesVersion, deletedRoles>>
    BY <1>3 DEF BumpHolders
  <2>2. RolesMoveOn
    BY <1>3, <2>1, AnnouncedMoves DEF BumpHolders
  <2>. QED
    BY <2>1, <2>2 DEF MoveOn, MembersMoveOn, Member
<1>4. ASSUME NEW u \in User, NEW s \in {"active", "inactive", None},
             NEW changed \in BOOLEAN, UpdateAttributes(u, s, changed)
      PROVE  MoveOn
  BY <1>4 DEF UpdateAttributes, MoveOn, RolesMoveOn, RolesGrow, MembersMoveOn, Member, tokenVars
<1>5. ASSUME NEW u \in User, NEW ro \in Role,
             AssignToMembership(u, ro) \/ RevokeFromMembership(u, ro)
      PROVE  MoveOn
  <2>1. UNCHANGED <<status, deleted, attributesVersion, deletedRoles>>
    BY <1>5 DEF AssignToMembership, RevokeFromMembership, tokenVars
  <2>2. RolesMoveOn
    <3>1. permissionsVersion' = Bump(permissionsVersion, {u}) /\ Announce
      BY <1>5 DEF AssignToMembership, RevokeFromMembership, RevokedVersion
    <3>2. \A x \in User : roles'[x] # roles[x] => x \in {u}
      BY ONLY <1>5, IInv, SMTT(60) DEF IInv, TypeOK, AssignToMembership, RevokeFromMembership
    <3>. QED
      BY <3>1, <3>2, AnnouncedMoves
  <2>. QED
    BY <2>1, <2>2 DEF MoveOn, MembersMoveOn, Member
<1>6. ASSUME NEW r \in Request,
             \/ RequestArrives(r) \/ CheckMember(r) \/ FindHolders(r)
             \/ ReadUserRoles(r) \/ Sign(r) \/ Die(r)
      PROVE  MoveOn
  BY <1>6, StandStill DEF RequestArrives, ReadInvitation, CountAdmins, ReadMembership,
     DeleteRole, CheckMember, FindHolders, ReadUserRoles, Sign, Die, tokenVars
<1>7. ASSUME \/ \E i \in Invitation, u \in User, ro \in Role \cup {None} : Invite(i, u, ro)
             \/ \E i \in Invitation : RevokeInvitation(i)
             \/ UNCHANGED vars
      PROVE  MoveOn
  BY <1>7, StandStill DEF Invite, RevokeInvitation, vars, tokenVars
<1>8. ASSUME NEW u \in User, NEW ros \in SUBSET Role, Provision(u, ros) PROVE MoveOn
  <2>1. UNCHANGED <<deleted, permissionsVersion, attributesVersion, deletedRoles>>
    BY <1>8 DEF Provision, versionVars, tokenVars
  <2>2. RolesMoveOn
    BY <1>8, <2>1 DEF Provision, RolesMoveOn, RolesGrow
  <2>3. MembersMoveOn
    BY <1>8, <2>1, MembershipAssumption DEF Provision, MembersMoveOn, Member
  <2>. QED
    BY <2>1, <2>2, <2>3 DEF MoveOn
<1>. QED
  BY <1>1, <1>2, <1>3, <1>4, <1>5, <1>6, <1>7, <1>8 DEF Next, Step, Write

(* How the state of one request can change. *)
LEMMA RequestMoves ==
    ASSUME TypeOK, [Next]_vars, NEW q \in Request
    PROVE  \/ req'[q] = req[q]
           \/ req'[q] = Idle
           \/ RequestArrives(q) \/ CheckMember(q) \/ FindHolders(q) \/ ReadUserRoles(q)
<1>. USE DEF TypeOK
<1>1. ASSUME NEW r \in Request, RequestArrives(r)
      PROVE  q = r \/ req'[q] = req[q]
  BY <1>1 DEF RequestArrives, ReadInvitation, CountAdmins, ReadMembership, DeleteRole
<1>2. ASSUME NEW r \in Request, Step(r)
      PROVE  q = r \/ req'[q] = req[q]
  BY <1>2 DEF Step, Accept, CheckMember, Remove, FindHolders, BumpHolders,
     ReadUserRoles, Sign, Die, Leave, Goto
<1>3. ASSUME Step(q)
      PROVE  req'[q] = Idle \/ CheckMember(q) \/ FindHolders(q) \/ ReadUserRoles(q)
  BY <1>3 DEF Step, Accept, Remove, BumpHolders, Sign, Die, Leave
<1>4. ASSUME Write \/ UNCHANGED vars PROVE req' = req
  BY <1>4, ZenonT(60) DEF Write, Invite, RevokeInvitation, UpdateAttributes, AssignToMembership,
     RevokeFromMembership, Provision, vars
<1>. QED
  BY <1>1, <1>2, <1>3, <1>4, ZenonT(60) DEF Next

(* Tokens are only added, by a request that signs. *)
LEMMA TokenMoves ==
    ASSUME [Next]_vars, NEW t \in tokens'
    PROVE  \/ t \in tokens
           \/ \E r \in Request : Sign(r) /\ t = Signed(r)
BY ZenonT(60) DEF Next, RequestArrives, Step, Write, ReadInvitation, CountAdmins, ReadMembership,
   DeleteRole, Accept, CheckMember, Remove, FindHolders, BumpHolders, ReadUserRoles,
   Sign, Die, Invite, RevokeInvitation, UpdateAttributes, AssignToMembership,
   RevokeFromMembership, Provision, vars, tokenVars

(* Roles are reported when the versions of their holders are incremented. *)
LEMMA ReportMoves ==
    ASSUME [Next]_vars
    PROVE  \/ reported' = reported
           \/ \E r \in Request : BumpHolders(r)
BY ZenonT(60) DEF Next, RequestArrives, Step, Write, ReadInvitation, CountAdmins, ReadMembership,
   DeleteRole, Accept, CheckMember, Remove, FindHolders, ReadUserRoles,
   Sign, Die, Invite, RevokeInvitation, UpdateAttributes, AssignToMembership,
   RevokeFromMembership, Provision, vars, tokenVars

(* Where a request can get to. *)
LEMMA Arrivals ==
    ASSUME TypeOK, NEW q \in Request, RequestArrives(q)
    PROVE  \/ req'[q].pc \in {"accept", "findHolders"}
           \/ \E u \in User : CountAdmins(q, u) /\ req'[q].pc \in {"isAdmin", "remove"}
           \/ \E u \in User : ReadMembership(q, u) /\ req'[q].pc = "readRoles"
<1>1. ASSUME NEW i \in Invitation, ReadInvitation(q, i)
      PROVE  req'[q].pc = "accept"
  BY <1>1 DEF ReadInvitation, TypeOK, Idle
<1>2. ASSUME NEW u \in User, CountAdmins(q, u)
      PROVE  req'[q].pc \in {"isAdmin", "remove"}
  BY <1>2 DEF CountAdmins, TypeOK, Idle
<1>3. ASSUME NEW u \in User, ReadMembership(q, u)
      PROVE  req'[q].pc = "readRoles"
  BY <1>3 DEF ReadMembership, TypeOK, Idle
<1>4. ASSUME NEW ro \in Role, DeleteRole(q, ro)
      PROVE  req'[q].pc = "findHolders"
  BY <1>4 DEF DeleteRole, TypeOK, Idle
<1>. QED
  BY <1>1, <1>2, <1>3, <1>4 DEF RequestArrives

LEMMA Continuations ==
    ASSUME TypeOK, NEW q \in Request
    PROVE  /\ CheckMember(q) => req'[q].pc \in {"idle", "remove"}
           /\ FindHolders(q) => req'[q].pc = "bump"
           /\ ReadUserRoles(q) => req'[q].pc = "sign"
<1>1. CheckMember(q) => req'[q].pc \in {"idle", "remove"}
  BY DEF CheckMember, Leave, Goto, TypeOK, RequestState, Idle
<1>2. FindHolders(q) => req'[q].pc = "bump"
  BY DEF FindHolders, TypeOK, RequestState
<1>3. ReadUserRoles(q) => req'[q].pc = "sign"
  BY DEF ReadUserRoles, TypeOK, RequestState
<1>. QED
  BY <1>1, <1>2, <1>3

LEMMA KnowStep ==
    ASSUME IInv, [Next]_vars
    PROVE  RequestsKnow'
<1>. SUFFICES ASSUME NEW q \in Request
     PROVE  /\ At(q, "accept")' => req'[q].user \in User /\ req'[q].inv \in Invitation
            /\ req'[q].pc \in {"isAdmin", "remove", "readRoles", "sign"} =>
                  req'[q].user \in User /\ status'[req'[q].user] # None
            /\ req'[q].pc \in {"findHolders", "bump"} => req'[q].role \in deletedRoles'
  BY DEF RequestsKnow, At
<1>. USE MoveOnStep DEF IInv, At
<1>1. CASE req'[q] = req[q]
  BY <1>1 DEF RequestsKnow, MoveOn, MembersMoveOn
<1>2. CASE req'[q] = Idle
  BY <1>2 DEF Idle
<1>3. CASE RequestArrives(q)
  <2>1. ASSUME NEW i \in Invitation, ReadInvitation(q, i)
        PROVE  /\ req'[q].pc = "accept"
               /\ req'[q].user \in User /\ req'[q].inv \in Invitation
    BY <2>1 DEF ReadInvitation, TypeOK, Idle
  <2>2. ASSUME NEW u \in User, CountAdmins(q, u)
        PROVE  /\ req'[q].pc \in {"isAdmin", "remove"} /\ req'[q].user = u
               /\ status'[u] # None
    BY <2>2 DEF CountAdmins, TypeOK, Idle, memberVars
  <2>3. ASSUME NEW u \in User, ReadMembership(q, u)
        PROVE  /\ req'[q].pc = "readRoles" /\ req'[q].user = u
               /\ status'[u] # None
    BY <2>3 DEF ReadMembership, TypeOK, Idle, memberVars, Member
  <2>4. ASSUME NEW ro \in Role, DeleteRole(q, ro)
        PROVE  req'[q].pc = "findHolders" /\ req'[q].role \in deletedRoles'
    BY <2>4 DEF DeleteRole, TypeOK, Idle
  <2>. QED
    BY <1>3, <2>1, <2>2, <2>3, <2>4 DEF RequestArrives
<1>4. CASE CheckMember(q)
  BY <1>4, <1>2 DEF CheckMember, Leave, Goto, TypeOK, RequestsKnow, RequestState, memberVars
<1>5. CASE FindHolders(q)
  BY <1>5 DEF FindHolders, TypeOK, RequestsKnow, RequestState, tokenVars
<1>6. CASE ReadUserRoles(q)
  BY <1>6 DEF ReadUserRoles, TypeOK, RequestsKnow, RequestState, memberVars
<1>. QED
  BY <1>1, <1>2, <1>3, <1>4, <1>5, <1>6, RequestMoves

LEMMA PastStep ==
    ASSUME IInv, [Next]_vars
    PROVE  VersionsPast'
<1>. USE MoveOnStep DEF IInv, At
<1>1. ASSUME NEW t \in tokens'
      PROVE  /\ status'[t.user] # None
             /\ t.pv <= permissionsVersion'[t.user]
             /\ t.av <= attributesVersion'[t.user]
  <2>1. CASE t \in tokens
    <3>1. t.user \in User /\ t.pv \in Nat /\ t.av \in Nat
      BY <2>1 DEF TypeOK, Token
    <3>2. TypeOK'
      BY TypeStep
    <3>. QED
      BY <2>1, <3>1, <3>2 DEF VersionsPast, MoveOn, RolesMoveOn, MembersMoveOn, TypeOK
  <2>2. ASSUME NEW r \in Request, Sign(r), t = Signed(r)
        PROVE  /\ status'[t.user] # None
               /\ t.pv <= permissionsVersion'[t.user]
               /\ t.av <= attributesVersion'[t.user]
    BY <2>2 DEF Sign, Signed, VersionsPast, RequestsKnow, memberVars, versionVars
  <2>. QED
    BY <2>1, <2>2, TokenMoves
<1>2. ASSUME NEW q \in Request, req'[q].pc \in {"readRoles", "sign"}
      PROVE  /\ req'[q].pv <= permissionsVersion'[req'[q].user]
             /\ req'[q].av <= attributesVersion'[req'[q].user]
  <2>1. CASE req'[q] = req[q]
    <3>1. req[q].user \in User /\ req[q].pv \in Nat /\ req[q].av \in Nat
      BY <1>2, <2>1 DEF TypeOK, RequestState, RequestsKnow
    <3>2. TypeOK'
      BY TypeStep
    <3>. QED
      BY <1>2, <2>1, <3>1, <3>2 DEF VersionsPast, MoveOn, RolesMoveOn, MembersMoveOn, TypeOK
  <2>2. CASE RequestArrives(q)
    <3>1. PICK u \in User : ReadMembership(q, u)
      BY <1>2, <2>2, Arrivals
    <3>. QED
      BY <3>1 DEF ReadMembership, TypeOK, Idle, memberVars, versionVars
  <2>3. CASE ReadUserRoles(q)
    BY <2>3 DEF ReadUserRoles, TypeOK, RequestState, VersionsPast, memberVars, versionVars
  <2>4. ~(req'[q] = Idle \/ CheckMember(q) \/ FindHolders(q))
    BY <1>2, IdleTyped, Continuations
  <2>. QED
    BY <2>1, <2>2, <2>3, <2>4, RequestMoves
<1>. QED
  BY <1>1, <1>2 DEF VersionsPast

(* While the version is not past a known one, the roles only grow. *)
LEMMA Unchanged ==
    ASSUME IInv, [Next]_vars, NEW u \in User, NEW v \in Nat,
           v <= permissionsVersion[u], v = permissionsVersion'[u]
    PROVE  v = permissionsVersion[u] /\ RolesGrow(u)
<1>1. permissionsVersion[u] \in Nat /\ permissionsVersion'[u] \in Nat
  BY TypeStep DEF IInv, TypeOK
<1>2. /\ permissionsVersion[u] <= permissionsVersion'[u]
      /\ permissionsVersion[u] < permissionsVersion'[u] \/ RolesGrow(u)
  BY MoveOnStep DEF MoveOn, RolesMoveOn
<1>. QED
  BY <1>1, <1>2

LEMMA ExactStep ==
    ASSUME IInv, [Next]_vars
    PROVE  RolesExact'
<1>. USE MoveOnStep DEF IInv, At
<1>1. ASSUME NEW t \in tokens', t.pv = permissionsVersion'[t.user]
      PROVE  /\ t.roles \subseteq roles'[t.user]
             /\ roles'[t.user] \ (deletedRoles' \cup unannounced'[t.user]) \subseteq t.roles
  <2>1. CASE t \in tokens
    <3>1. t.user \in User /\ t.pv \in Nat
      BY <2>1 DEF TypeOK, Token
    <3>2. t.pv = permissionsVersion[t.user] /\ RolesGrow(t.user)
      BY <1>1, <2>1, <3>1, Unchanged DEF VersionsPast
    <3>. QED
      BY <2>1, <3>2 DEF RolesExact, RolesGrow, MoveOn
  <2>2. ASSUME NEW r \in Request, Sign(r), t = Signed(r)
        PROVE  /\ t.roles \subseteq roles'[t.user]
               /\ roles'[t.user] \ (deletedRoles' \cup unannounced'[t.user]) \subseteq t.roles
    BY <1>1, <2>2 DEF Sign, Signed, RolesExact, memberVars, versionVars
  <2>. QED
    BY <2>1, <2>2, TokenMoves
<1>2. ASSUME NEW q \in Request, At(q, "sign")',
             req'[q].pv = permissionsVersion'[req'[q].user]
      PROVE  /\ req'[q].names \subseteq roles'[req'[q].user]
             /\ roles'[req'[q].user] \ unannounced'[req'[q].user] \subseteq req'[q].names
  <2>1. CASE req'[q] = req[q]
    <3>1. req[q].user \in User /\ req[q].pv \in Nat
      BY <1>2, <2>1 DEF TypeOK, RequestState, RequestsKnow
    <3>2. req[q].pv <= permissionsVersion[req[q].user]
      BY <1>2, <2>1 DEF VersionsPast
    <3>3. /\ req[q].pv = permissionsVersion[req[q].user]
          /\ RolesGrow(req[q].user)
      BY <1>2, <2>1, <3>1, <3>2, Unchanged
    <3>. QED
      BY <1>2, <2>1, <3>3 DEF RolesExact, RolesGrow
  <2>2. CASE ReadUserRoles(q)
    BY <2>2 DEF ReadUserRoles, TypeOK, RequestState, memberVars
  <2>3. ~(req'[q] = Idle \/ RequestArrives(q) \/ CheckMember(q) \/ FindHolders(q))
    BY <1>2, IdleTyped, Arrivals, Continuations
  <2>. QED
    BY <2>1, <2>2, <2>3, RequestMoves
<1>. QED
  BY <1>1, <1>2 DEF RolesExact

(* A token that is outdated stays outdated. *)
LEMMA OutdatedStep ==
    ASSUME IInv, [Next]_vars, NEW t \in tokens, Outdated(t)
    PROVE  Outdated(t)'
<1>1. t.user \in User /\ t.pv \in Nat /\ t.av \in Nat
  BY DEF IInv, TypeOK, Token
<1>2. /\ status[t.user] # None
      /\ t.pv <= permissionsVersion[t.user] /\ t.av <= attributesVersion[t.user]
  BY DEF IInv, VersionsPast
<1>3. /\ permissionsVersion[t.user] \in Nat /\ permissionsVersion'[t.user] \in Nat
      /\ attributesVersion[t.user] \in Nat /\ attributesVersion'[t.user] \in Nat
  BY <1>1, TypeStep DEF IInv, TypeOK
<1>4. /\ permissionsVersion[t.user] <= permissionsVersion'[t.user]
      /\ attributesVersion[t.user] <= attributesVersion'[t.user]
      /\ ~Member(t.user) /\ Member(t.user)' =>
            attributesVersion[t.user] < attributesVersion'[t.user]
  BY <1>1, <1>2, MoveOnStep DEF MoveOn, RolesMoveOn, MembersMoveOn
<1>. QED
  BY <1>1, <1>2, <1>3, <1>4 DEF Outdated, VersionsMatch

LEMMA DeletionStep ==
    ASSUME IInv, [Next]_vars
    PROVE  DeletionFinds'
<1>. USE DEF IInv, At
<1>1. reported' \subseteq deletedRoles'
  BY ReportMoves, MoveOnStep DEF BumpHolders, RequestsKnow, DeletionFinds, MoveOn
<1>2. ASSUME NEW r \in Request, Sign(r)
      PROVE  Signed(r).roles \cap deletedRoles' = {} /\ req'[r] = Idle
  BY <1>2 DEF Sign, Signed, Leave, TypeOK
<1>3. ASSUME NEW t \in tokens', t.roles \cap reported' # {}
      PROVE  Outdated(t)'
  <2>1. CASE t \in tokens /\ t.roles \cap reported # {}
    BY <2>1, OutdatedStep DEF DeletionFinds
  <2>2. ASSUME NEW r \in Request, BumpHolders(r), t \in tokens, req[r].role \in t.roles
        PROVE  Outdated(t)'
    <3>1. CASE Outdated(t)
      BY <2>2, <3>1, OutdatedStep
    <3>2. CASE t.user \in req[r].found
      <4>1. t.user \in User /\ t.pv \in Nat /\ permissionsVersion[t.user] \in Nat
        BY <2>2 DEF TypeOK, Token
      <4>2. t.pv <= permissionsVersion[t.user]
        BY <2>2 DEF VersionsPast
      <4>3. permissionsVersion'[t.user] = permissionsVersion[t.user] + 1
        BY <2>2, <3>2, <4>1 DEF BumpHolders, Bump
      <4>. QED
        BY <4>1, <4>2, <4>3 DEF Outdated, VersionsMatch
    <3>. QED
      BY <2>2, <3>1, <3>2 DEF BumpHolders, DeletionFinds
  <2>3. t \in tokens
    BY <1>1, <1>2, <1>3, TokenMoves
  <2>4. ASSUME NEW r \in Request, BumpHolders(r)
        PROVE  reported' = reported \cup {req[r].role}
    BY <2>4 DEF BumpHolders
  <2>. QED
    BY <1>3, <2>1, <2>2, <2>3, <2>4, ReportMoves
<1>4. ASSUME NEW q \in Request, NEW t \in tokens', At(q, "bump")',
             req'[q].role \in t.roles
      PROVE  Outdated(t)' \/ t.user \in req'[q].found
  <2>1. CASE req'[q] = req[q]
    <3>1. req[q].role \in deletedRoles'
      BY <1>4, <2>1, MoveOnStep DEF RequestsKnow, MoveOn
    <3>2. t \in tokens
      BY <1>2, <1>4, <2>1, <3>1, TokenMoves
    <3>. QED
      BY <1>4, <2>1, <3>2, OutdatedStep DEF DeletionFinds
  <2>2. CASE FindHolders(q)
    <3>1. /\ t \in tokens /\ req[q].role \in deletedRoles
          /\ req'[q].role = req[q].role /\ req'[q].found = Holders(req[q].role)
      BY <2>2 DEF FindHolders, TypeOK, RequestState, RequestsKnow, tokenVars
    <3>2. t.user \in User
      BY <3>1 DEF TypeOK, Token
    <3>3. ~Outdated(t) => Member(t.user) /\ t.roles \subseteq roles[t.user]
      BY <3>1 DEF Outdated, VersionsMatch, RolesExact
    <3>. QED
      BY <1>4, <3>1, <3>2, <3>3, OutdatedStep DEF Holders
  <2>3. ~(req'[q] = Idle \/ RequestArrives(q) \/ CheckMember(q) \/ ReadUserRoles(q))
    BY <1>4, IdleTyped, Arrivals, Continuations
  <2>. QED
    BY <2>1, <2>2, <2>3, RequestMoves
<1>. QED
  BY <1>1, <1>3, <1>4 DEF DeletionFinds

(* An administrator has a live role of the slug.                           *)
LEMMA AdminsHold ==
    \A u \in Admins : u \in User /\ roles[u] \cap AdminRole # {}
BY DEF Admins, AdminRows

(* A request is steady from its count on, while the rows stay.             *)
LEMMA SteadyMoves ==
    ASSUME IInv, [Next]_vars, NEW q \in steady'
    PROVE  \/ \E u \in User : CountAdmins(q, u)
           \/ q \in steady /\ AdminRows' = AdminRows /\ req'[q] # Idle
<1>. USE DEF At
<1>1. ASSUME steady' = steady, UNCHANGED <<memberVars, deletedRoles>>
      PROVE  AdminRows' = AdminRows
  BY <1>1 DEF AdminRows, Member, memberVars
<1>2. ASSUME NEW r \in steady
      PROVE  r \in Request /\ req[r].pc \in {"isAdmin", "remove"}
  BY <1>2 DEF IInv, SteadySafe, TypeOK
<1>3. ASSUME Observe PROVE q \in steady /\ AdminRows' = AdminRows /\ req'[q] # Idle
  BY <1>3 DEF Observe
<1>4. ASSUME NEW r \in Request, RequestArrives(r)
      PROVE  \/ \E u \in User : CountAdmins(q, u)
             \/ q \in steady /\ AdminRows' = AdminRows /\ req'[q] # Idle
  <2>1. ASSUME NEW ro \in Role, DeleteRole(r, ro) PROVE Observe
    BY <2>1 DEF DeleteRole
  <2>2. ASSUME \/ \E i \in Invitation : ReadInvitation(r, i)
               \/ \E u \in User : CountAdmins(r, u) \/ ReadMembership(r, u)
        PROVE  \/ \E u \in User : CountAdmins(q, u)
               \/ q \in steady /\ AdminRows' = AdminRows /\ req'[q] # Idle
    <3>1. /\ UNCHANGED <<memberVars, deletedRoles>> /\ req[r].pc = "idle"
          /\ \/ steady' = steady
             \/ \E u \in User : CountAdmins(r, u) /\ steady' = steady \cup {r}
      BY <2>2 DEF ReadInvitation, CountAdmins, ReadMembership, tokenVars
    <3>4. \E to : req' = [req EXCEPT ![r] = to]
      BY <2>2 DEF ReadInvitation, CountAdmins, ReadMembership
    <3>5. q \in steady /\ q # r => req'[q] = req[q]
      BY <3>4, <1>2 DEF IInv, TypeOK
    <3>2. AdminRows' = AdminRows
      BY <3>1 DEF AdminRows, Member, memberVars
    <3>3. q \in steady => q # r /\ req[q] # Idle
      BY <1>2, <3>1, IdleTyped
    <3>. QED
      BY <3>1, <3>2, <3>3, <3>5
  <2>. QED
    BY <1>3, <1>4, <2>1, <2>2 DEF RequestArrives
<1>5. ASSUME NEW r \in Request,
             FindHolders(r) \/ BumpHolders(r) \/ ReadUserRoles(r) \/ Sign(r)
      PROVE  q \in steady /\ AdminRows' = AdminRows /\ req'[q] # Idle
  <2>1. q \in steady /\ AdminRows' = AdminRows
    BY <1>5 DEF FindHolders, BumpHolders, ReadUserRoles, Sign, AdminRows, Member, memberVars,
       tokenVars
  <2>2. q # r
    BY <1>2, <1>5, <2>1 DEF FindHolders, BumpHolders, ReadUserRoles, Sign
  <2>3. req'[q] = req[q]
    BY <1>2, <1>5, <2>1, <2>2 DEF FindHolders, BumpHolders, ReadUserRoles, Sign, Leave,
       IInv, TypeOK
  <2>. QED
    BY <1>2, <2>1, <2>3, IdleTyped
<1>6. ASSUME \/ \E i \in Invitation, u \in User, ro \in Role \cup {None} : Invite(i, u, ro)
             \/ \E i \in Invitation : RevokeInvitation(i)
             \/ UNCHANGED vars
      PROVE  q \in steady /\ AdminRows' = AdminRows /\ req'[q] # Idle
  <2>1. UNCHANGED <<memberVars, deletedRoles, req, steady>>
    BY <1>6 DEF Invite, RevokeInvitation, vars, tokenVars
  <2>. QED
    BY <1>1, <1>2, <2>1, IdleTyped
<1>7. ASSUME NEW r \in Request, Accept(r) \/ CheckMember(r) \/ Remove(r) \/ Die(r)
      PROVE  Observe
  BY <1>7 DEF Accept, CheckMember, Remove, Die
<1>8. ASSUME NEW u \in User,
             \/ \E s \in {"active", "inactive", None}, changed \in BOOLEAN :
                   UpdateAttributes(u, s, changed)
             \/ \E ro \in Role : AssignToMembership(u, ro) \/ RevokeFromMembership(u, ro)
             \/ \E ros \in SUBSET Role : Provision(u, ros)
      PROVE  Observe
  BY <1>8 DEF UpdateAttributes, AssignToMembership, RevokeFromMembership, Provision
<1>. QED
  BY <1>3, <1>4, <1>5, <1>6, <1>7, <1>8 DEF Next, Step, Write

LEMMA SteadyStep ==
    ASSUME IInv, [Next]_vars
    PROVE  SteadySafe'
<1>. USE DEF IInv, At
<1>1. ASSUME NEW q \in steady'
      PROVE  \/ req'[q].pc = "isAdmin"
             \/ /\ req'[q].pc = "remove"
                /\ Cardinality(AdminRows') > 1 \/ req'[q].user \notin Admins'
  <2>1. ASSUME NEW u \in User, CountAdmins(q, u) PROVE <1>1!2
    <3>1. AdminRows' = AdminRows /\ Admins' = Admins
      BY <2>1 DEF CountAdmins, AdminRows, Admins, Member, memberVars, tokenVars
    <3>2. q \in Request
      BY TypeStep DEF TypeOK
    <3>3. CASE EnoughAdmins
      BY <2>1, <3>1, <3>2, <3>3 DEF CountAdmins, EnoughAdmins, TypeOK, Idle
    <3>4. CASE ~EnoughAdmins
      BY <2>1, <3>2, <3>4 DEF CountAdmins, TypeOK, Idle
    <3>. QED
      BY <3>3, <3>4
  <2>2. CASE q \in steady /\ AdminRows' = AdminRows /\ req'[q] # Idle
    <3>0. Admins' = Admins
      BY <2>2 DEF Admins
    <3>1. /\ q \in Request
          /\ \/ req[q].pc = "isAdmin"
             \/ /\ req[q].pc = "remove"
                /\ Cardinality(AdminRows) > 1 \/ req[q].user \notin Admins
      BY <2>2 DEF SteadySafe, TypeOK
    <3>2. CASE req'[q] = req[q]
      BY <2>2, <3>0, <3>1, <3>2
    <3>3. CASE CheckMember(q)
      <4>1. CASE Leave(q)
        BY <2>2, <3>1, <4>1 DEF Leave, TypeOK
      <4>2. CASE roles[req[q].user] \cap AdminRole = {} /\ Goto(q, "remove")
        <5>1. req[q].user \notin Admins
          BY <4>2, AdminsHold
        <5>2. req'[q].pc = "remove" /\ req'[q].user = req[q].user
          BY <3>1, <4>2 DEF Goto, TypeOK, RequestState
        <5>. QED
          BY <3>0, <5>1, <5>2
      <4>. QED
        BY <3>3, <4>1, <4>2 DEF CheckMember
    <3>4. ~(RequestArrives(q) \/ FindHolders(q) \/ ReadUserRoles(q))
      BY <3>1, ZenonT(60) DEF RequestArrives, ReadInvitation, CountAdmins, ReadMembership, DeleteRole,
         FindHolders, ReadUserRoles
    <3>. QED
      BY <2>2, <3>1, <3>2, <3>3, <3>4, RequestMoves
  <2>. QED
    BY <2>1, <2>2, SteadyMoves
<1>. QED
  BY <1>1 DEF SteadySafe

LEMMA InitInv == Init => IInv
<1>. SUFFICES ASSUME Init PROVE IInv
  OBVIOUS
<1>1. TypeOK
  BY IdleTyped, MembershipAssumption DEF Init, TypeOK
<1>2. \A r \in Request : req[r].pc = "idle"
  BY IdleTyped DEF Init
<1>. QED
  BY <1>1, <1>2 DEF Init, IInv, RequestsKnow, VersionsPast, RolesExact, DeletionFinds,
     SteadySafe, At

LEMMA NextInv == IInv /\ [Next]_vars => IInv'
BY TypeStep, KnowStep, PastStep, ExactStep, DeletionStep, SteadyStep DEF IInv

-----------------------------------------------------------------------------
(* The inductive invariant: versions never run ahead, the roles of a token *)
(* are those of the version it names, and a deletion finds who holds it.   *)
THEOREM Inductive == Spec => []IInv
BY InitInv, NextInv, PTL DEF Spec

(* Every variable stays in its type. *)
THEOREM TypeCorrect == Spec => []TypeOK
<1>1. IInv => TypeOK
  BY DEF IInv
<1>. QED
  BY <1>1, Inductive, PTL

(* A token that JwtStrategy accepts names roles of its user alone, and all *)
(* of them but deleted ones and those single sign-on has just given.       *)
THEOREM RolesCurrent == Spec => []PassingTokenNamesRoles
<1>1. IInv => PassingTokenNamesRoles
  BY DEF IInv, RolesExact, PassingTokenNamesRoles, Passes, VersionsMatch
<1>. QED
  BY <1>1, Inductive, PTL

(* No token that JwtStrategy accepts names a role whose deletion has been  *)
(* reported.                                                               *)
THEOREM DeletionEffective == Spec => []DeletedRoleGrantsNothing
<1>1. IInv => DeletedRoleGrantsNothing
  BY DEF IInv, DeletionFinds, DeletedRoleGrantsNothing, Passes, Outdated
<1>. QED
  BY <1>1, Inductive, PTL

(* A token that is outdated never passes again, even when the membership   *)
(* it was signed for comes back.                                           *)
THEOREM OutdatedForever == Spec => OutdatedStaysOutdated
<1>1. IInv /\ [Next]_vars => [\A t \in tokens : Outdated(t) => Outdated(t)']_vars
  BY OutdatedStep
<1>. QED
  BY <1>1, Inductive, PTL DEF Spec, OutdatedStaysOutdated

(* A removal takes the last administrator only if the rows that make one   *)
(* have come or gone since it counted them, or if it counted two of that   *)
(* administrator: were the others gone, all it counted would be the rows   *)
(* of the one it removes.                                                  *)
THEOREM LastAdminKept == Spec => LastAdminLostOnlyIfMiscounted
<1>1. ASSUME IInv, NEW r \in steady, Remove(r), Admins # {}, Admins' = {}
      PROVE  CountedTwice(req[r].user)
  <2>1. r \in Request /\ (Cardinality(AdminRows) > 1 \/ req[r].user \notin Admins)
    BY <1>1 DEF IInv, TypeOK, SteadySafe, Remove, At
  <2>2. ASSUME NEW row \in AdminRows PROVE row[1] = req[r].user
    <3>1. row[1] \in User /\ status[row[1]] = "active" /\ Member(row[1])
      BY DEF AdminRows
    <3>2. /\ status' = [status EXCEPT ![req[r].user] = "inactive"]
          /\ deleted' = deleted \cup {req[r].user}
          /\ UNCHANGED <<roles, deletedRoles>>
      BY <1>1 DEF Remove, tokenVars
    <3>3. SUFFICES ASSUME row[1] # req[r].user PROVE row \in AdminRows'
      BY <1>1 DEF Admins
    <3>4. status'[row[1]] = "active" /\ row[1] \notin deleted'
      BY <3>1, <3>2, <3>3 DEF IInv, TypeOK, Member
    <3>5. Member(row[1])'
      BY <3>1, <3>4 DEF Member
    <3>. QED
      BY <3>2, <3>4, <3>5 DEF AdminRows
  <2>3. req[r].user \in Admins
    BY <1>1, <2>2 DEF Admins
  <2>4. {row \in AdminRows : row[1] = req[r].user} = AdminRows
    BY <2>2
  <2>. QED
    BY <2>1, <2>3, <2>4 DEF CountedTwice
<1>2. IInv /\ [Next]_vars =>
         [\A r \in steady : Remove(r) /\ Admins # {} =>
             Admins' # {} \/ CountedTwice(req[r].user)]_vars
  BY <1>1
<1>. QED
  BY <1>2, Inductive, PTL DEF Spec, LastAdminLostOnlyIfMiscounted

-----------------------------------------------------------------------------
(* Memberships implements LiveRoles. *)

Belongs == {u \in User : Member(u)}
Grant(t) == [user |-> t.user, roles |-> t.roles]

LEMMA HonouredIs ==
    /\ \A g : g \in Honoured <=> \E t \in tokens : ~Outdated(t) /\ g = Grant(t)
    /\ \A g : g \in Honoured' <=> \E t \in tokens' : ~Outdated(t)' /\ g = Grant(t)
BY DEF Honoured, Grant

(* When the tokens that get outdated are those of us, what is honoured is  *)
(* what it was without theirs.                                             *)
LEMMA OthersStayHonoured ==
    ASSUME NEW us, UNCHANGED tokens, \A t \in tokens : Outdated(t)' <=> Outdated(t) \/ t.user \in us
    PROVE  Honoured' = {g \in Honoured : g.user \notin us}
<1>1. ASSUME NEW g \in Honoured' PROVE g \in Honoured /\ g.user \notin us
  BY HonouredIs DEF Grant
<1>2. ASSUME NEW g \in Honoured, g.user \notin us PROVE g \in Honoured'
  <2>1. PICK t \in tokens : ~Outdated(t) /\ g = Grant(t)
    BY HonouredIs
  <2>2. g.user = t.user
    BY <2>1 DEF Grant
  <2>. QED
    BY <1>2, <2>1, <2>2, HonouredIs
<1>. QED
  BY <1>1, <1>2

(* Nothing a token is compared with changes. *)
LEMMA HonouredStays ==
    ASSUME TypeOK, UNCHANGED <<tokens, permissionsVersion, attributesVersion>>,
           \A u \in User : Member(u)' = Member(u)
    PROVE  Honoured' = Honoured /\ Belongs' = Belongs
<1>1. \A t \in tokens : Outdated(t)' <=> Outdated(t)
  BY DEF Outdated, VersionsMatch, TypeOK, Token
<1>2. \A g : g \in Honoured' <=> g \in Honoured
  BY <1>1, HonouredIs
<1>. QED
  BY <1>2 DEF Belongs

(* What a write of the row of u announces. *)
LEMMA AnnouncedRow ==
    ASSUME TypeOK, NEW u \in User, unannounced' = unannounced \/ Announce,
           \A x \in User \ {u} : permissionsVersion'[x] = permissionsVersion[x]
    PROVE  unannounced' \in {unannounced, [unannounced EXCEPT ![u] = {}]}
<1>1. CASE permissionsVersion'[u] = permissionsVersion[u]
  BY <1>1 DEF TypeOK, Announce
<1>2. CASE permissionsVersion'[u] # permissionsVersion[u]
  BY <1>2 DEF TypeOK, Announce
<1>. QED
  BY <1>1, <1>2

(* A write of the row of u, with roles rs, that outdates its tokens. *)
LEMMA RowRewritten ==
    ASSUME TypeOK, NEW u \in User, NEW rs \in SUBSET Role, UNCHANGED tokenVars,
           roles' = [roles EXCEPT ![u] = rs],
           unannounced' = unannounced \/ Announce,
           \A x \in User \ {u} : /\ Member(x)' = Member(x)
                                /\ permissionsVersion'[x] = permissionsVersion[x]
                                /\ attributesVersion'[x] = attributesVersion[x],
           \A t \in tokens : t.user = u => Outdated(t)'
    PROVE  Live!Next
<1>1. \A t \in tokens : Outdated(t)' <=> Outdated(t) \/ t.user \in {u}
  BY DEF Outdated, VersionsMatch, TypeOK, Token
<1>2. Honoured' = {g \in Honoured : g.user \notin {u}}
  BY <1>1, OthersStayHonoured DEF tokenVars
<1>0. unannounced' \in {unannounced, [unannounced EXCEPT ![u] = {}]}
  BY AnnouncedRow
<1>3. CASE Member(u)'
  <2>1. Belongs' = Belongs \cup {u}
    BY <1>3 DEF Belongs
  <2>2. Live!Rewrite(u, rs, TRUE)
    BY <1>0, <1>2, <2>1 DEF Live!Rewrite, Live!Without, Belongs, tokenVars
  <2>. QED
    BY <2>2 DEF Live!Next
<1>4. CASE ~Member(u)'
  <2>1. Belongs' = Belongs \ {u}
    BY <1>4 DEF Belongs
  <2>2. Live!Rewrite(u, rs, FALSE)
    BY <1>0, <1>2, <2>1 DEF Live!Rewrite, Live!Without, Belongs, tokenVars
  <2>. QED
    BY <2>2 DEF Live!Next
<1>. QED
  BY <1>3, <1>4

(* A version that was incremented outdates every token of its row. *)
LEMMA BumpOutdates ==
    ASSUME IInv, NEW t \in tokens, NEW us, t.user \in us,
           \/ permissionsVersion' = Bump(permissionsVersion, us)
           \/ attributesVersion' = Bump(attributesVersion, us)
    PROVE  Outdated(t)'
<1>1. /\ t.user \in User /\ t.pv \in Nat /\ t.av \in Nat
      /\ permissionsVersion[t.user] \in Nat /\ attributesVersion[t.user] \in Nat
      /\ t.pv <= permissionsVersion[t.user] /\ t.av <= attributesVersion[t.user]
  BY DEF IInv, TypeOK, Token, VersionsPast
<1>. QED
  BY <1>1 DEF Outdated, VersionsMatch, Bump

LEMMA BumpLeaves ==
    ASSUME NEW versions \in [User -> Nat], NEW us, NEW x \in User \ us
    PROVE  Bump(versions, us)[x] = versions[x]
BY DEF Bump

LEMMA AcceptLive == ASSUME IInv, NEW r \in Request, Accept(r) PROVE Live!Next
<1>. DEFINE u == req[r].user
<1>. DEFINE offered == {req[r].role} \ {None}
<1>. DEFINE promoted == IF offered = {} THEN {} ELSE {u}
<1>1. u \in User /\ TypeOK
  BY DEF Accept, IInv, RequestsKnow
<1>2. offered \subseteq Role
  BY <1>1 DEF TypeOK, RequestState
<1>3. /\ roles' = [roles EXCEPT ![u] = roles[u] \cup offered]
      /\ status' = [status EXCEPT ![u] = "active"] /\ deleted' = deleted \ {u}
      /\ attributesVersion' = Bump(attributesVersion, Returning(u))
      /\ permissionsVersion' = Bump(permissionsVersion, promoted)
      /\ UNCHANGED tokenVars /\ Announce
  BY DEF Accept, AcceptedVersion
<1>4. roles[u] \cup offered \in SUBSET Role
  BY <1>1, <1>2 DEF TypeOK
<1>. HIDE DEF offered
<1>5. ASSUME NEW x \in User \ {u}
      PROVE  /\ Member(x)' = Member(x)
             /\ permissionsVersion'[x] = permissionsVersion[x]
             /\ attributesVersion'[x] = attributesVersion[x]
  BY <1>1, <1>3, BumpLeaves DEF TypeOK, Member, Returning
<1>6. ASSUME NEW t \in tokens, t.user = u PROVE Outdated(t)'
  <2>1. t.user \in Returning(u)
    BY <1>6 DEF IInv, VersionsPast, Returning
  <2>. QED
    BY <1>3, <2>1, BumpOutdates
<1>. QED
  BY <1>1, <1>3, <1>4, <1>5, <1>6, RowRewritten

LEMMA RemoveLive == ASSUME IInv, NEW r \in Request, Remove(r) PROVE Live!Next
<1>0. req[r].user \in User /\ TypeOK
  BY DEF Remove, IInv, RequestsKnow, At
<1>1. PICK u \in User : u = req[r].user
  BY <1>0
<1>2. roles' = [roles EXCEPT ![u] = roles[u]] /\ roles[u] \in SUBSET Role
  BY <1>0, <1>1 DEF Remove, TypeOK
<1>3. ASSUME NEW x \in User \ {u}
      PROVE  /\ Member(x)' = Member(x)
             /\ permissionsVersion'[x] = permissionsVersion[x]
             /\ attributesVersion'[x] = attributesVersion[x]
  BY <1>0, <1>1 DEF Remove, TypeOK, Member, versionVars
<1>4. ~Member(u)'
  BY <1>1 DEF Remove, Member
<1>. QED
  BY <1>0, <1>2, <1>3, <1>4, RowRewritten DEF Remove, Outdated

LEMMA UpdateAttributesLive ==
    ASSUME IInv, NEW u \in User, NEW s \in {"active", "inactive", None}, NEW changed \in BOOLEAN,
           UpdateAttributes(u, s, changed)
    PROVE  [Live!Next]_(Live!vars)
<1>1. \A x \in User : Member(x)' = Member(x)
  BY MembershipAssumption DEF UpdateAttributes, IInv, TypeOK, Member
<1>2. CASE changed
  <2>1. roles' = [roles EXCEPT ![u] = roles[u]] /\ roles[u] \in SUBSET Role
    BY DEF UpdateAttributes, IInv, TypeOK
  <2>2. attributesVersion' = Bump(attributesVersion, {u}) /\ UNCHANGED permissionsVersion
    BY <1>2 DEF UpdateAttributes
  <2>3. \A x \in User \ {u} : attributesVersion'[x] = attributesVersion[x]
    BY <2>2, BumpLeaves DEF IInv, TypeOK
  <2>4. \A t \in tokens : t.user = u => Outdated(t)'
    BY <2>2, BumpOutdates
  <2>. QED
    BY <1>1, <2>1, <2>2, <2>3, <2>4, RowRewritten DEF UpdateAttributes, IInv
<1>3. CASE ~changed
  <2>1. attributesVersion' = attributesVersion
    BY <1>3 DEF UpdateAttributes, Bump, IInv, TypeOK
  <2>2. Honoured' = Honoured /\ Belongs' = Belongs
    BY <1>1, <2>1, HonouredStays DEF UpdateAttributes, tokenVars, IInv
  <2>. QED
    BY <2>2 DEF UpdateAttributes, tokenVars, Live!vars, Belongs
<1>. QED
  BY <1>2, <1>3

LEMMA RolesLive ==
    ASSUME IInv, NEW u \in User, NEW ro \in Role,
           AssignToMembership(u, ro) \/ RevokeFromMembership(u, ro)
    PROVE  Live!Next
<1>. DEFINE rs == IF AssignToMembership(u, ro) THEN roles[u] \cup {ro} ELSE roles[u] \ {ro}
<1>1. TypeOK /\ rs \in SUBSET Role
  BY DEF IInv, TypeOK
<1>2. /\ roles' = [roles EXCEPT ![u] = rs]
      /\ permissionsVersion' = Bump(permissionsVersion, {u})
      /\ UNCHANGED <<status, deleted, attributesVersion, tokenVars>> /\ Announce
  BY DEF AssignToMembership, RevokeFromMembership, RevokedVersion
<1>. HIDE DEF rs
<1>3. ASSUME NEW x \in User \ {u}
      PROVE  /\ Member(x)' = Member(x)
             /\ permissionsVersion'[x] = permissionsVersion[x]
             /\ attributesVersion'[x] = attributesVersion[x]
  BY <1>1, <1>2, BumpLeaves DEF TypeOK, Member
<1>4. \A t \in tokens : t.user = u => Outdated(t)'
  BY <1>2, BumpOutdates
<1>. QED
  BY <1>1, <1>2, <1>3, <1>4, RowRewritten

(* Single sign-on gives roles that the tokens need not name. *)
LEMMA ProvisionLive ==
    ASSUME IInv, NEW u \in User, NEW ros \in SUBSET Role, Provision(u, ros)
    PROVE  Live!Next
<1>. DEFINE Came == status[u] = None /\ u \notin deleted
<1>1. TypeOK /\ UNCHANGED <<deleted, permissionsVersion, attributesVersion, tokenVars>>
  BY DEF IInv, Provision, versionVars
<1>2. ASSUME NEW x \in User PROVE Member(x)' <=> Member(x) \/ (x = u /\ Came)
  BY <1>1, MembershipAssumption DEF Provision, Member, TypeOK
<1>3. Belongs' \in {Belongs, Belongs \cup {u}}
  BY <1>2 DEF Belongs
<1>4. ASSUME NEW t \in tokens PROVE Outdated(t)' <=> Outdated(t)
  <2>1. t.user \in User /\ status[t.user] # None
    BY <1>1 DEF TypeOK, Token, IInv, VersionsPast
  <2>2. Member(t.user)' <=> Member(t.user)
    BY <1>2, <2>1
  <2>. QED
    BY <1>1, <2>2 DEF Outdated, VersionsMatch
<1>5. Honoured' = Honoured
  <2>1. \A g : g \in Honoured' <=> g \in Honoured
    BY <1>1, <1>4, HonouredIs DEF tokenVars
  <2>. QED
    BY <2>1
<1>6. Live!GiveLate(u, ros)
  BY <1>1, <1>3, <1>5 DEF Provision, Live!GiveLate, Belongs, tokenVars
<1>. QED
  BY <1>6 DEF Live!Next

(* Reporting a deletion: the holders that were found include everyone with *)
(* a token that names the role and is honoured.                            *)
LEMMA BumpHoldersLive == ASSUME IInv, NEW r \in Request, BumpHolders(r) PROVE Live!Next
<1>. DEFINE ro == req[r].role
<1>. DEFINE us == req[r].found
<1>1. /\ TypeOK /\ ro \in deletedRoles /\ ro \in Role /\ us \in SUBSET User
      /\ permissionsVersion' = Bump(permissionsVersion, us)
      /\ reported' = reported \cup {ro}
      /\ UNCHANGED <<status, deleted, roles, attributesVersion, tokens, deletedRoles>>
  BY DEF BumpHolders, IInv, RequestsKnow, TypeOK, RequestState, At
<1>2. \A g \in Honoured : ro \in g.roles => g.user \in us
  BY HonouredIs DEF Grant, BumpHolders, IInv, DeletionFinds
<1>3. ASSUME NEW t \in tokens PROVE Outdated(t)' <=> Outdated(t) \/ t.user \in us
  <2>1. CASE t.user \in us
    BY <1>1, <2>1, BumpOutdates
  <2>2. CASE t.user \notin us
    BY <1>1, <2>2, BumpLeaves DEF Outdated, VersionsMatch, Member, TypeOK, Token
  <2>. QED
    BY <2>1, <2>2
<1>4. Honoured' = {g \in Honoured : g.user \notin us}
  BY <1>1, <1>3, OthersStayHonoured
<1>5. Belongs' = Belongs
  BY <1>1 DEF Belongs, Member
<1>0. unannounced' = [u \in User |-> IF u \in us THEN {} ELSE unannounced[u]]
  <2>1. \A u \in User : permissionsVersion'[u] = permissionsVersion[u] <=> u \notin us
    BY <1>1 DEF Bump, TypeOK
  <2>. QED
    BY <2>1 DEF BumpHolders, Announce
<1>. HIDE DEF ro, us
<1>6. Live!Report(ro, us)
  BY <1>0, <1>1, <1>2, <1>4, <1>5 DEF Live!Report, Live!Without, Belongs
<1>. QED
  BY <1>1, <1>6 DEF Live!Next

(* What is signed is honoured only when neither version has moved since it *)
(* was read: then the roles are those of this moment.                      *)
LEMMA SignLive == ASSUME IInv, NEW r \in Request, Sign(r) PROVE [Live!Next]_(Live!vars)
<1>. DEFINE u == req[r].user
<1>. DEFINE t == Signed(r)
<1>1. /\ TypeOK /\ u \in User /\ t.user = u /\ At(r, "sign")
      /\ t.roles = req[r].names \ deletedRoles /\ t.pv = req[r].pv
  BY DEF Sign, IInv, RequestsKnow, Signed, At
<1>2. /\ tokens' = tokens \cup {t}
      /\ UNCHANGED <<status, deleted, roles, permissionsVersion, attributesVersion,
                     unannounced, deletedRoles, reported>>
  BY DEF Sign, memberVars, versionVars
<1>3. Belongs' = Belongs
  BY <1>2 DEF Belongs, Member
<1>4. \A x : Outdated(x)' <=> Outdated(x)
  BY <1>2 DEF Outdated, VersionsMatch, Member
<1>. HIDE DEF t
<1>5. CASE Outdated(t)
  <2>1. Honoured' = Honoured
    BY <1>2, <1>4, <1>5, HonouredIs
  <2>. QED
    BY <1>2, <1>3, <2>1 DEF Live!vars, Belongs
<1>6. CASE ~Outdated(t)
  <2>1. t.pv = permissionsVersion[u] /\ u \in Belongs
    BY <1>1, <1>6 DEF Outdated, VersionsMatch, Belongs
  <2>2. /\ t.roles \in SUBSET Role /\ t.roles \subseteq roles[u] \ deletedRoles
        /\ roles[u] \ (deletedRoles \cup unannounced[u]) \subseteq t.roles
    BY <1>1, <2>1 DEF IInv, RolesExact, TypeOK, RequestState
  <2>3. Grant(t) = [user |-> u, roles |-> t.roles]
    BY <1>1 DEF Grant
  <2>4. Honoured' = Honoured \cup {Grant(t)}
    BY <1>2, <1>4, <1>6, HonouredIs
  <2>5. Live!Grant(u, t.roles)
    BY <1>2, <1>3, <2>1, <2>2, <2>3, <2>4 DEF Live!Grant, Belongs
  <2>. QED
    BY <1>1, <2>2, <2>5 DEF Live!Next
<1>. QED
  BY <1>5, <1>6

LEMMA DeleteRoleLive ==
    ASSUME IInv, NEW r \in Request, NEW ro \in Role, DeleteRole(r, ro) PROVE Live!Next
<1>1. Honoured' = Honoured /\ Belongs' = Belongs
  BY HonouredStays DEF DeleteRole, memberVars, versionVars, IInv, Member
<1>2. Live!Retire(ro)
  BY <1>1 DEF DeleteRole, memberVars, Live!Retire, Belongs
<1>. QED
  BY <1>2 DEF Live!Next

(* Every other step only reads, or writes what is not about tokens. *)
LEMMA ReadLive ==
    ASSUME IInv, UNCHANGED <<memberVars, tokenVars>> PROVE UNCHANGED Live!vars
<1>1. Honoured' = Honoured /\ Belongs' = Belongs
  BY HonouredStays DEF memberVars, versionVars, tokenVars, IInv, Member
<1>. QED
  BY <1>1 DEF Live!vars, Belongs, memberVars, tokenVars

LEMMA LiveInit == Init => Live!Init
<1>. SUFFICES ASSUME Init PROVE Live!Init
  OBVIOUS
<1>1. TypeOK
  BY InitInv DEF IInv
<1>2. Honoured = {}
  BY DEF Init, Honoured
<1>. QED
  BY <1>1, <1>2, SMTT(60) DEF Live!Init, Init, TypeOK

LEMMA LiveNext == IInv /\ [Next]_vars => [Live!Next]_(Live!vars)
<1>. SUFFICES ASSUME IInv, [Next]_vars PROVE [Live!Next]_(Live!vars)
  OBVIOUS
<1>1. ASSUME NEW r \in Request, RequestArrives(r) PROVE [Live!Next]_(Live!vars)
  BY <1>1, DeleteRoleLive, ReadLive
     DEF RequestArrives, ReadInvitation, CountAdmins, ReadMembership
<1>2. ASSUME NEW r \in Request, Step(r) PROVE [Live!Next]_(Live!vars)
  BY <1>2, AcceptLive, RemoveLive, BumpHoldersLive, SignLive, ReadLive
     DEF Step, CheckMember, FindHolders, ReadUserRoles, Die
<1>3. CASE Write
  BY <1>3, UpdateAttributesLive, RolesLive, ProvisionLive, ReadLive
     DEF Write, Invite, RevokeInvitation
<1>4. CASE UNCHANGED vars
  BY <1>4, ReadLive DEF vars
<1>. QED
  BY <1>1, <1>2, <1>3, <1>4 DEF Next

(* Versions that are read first and incremented last make the tokens that  *)
(* JwtStrategy does not find outdated as good as a look at the roles of    *)
(* the user, made in one step and ended by any change of the membership    *)
(* but the roles that single sign-on gives.                                *)
THEOREM TokensAreLive == Spec => ImplementsLiveRoles
<1>1. IInv /\ [Next]_vars => [Live!Next]_(Live!vars)
  BY LiveNext
<1>. QED
  BY <1>1, LiveInit, Inductive, PTL DEF Spec, ImplementsLiveRoles, Live!Spec
=============================================================================
