------------------------ MODULE PermissionCacheProofs ------------------------
(* PermissionCache for any number of users, roles, permissions, requests.  *)
EXTENDS PermissionCache, TLAPS

-----------------------------------------------------------------------------
(* Types. *)

LEMMA InitType == Init => TypeOK
<1> SUFFICES ASSUME Init PROVE TypeOK
  OBVIOUS
<1>1. PICK seeded \in [SystemRole -> SUBSET Permission] :
        grants = [ro \in Role |-> IF ro \in SystemRole THEN seeded[ro] ELSE None]
  BY DEF Init
<1>2. grants \in [Role -> {None} \cup SUBSET Permission]
  BY <1>1
<1>3. \A ro \in SystemRole : grants[ro] # None
  BY <1>1, CacheAssumption
<1> QED
  BY <1>2, <1>3, CacheAssumption DEF Init, TypeOK, Idle, RequestState, PC

LEMMA IdleType == Idle \in RequestState /\ Idle.pc = "idle"
  BY DEF Idle, RequestState, PC

(* What the roles of a member permit are permissions. *)
LEMMA PermitsType == ASSUME TypeOK, NEW u \in User PROVE Permits(u) \in SUBSET Permission
<1>1. \A ro \in roles : grants[ro] \in SUBSET Permission
  BY DEF TypeOK
<1> QED
  BY <1>1 DEF Permits

(* A request that reads keeps its user. *)
LEMMA RequestUpdate ==
    ASSUME TypeOK, NEW r \in Request, NEW state \in RequestState,
           state.pc \in {"load", "store"} => state.user \in User,
           req' = [req EXCEPT ![r] = state]
    PROVE  /\ req' \in [Request -> RequestState]
           /\ \A q \in Request : req'[q].pc \in {"load", "store"} => req'[q].user \in User
  BY DEF TypeOK

(* The steps of the writers keep the types. *)
LEMMA WriterTypes ==
    ASSUME TypeOK, NEW r \in Request,
           \/ FindMembers(r) \/ BumpVersions(r) \/ FindHolders(r) \/ Invalidate(r)
           \/ RemovePermission(r)
           \/ \E p \in Permission : CountUsage(r, p)
           \/ \E ro \in Role, ps \in SUBSET Permission : SetPermissions(r, ro, ps)
           \/ \E ro \in Role : RemoveRole(r, ro)
           \/ \E u \in User, ro \in Role, own \in BOOLEAN :
                 AssignToMembership(r, u, ro, own) \/ RevokeFromMembership(r, u, ro, own)
           \/ \E u \in User : ReassignElsewhere(r, u)
    PROVE  TypeOK'
<1> USE IdleType
<1>1. CASE FindMembers(r)
  <2>1. [req[r] EXCEPT !.pc = "bump", !.found = Holders(req[r].role)] \in RequestState
    BY DEF TypeOK, RequestState, PC, Holders
  <2> QED
    BY <1>1, <2>1 DEF FindMembers, TypeOK, rowVars
<1>2. CASE BumpVersions(r)
  <2>1. [req[r] EXCEPT !.pc = "findHolders", !.found = {}] \in RequestState
    BY DEF TypeOK, RequestState, PC
  <2> QED
    BY <1>2, <2>1 DEF BumpVersions, TypeOK, rowVars, Observe, Changed
<1>3. CASE FindHolders(r)
  <2>1. [req[r] EXCEPT !.pc = "invalidate", !.found = Holders(req[r].role)] \in RequestState
    BY DEF TypeOK, RequestState, PC, Holders
  <2> QED
    BY <1>3, <2>1 DEF FindHolders, TypeOK, rowVars
<1>4. CASE Invalidate(r)
  <2> PICK up \in BOOLEAN : DeleteEntries(req[r].found, up)
    BY <1>4 DEF Invalidate
  <2>1. cache' \in [User -> {None} \cup Entry] /\ excused' \subseteq User
    BY DEF TypeOK, DeleteEntries, RequestState
  <2> QED
    BY <1>4, <2>1 DEF Invalidate, TypeOK, rowVars, Leave
<1>5. CASE RemovePermission(r)
  <2>1. grants' \in [Role -> {None} \cup SUBSET Permission]
    BY <1>5 DEF RemovePermission, TypeOK, Created
  <2>2. \A ro \in Role : Created(ro) => grants'[ro] # None
    BY <1>5, CacheAssumption DEF RemovePermission, TypeOK, Created
  <2>3. {ro \in Role : grants[ro] # None} \subseteq {ro \in Role : grants'[ro] # None}
    BY <2>2 DEF Created
  <2> QED
    BY <1>5, <2>1, <2>3 DEF RemovePermission, TypeOK, Leave, Changed
<1>6. ASSUME NEW p \in Permission, CountUsage(r, p) PROVE TypeOK'
  <2> DEFINE state == [Idle EXCEPT !.pc = "delete", !.permission = p]
  <2>1. state \in RequestState /\ state.pc = "delete"
    BY DEF Idle, RequestState, PC
  <2> QED
    BY <1>6, <2>1, RequestUpdate DEF CountUsage, TypeOK, rowVars
<1>7. ASSUME NEW ro \in Role, Announce(r, ro)
      PROVE  /\ req' \in [Request -> RequestState]
             /\ \A q \in Request : req'[q].pc \in {"load", "store"} => req'[q].user \in User
  <2> DEFINE state == [Idle EXCEPT !.pc = "findMembers", !.role = ro]
  <2>1. state \in RequestState /\ state.pc = "findMembers"
    BY DEF Idle, RequestState, PC
  <2> QED
    BY <1>7, <2>1, RequestUpdate DEF Announce
<1>8. ASSUME NEW ro \in Role, NEW ps \in SUBSET Permission, SetPermissions(r, ro, ps)
      PROVE  TypeOK'
  <2>1. grants' \in [Role -> {None} \cup SUBSET Permission] /\ ps # None
    BY <1>8, CacheAssumption DEF SetPermissions, TypeOK
  <2> QED
    BY <1>7, <1>8, <2>1 DEF SetPermissions, TypeOK, Observe, Changed
<1>9. ASSUME NEW ro \in Role, RemoveRole(r, ro) PROVE TypeOK'
  BY <1>7, <1>9 DEF RemoveRole, TypeOK, Observe, Changed
<1>10. ASSUME NEW u \in User, NEW own \in BOOLEAN,
              NEW ros \in SUBSET {ro \in Role : grants[ro] # None}, Reassign(r, u, ros, own)
       PROVE  TypeOK'
  <2>1. [Idle EXCEPT !.pc = "invalidate", !.found = Outdated(u, own)] \in RequestState
    BY DEF Idle, RequestState, PC, Outdated
  <2>2. excused' \subseteq User
    BY <1>10 DEF Reassign, TypeOK
  <2> QED
    BY <1>10, <2>1, <2>2 DEF Reassign, TypeOK, Observe, Changed
<1>11. ASSUME NEW u \in User, NEW ro \in Role, NEW own \in BOOLEAN,
              AssignToMembership(r, u, ro, own) \/ RevokeFromMembership(r, u, ro, own)
       PROVE  TypeOK'
  <2>1. held[u] \ {ro} \in SUBSET {rl \in Role : grants[rl] # None}
    BY DEF TypeOK
  <2>2. Created(ro) => held[u] \cup {ro} \in SUBSET {rl \in Role : grants[rl] # None}
    BY DEF TypeOK, Created
  <2> QED
    BY <1>10, <1>11, <2>1, <2>2 DEF AssignToMembership, RevokeFromMembership
<1>12. ASSUME NEW u \in User, ReassignElsewhere(r, u) PROVE TypeOK'
  <2> DEFINE state == [Idle EXCEPT !.pc = "invalidate", !.found = {u}]
  <2>1. state \in RequestState /\ state.pc = "invalidate"
    BY DEF Idle, RequestState, PC
  <2> QED
    BY <1>12, <2>1, RequestUpdate DEF ReassignElsewhere, TypeOK, rowVars
<1> QED
  BY <1>1, <1>2, <1>3, <1>4, <1>5, <1>6, <1>8, <1>9, <1>11, <1>12

(* So do those of the readers and of everybody else. *)
LEMMA OtherTypes ==
    ASSUME TypeOK,
           \/ \E r \in Request : \/ Load(r) \/ Store(r) \/ Die(r)
                                \/ \E u \in User : Miss(r, u)
           \/ Write
           \/ UNCHANGED vars
    PROVE  TypeOK'
<1> USE IdleType
<1>1. ASSUME NEW r \in Request, Load(r) PROVE TypeOK'
  <2>1. req[r].user \in User
    BY <1>1 DEF Load, At, TypeOK
  <2> DEFINE state == [req[r] EXCEPT !.pc = "store", !.value = Permits(req[r].user)]
  <2>2. state \in RequestState /\ state.user = req[r].user
    BY <2>1, PermitsType DEF TypeOK, RequestState, PC
  <2> QED
    BY <1>1, <2>1, <2>2, RequestUpdate DEF Load, TypeOK, rowVars
<1>2. ASSUME NEW r \in Request, Store(r) PROVE TypeOK'
  <2>1. req[r].user \in User /\ req[r].value \in SUBSET Permission
    BY <1>2 DEF Store, At, TypeOK, RequestState
  <2>2. PICK up \in BOOLEAN : SetEntry(req[r].user, req[r].value, up)
    BY <1>2 DEF Store
  <2>3. Stored(req[r].value) \in Entry
    BY <2>1 DEF Stored, Entry
  <2>4. cache' \in [User -> {None} \cup Entry] /\ excused' \subseteq User
    BY <2>1, <2>2, <2>3 DEF SetEntry, TypeOK
  <2> QED
    BY <1>2, <2>4 DEF Store, Leave, TypeOK, rowVars
<1>3. ASSUME NEW r \in Request, Die(r) PROVE TypeOK'
  BY <1>3 DEF Die, Leave, TypeOK, rowVars, WillDelete
<1>4. ASSUME NEW r \in Request, NEW u \in User, Miss(r, u) PROVE TypeOK'
  <2>1. [Idle EXCEPT !.pc = "load", !.user = u] \in RequestState
    BY DEF Idle, RequestState, PC
  <2> QED
    BY <1>4, <2>1 DEF Miss, Idle, TypeOK, rowVars
<1>5. ASSUME NEW p \in Permission, CreatePermission(p) PROVE TypeOK'
  BY <1>5 DEF CreatePermission, TypeOK
<1>6. ASSUME NEW ro \in Role, NEW ps \in SUBSET Permission, CreateRole(ro, ps) PROVE TypeOK'
  <2>1. grants' \in [Role -> {None} \cup SUBSET Permission] /\ ps # None
    BY <1>6, CacheAssumption DEF CreateRole, TypeOK
  <2> QED
    BY <1>6, <2>1 DEF CreateRole, TypeOK
<1>7. ASSUME NEW u \in User, RemoveMember(u) PROVE TypeOK'
  BY <1>7 DEF RemoveMember, TypeOK
<1>8. ASSUME NEW u \in User, IssueToken(u) PROVE TypeOK'
  BY <1>8 DEF IssueToken, TypeOK, rowVars
<1>9. ASSUME NEW u \in User, Expire(u) PROVE TypeOK'
  BY <1>9 DEF Expire, TypeOK, rowVars
<1>10. ASSUME NEW u \in User, NEW offered \in SUBSET Role, Accept(u, offered) PROVE TypeOK'
  <2>1. held[u] \cup offered \in SUBSET {ro \in Role : grants[ro] # None}
    BY <1>10 DEF Accept, TypeOK, Created
  <2> QED
    BY <1>10, <2>1 DEF Accept, TypeOK, Observe, Changed
<1>11. CASE UNCHANGED vars
  BY <1>11 DEF vars, rowVars, TypeOK
<1>12. ASSUME NEW u \in User, NEW ros \in SUBSET Role, Provision(u, ros) PROVE TypeOK'
  <2>1. held[u] \cup ros \in SUBSET {ro \in Role : grants[ro] # None}
    BY <1>12 DEF Provision, TypeOK, Created
  <2>2. held' \in [User -> SUBSET {ro \in Role : grants'[ro] # None}]
    BY <1>12, <2>1 DEF Provision, TypeOK
  <2>3. /\ removed' \subseteq User /\ current' \subseteq User
        /\ unaware' \subseteq current' /\ excused' \subseteq User
    BY <1>12 DEF Provision, TypeOK, Changed
  <2> QED
    BY <1>12, <2>2, <2>3 DEF Provision, TypeOK
<1> QED
  BY <1>1, <1>2, <1>3, <1>4, <1>5, <1>6, <1>7, <1>8, <1>9, <1>10, <1>11, <1>12 DEF Write

LEMMA TypeStep == TypeOK /\ [Next]_vars => TypeOK'
  BY WriterTypes, OtherTypes DEF Next, RequestArrives, Step

-----------------------------------------------------------------------------
(* What a step leaves alone. *)

LEMMA SamePermits ==
    ASSUME UNCHANGED <<roles, grants>>, NEW u, UNCHANGED held[u]
    PROVE  Permits(u)' = Permits(u)
  BY DEF Permits

LEMMA OthersWillDelete ==
    ASSUME NEW q, UNCHANGED <<req[q], held, removed>>
    PROVE  WillDelete(q)' = WillDelete(q) /\ WillBump(q)' = WillBump(q)
  BY DEF WillDelete, WillBump, At, Holders

LEMMA NothingChanges ==
    ASSUME UNCHANGED <<roles, grants, held>>
    PROVE  Changed = {} /\ \A u \in User : Permits(u)' = Permits(u)
  BY DEF Permits, Changed

-----------------------------------------------------------------------------
(* Steps that leave the rows and the cache alone: the request still deletes *)
(* what it was about to.                                                   *)

LEMMA KeepsWatch ==
    ASSUME TypeOK, StaleOnlyIfRaced, NEW r \in Request,
           UNCHANGED <<rowVars, cache, excused>>,
           \A q \in Request \ {r} : req'[q] = req[q],
           WillDelete(r) \subseteq WillDelete(r)'
    PROVE  StaleOnlyIfRaced'
<1> SUFFICES ASSUME NEW u \in User \ removed, Stale(u)'
             PROVE  u \in excused \/ \E q \in Request : u \in WillDelete(q)'
  BY DEF StaleOnlyIfRaced, rowVars
<1>1. Stale(u)
  BY NothingChanges DEF rowVars, Stale, Cached
<1>2. CASE u \in excused
  BY <1>2
<1>3. ASSUME NEW q \in Request, u \in WillDelete(q) PROVE u \in WillDelete(q)'
  <2>1. CASE q = r
    BY <1>3, <2>1
  <2>2. CASE q # r
    BY <1>3, <2>2, OthersWillDelete DEF rowVars
  <2> QED
    BY <2>1, <2>2
<1> QED
  BY <1>1, <1>2, <1>3 DEF StaleOnlyIfRaced

LEMMA KeepsBumping ==
    ASSUME TypeOK, ChangesOutdateTokens, NEW r \in Request,
           UNCHANGED <<held, removed>>, unaware' \subseteq unaware,
           \A q \in Request \ {r} : req'[q] = req[q],
           WillBump(r) \subseteq WillBump(r)'
    PROVE  ChangesOutdateTokens'
<1> SUFFICES ASSUME NEW u \in unaware \ removed
             PROVE  \E q \in Request : u \in WillBump(q)'
  BY DEF ChangesOutdateTokens
<1>1. PICK q \in Request : u \in WillBump(q)
  BY DEF ChangesOutdateTokens
<1>2. CASE q = r
  BY <1>1, <1>2
<1>3. CASE q # r
  BY <1>1, <1>3, OthersWillDelete
<1> QED
  BY <1>2, <1>3

LEMMA LookUps ==
    ASSUME IInv, NEW r \in Request,
           \/ FindMembers(r) \/ FindHolders(r) \/ Load(r)
           \/ \E p \in Permission : CountUsage(r, p)
           \/ \E u \in User : Miss(r, u) \/ ReassignElsewhere(r, u)
    PROVE  StaleOnlyIfRaced' /\ ChangesOutdateTokens'
<1> USE DEF At
<1>1. UNCHANGED <<rowVars, current, cache, unaware, excused>>
  BY ZenonT(60) DEF FindMembers, FindHolders, Load, CountUsage, Miss,
     ReassignElsewhere
<1>2. \A q \in Request \ {r} : req'[q] = req[q]
  BY ZenonT(60) DEF FindMembers, FindHolders, Load, CountUsage, Miss,
     ReassignElsewhere, IInv, TypeOK
<1>3. WillDelete(r) \subseteq WillDelete(r)' /\ WillBump(r) \subseteq WillBump(r)'
  <2>1. CASE FindMembers(r)
    <3> DEFINE state == [req[r] EXCEPT !.pc = "bump", !.found = Holders(req[r].role)]
    <3>1. state.pc = "bump" /\ state.found = Holders(req[r].role) /\ state.role = req[r].role
      BY DEF IInv, TypeOK, RequestState
    <3>2. req'[r] = state
      BY <2>1 DEF FindMembers, IInv, TypeOK
    <3> QED
      BY <2>1, <3>1, <3>2, <1>1 DEF FindMembers, WillDelete, WillBump, Holders, rowVars
  <2>2. CASE FindHolders(r)
    <3> DEFINE state == [req[r] EXCEPT !.pc = "invalidate", !.found = Holders(req[r].role)]
    <3>1. state.pc = "invalidate" /\ state.found = Holders(req[r].role)
      BY DEF IInv, TypeOK, RequestState
    <3>2. req'[r] = state
      BY <2>2 DEF FindHolders, IInv, TypeOK
    <3> QED
      BY <2>2, <3>1, <3>2, <1>1 DEF FindHolders, WillDelete, WillBump, Holders, rowVars
  <2>3. CASE req[r].pc \in {"idle", "load"}
    BY <2>3 DEF WillDelete, WillBump
  <2> QED
    BY <2>1, <2>2, <2>3 DEF Load, CountUsage, Miss,
     ReassignElsewhere
<1> QED
  BY <1>1, <1>2, <1>3, KeepsWatch, KeepsBumping, SMTT(60) DEF IInv, rowVars

LEMMA BumpStep ==
    ASSUME IInv, NEW r \in Request, BumpVersions(r)
    PROVE  StaleOnlyIfRaced' /\ ChangesOutdateTokens'
<1> USE DEF At
<1> DEFINE state == [req[r] EXCEPT !.pc = "findHolders", !.found = {}]
<1>1. state.pc = "findHolders" /\ state.role = req[r].role
  BY DEF IInv, TypeOK, RequestState
<1>2. req'[r] = state /\ \A q \in Request \ {r} : req'[q] = req[q]
  BY DEF BumpVersions, IInv, TypeOK
<1>3. UNCHANGED <<rowVars, cache, excused>>
  BY DEF BumpVersions
<1>4. WillDelete(r) \subseteq WillDelete(r)'
  BY <1>1, <1>2, <1>3 DEF BumpVersions, WillDelete, Holders, rowVars
<1>5. StaleOnlyIfRaced'
  BY <1>2, <1>3, <1>4, KeepsWatch DEF IInv
<1>6. unaware' \subseteq unaware \ req[r].found
  BY <1>3, NothingChanges DEF BumpVersions, Observe, rowVars
<1>7. ASSUME NEW u \in unaware' \ removed' PROVE \E q \in Request : u \in WillBump(q)'
  <2>1. PICK q \in Request : u \in WillBump(q)
    BY <1>3, <1>6 DEF IInv, ChangesOutdateTokens, rowVars
  <2>2. q # r
    BY <1>6, <2>1 DEF WillBump, BumpVersions
  <2> QED
    BY <1>2, <1>3, <2>1, <2>2, OthersWillDelete DEF rowVars
<1> QED
  BY <1>5, <1>7 DEF ChangesOutdateTokens

-----------------------------------------------------------------------------
(* Steps on the cache. *)

LEMMA InvalidateStep ==
    ASSUME IInv, NEW r \in Request, Invalidate(r)
    PROVE  StaleOnlyIfRaced' /\ ChangesOutdateTokens'
<1>1. /\ req'[r] = Idle /\ \A q \in Request \ {r} : req'[q] = req[q]
      /\ UNCHANGED <<rowVars, current, unaware>>
  BY DEF Invalidate, Leave, IInv, TypeOK
<1>2. PICK up \in BOOLEAN : DeleteEntries(req[r].found, up)
  BY DEF Invalidate
<1>3. WillBump(r) = {}
  BY DEF Invalidate, At, WillBump
<1>4. ChangesOutdateTokens'
  BY <1>1, <1>3, KeepsBumping DEF IInv, rowVars
<1>5. ASSUME NEW u \in User \ removed, Stale(u)'
      PROVE  u \in excused' \/ \E q \in Request : u \in WillDelete(q)'
  <2>1. Stale(u) /\ (up => u \notin req[r].found) /\ cache'[u] = cache[u]
    BY <1>1, <1>2, <1>5, NothingChanges DEF Stale, Cached, DeleteEntries, rowVars, IInv, TypeOK
  <2>2. CASE u \in excused
    BY <1>2, <2>1, <2>2 DEF DeleteEntries
  <2>3. CASE u \in WillDelete(r)
    BY <1>2, <2>1, <2>3 DEF DeleteEntries, WillDelete, Invalidate, At, Stale
  <2>4. ASSUME NEW q \in Request, q # r, u \in WillDelete(q) PROVE u \in WillDelete(q)'
    BY <1>1, <2>4, OthersWillDelete DEF rowVars
  <2> QED
    BY <2>1, <2>2, <2>3, <2>4 DEF IInv, StaleOnlyIfRaced
<1> QED
  BY <1>1, <1>4, <1>5 DEF StaleOnlyIfRaced, rowVars

LEMMA StoreStep ==
    ASSUME IInv, NEW r \in Request, Store(r)
    PROVE  StaleOnlyIfRaced' /\ ChangesOutdateTokens'
<1> DEFINE v == req[r].user
<1>1. /\ req'[r] = Idle /\ \A q \in Request \ {r} : req'[q] = req[q]
      /\ UNCHANGED <<rowVars, current, unaware>>
  BY DEF Store, Leave, IInv, TypeOK
<1>2. PICK up \in BOOLEAN : SetEntry(v, req[r].value, up)
  BY DEF Store
<1>3. v \in User /\ WillBump(r) = {} /\ WillDelete(r) = {}
  BY DEF Store, At, WillBump, WillDelete, IInv, TypeOK
<1>4. ChangesOutdateTokens'
  BY <1>1, <1>3, KeepsBumping DEF IInv, rowVars
<1>5. ASSUME NEW u \in User \ removed, Stale(u)'
      PROVE  u \in excused' \/ \E q \in Request : u \in WillDelete(q)'
  <2>1. CASE up /\ u = v
    <3>1. cache'[u] = Stored(req[r].value) /\ Permits(u)' = Permits(u)
      BY <1>1, <1>2, <1>3, <2>1, NothingChanges DEF SetEntry, IInv, TypeOK, rowVars
    <3>2. req[r].value # Permits(u)
      BY <1>5, <3>1 DEF Stale, Stored
    <3> QED
      BY <1>2, <2>1, <3>2 DEF SetEntry
  <2>2. CASE ~(up /\ u = v)
    <3>1. Stale(u)
      BY <1>1, <1>2, <1>3, <1>5, <2>2, NothingChanges
      DEF Stale, Cached, SetEntry, rowVars, IInv, TypeOK
    <3>2. CASE u \in excused
      BY <1>2, <2>2, <3>2 DEF SetEntry
    <3>3. ASSUME NEW q \in Request, u \in WillDelete(q) PROVE u \in WillDelete(q)'
      BY <1>1, <1>3, <3>3, OthersWillDelete DEF rowVars
    <3> QED
      BY <3>1, <3>2, <3>3 DEF IInv, StaleOnlyIfRaced
  <2> QED
    BY <2>1, <2>2
<1> QED
  BY <1>1, <1>4, <1>5 DEF StaleOnlyIfRaced, rowVars

LEMMA ExpireStep ==
    ASSUME IInv, NEW v \in User, Expire(v)
    PROVE  StaleOnlyIfRaced' /\ ChangesOutdateTokens'
<1>1. UNCHANGED <<rowVars, current, req, unaware>>
  BY DEF Expire
<1>2. \A q \in Request : WillDelete(q)' = WillDelete(q) /\ WillBump(q)' = WillBump(q)
  BY <1>1, OthersWillDelete DEF rowVars
<1>3. ChangesOutdateTokens'
  BY <1>1, <1>2 DEF IInv, ChangesOutdateTokens, rowVars
<1>4. ASSUME NEW u \in User \ removed, Stale(u)'
      PROVE  Stale(u) /\ (u \in excused => u \in excused')
  BY <1>1, <1>4, NothingChanges DEF Expire, Stale, Cached, rowVars, IInv, TypeOK
<1> QED
  BY <1>1, <1>2, <1>3, <1>4 DEF IInv, StaleOnlyIfRaced, rowVars

-----------------------------------------------------------------------------
(* A request that dies. *)

LEMMA DieStep ==
    ASSUME IInv, NEW r \in Request, Die(r)
    PROVE  StaleOnlyIfRaced' /\ ChangesOutdateTokens'
<1>1. /\ \A q \in Request \ {r} : req'[q] = req[q]
      /\ UNCHANGED <<rowVars, current, cache>>
  BY DEF Die, Leave, IInv, TypeOK
<1>2. ASSUME NEW q \in Request \ {r}
      PROVE  WillDelete(q)' = WillDelete(q) /\ WillBump(q)' = WillBump(q)
  BY <1>1, OthersWillDelete DEF rowVars
<1>3. ASSUME NEW u \in User \ removed, Stale(u)'
      PROVE  u \in excused' \/ \E q \in Request : u \in WillDelete(q)'
  <2>1. Stale(u)
    BY <1>1, <1>3, NothingChanges DEF Stale, Cached, rowVars
  <2>2. CASE u \in WillDelete(r)
    BY <2>1, <2>2 DEF Die, Stale
  <2> QED
    BY <1>2, <2>1, <2>2 DEF IInv, StaleOnlyIfRaced, Die
<1>4. ASSUME NEW u \in unaware' \ removed PROVE \E q \in Request : u \in WillBump(q)'
  BY <1>2 DEF Die, IInv, ChangesOutdateTokens
<1> QED
  BY <1>1, <1>3, <1>4 DEF StaleOnlyIfRaced, ChangesOutdateTokens, rowVars

-----------------------------------------------------------------------------
(* Steps that change what a role permits: its holders are looked up later. *)

LEMMA AnnounceStep ==
    ASSUME IInv, NEW r \in Request, NEW ro \in Role, At(r, "idle"), Announce(r, ro),
           UNCHANGED <<held, removed, current, cache, excused>>, Observe,
           \A rl \in Role \ {ro} : grants'[rl] = grants[rl] /\ (rl \in roles' <=> rl \in roles)
    PROVE  StaleOnlyIfRaced' /\ ChangesOutdateTokens'
<1> DEFINE state == [Idle EXCEPT !.pc = "findMembers", !.role = ro]
<1>1. state.pc = "findMembers" /\ state.role = ro
  BY DEF Idle
<1>2. req'[r] = state /\ \A q \in Request \ {r} : req'[q] = req[q]
  BY DEF Announce, IInv, TypeOK
<1>3. WillDelete(r)' = Holders(ro) /\ WillBump(r)' = Holders(ro)
  BY <1>1, <1>2 DEF WillDelete, WillBump, Holders, At
<1>4. ASSUME NEW q \in Request
      PROVE  WillDelete(q) \subseteq WillDelete(q)' /\ WillBump(q) \subseteq WillBump(q)'
  <2>1. CASE q = r
    BY <2>1 DEF At, WillDelete, WillBump
  <2>2. CASE q # r
    BY <1>2, <2>2, OthersWillDelete
  <2> QED
    BY <2>1, <2>2
<1>5. ASSUME NEW u \in User, ro \notin held[u] PROVE Permits(u)' = Permits(u)
  <2>1. held[u] \subseteq Role \ {ro}
    BY <1>5 DEF IInv, TypeOK
  <2> QED
    BY <2>1 DEF Permits
<1>6. ASSUME NEW u \in User \ removed, Stale(u)'
      PROVE  u \in excused \/ \E q \in Request : u \in WillDelete(q)'
  <2>1. CASE ro \in held[u]
    BY <1>3, <2>1 DEF Holders
  <2>2. CASE ro \notin held[u]
    BY <1>4, <1>5, <1>6, <2>2 DEF Stale, Cached, IInv, StaleOnlyIfRaced
  <2> QED
    BY <2>1, <2>2
<1>7. ASSUME NEW u \in unaware' \ removed PROVE \E q \in Request : u \in WillBump(q)'
  <2>0. u \in User
    BY DEF Observe, IInv, TypeOK
  <2>1. CASE ro \in held[u]
    BY <1>3, <2>0, <2>1 DEF Holders
  <2>2. CASE ro \notin held[u]
    BY <1>4, <1>5, <2>0, <2>2 DEF Observe, Changed, IInv, ChangesOutdateTokens
  <2> QED
    BY <2>1, <2>2
<1> QED
  BY <1>6, <1>7 DEF StaleOnlyIfRaced, ChangesOutdateTokens

LEMMA RoleSteps ==
    ASSUME IInv, NEW r \in Request, NEW ro \in Role,
           RemoveRole(r, ro) \/ \E ps \in SUBSET Permission : SetPermissions(r, ro, ps)
    PROVE  StaleOnlyIfRaced' /\ ChangesOutdateTokens'
<1>1. CASE RemoveRole(r, ro)
  BY <1>1, AnnounceStep DEF RemoveRole
<1>2. ASSUME NEW ps \in SUBSET Permission, SetPermissions(r, ro, ps)
      PROVE  StaleOnlyIfRaced' /\ ChangesOutdateTokens'
  <2>1. \A rl \in Role \ {ro} : grants'[rl] = grants[rl]
    BY <1>2 DEF SetPermissions, IInv, TypeOK
  <2> QED
    BY <1>2, <2>1, AnnounceStep DEF SetPermissions
<1> QED
  BY <1>1, <1>2

LEMMA ReassignStep ==
    ASSUME IInv, NEW r \in Request, NEW v \in User, NEW ros, NEW own \in BOOLEAN,
           Reassign(r, v, ros, own)
    PROVE  StaleOnlyIfRaced' /\ ChangesOutdateTokens'
<1> DEFINE state == [Idle EXCEPT !.pc = "invalidate", !.found = Outdated(v, own)]
<1>1. state.pc = "invalidate" /\ state.found = Outdated(v, own)
  BY DEF Idle
<1>2. /\ req'[r] = state /\ \A q \in Request \ {r} : req'[q] = req[q]
      /\ UNCHANGED <<permissions, roles, grants, removed, cache>> /\ excused \subseteq excused'
  BY DEF Reassign, IInv, TypeOK
<1>3. v \in WillDelete(r)' \/ (Cached(v) => v \in excused')
  <2>1. CASE own
    <3>0. Outdated(v, own) = {v}
      BY <2>1, Zenon DEF Outdated
    <3>1. v \in state.found
      BY <1>1, <3>0
    <3> HIDE DEF state
    <3> QED
      BY <1>1, <1>2, <3>1 DEF WillDelete, At
  <2>2. CASE ~own
    BY <2>2 DEF Reassign
  <2> QED
    BY <2>1, <2>2
<1>4. ASSUME NEW u \in User, u # v PROVE held'[u] = held[u] /\ Permits(u)' = Permits(u)
  <2>1. held'[u] = held[u]
    BY <1>4 DEF Reassign, IInv, TypeOK
  <2> QED
    BY <1>2, <2>1, SamePermits
<1>5. ASSUME NEW u \in User, u # v, NEW q \in Request
      PROVE  /\ u \in WillDelete(q) => u \in WillDelete(q)'
             /\ u \in WillBump(q) => u \in WillBump(q)'
  <2>1. CASE q = r
    BY <2>1 DEF Reassign, At, WillDelete, WillBump
  <2>2. CASE q # r
    BY <1>2, <1>4, <1>5, <2>2 DEF WillDelete, WillBump, Holders, At
  <2> QED
    BY <2>1, <2>2
<1>6. ASSUME NEW u \in User \ removed, Stale(u)'
      PROVE  u \in excused' \/ \E q \in Request : u \in WillDelete(q)'
  <2>1. CASE u = v
    BY <1>2, <1>3, <1>6, <2>1 DEF Stale, Cached
  <2>2. CASE u # v
    BY <1>2, <1>4, <1>5, <1>6, <2>2 DEF Stale, Cached, IInv, StaleOnlyIfRaced
  <2> QED
    BY <2>1, <2>2
<1>7. ASSUME NEW u \in unaware' \ removed PROVE \E q \in Request : u \in WillBump(q)'
  <2>1. u \in User /\ u # v
    BY DEF Reassign, Observe, IInv, TypeOK
  <2>2. u \in unaware
    BY <1>4, <2>1 DEF Reassign, Observe, Changed
  <2> QED
    BY <1>5, <2>1, <2>2 DEF IInv, ChangesOutdateTokens
<1> QED
  BY <1>2, <1>6, <1>7 DEF StaleOnlyIfRaced, ChangesOutdateTokens

(* A permission is removed while a role gets it: what changes is excused.  *)
LEMMA RemovePermissionStep ==
    ASSUME IInv, NEW r \in Request, RemovePermission(r)
    PROVE  StaleOnlyIfRaced' /\ ChangesOutdateTokens'
<1>1. /\ \A q \in Request \ {r} : req'[q] = req[q]
      /\ UNCHANGED <<roles, held, removed, current, cache>>
  BY DEF RemovePermission, Leave, IInv, TypeOK
<1>2. WillDelete(r) = {} /\ WillBump(r) = {}
  BY DEF RemovePermission, At, WillDelete, WillBump
<1>3. ASSUME NEW q \in Request
      PROVE  WillDelete(q) \subseteq WillDelete(q)' /\ WillBump(q) \subseteq WillBump(q)'
  BY <1>1, <1>2, OthersWillDelete
<1>4. ASSUME NEW u \in User \ removed, Stale(u)'
      PROVE  u \in excused' \/ \E q \in Request : u \in WillDelete(q)'
  <2>1. CASE Permits(u)' # Permits(u)
    BY <1>1, <1>4, <2>1 DEF Changed, RemovePermission, Stale, Cached
  <2>2. CASE Permits(u)' = Permits(u)
    BY <1>1, <1>3, <1>4, <2>2 DEF Stale, Cached, RemovePermission, IInv, StaleOnlyIfRaced
  <2> QED
    BY <2>1, <2>2
<1>5. unaware' \subseteq unaware
  BY DEF RemovePermission
<1> QED
  BY <1>1, <1>3, <1>4, <1>5 DEF StaleOnlyIfRaced, ChangesOutdateTokens, IInv

-----------------------------------------------------------------------------
(* Everybody else. *)

(* Who is not removed now was not removed, and has the permissions and the *)
(* entry he had.                                                           *)
LEMMA Undisturbed ==
    ASSUME IInv, UNCHANGED <<held, req, cache, excused>>, removed \subseteq removed',
           unaware' \subseteq unaware, \A u \in User : Permits(u)' = Permits(u)
    PROVE  StaleOnlyIfRaced' /\ ChangesOutdateTokens'
<1>1. ASSUME NEW q \in Request, NEW u \in User \ removed'
      PROVE  /\ u \in WillDelete(q) => u \in WillDelete(q)'
             /\ u \in WillBump(q) => u \in WillBump(q)'
  BY DEF WillDelete, WillBump, Holders, At
<1>2. ASSUME NEW u \in User \ removed', Stale(u)'
      PROVE  u \in excused \/ \E q \in Request : u \in WillDelete(q)'
  BY <1>1, <1>2 DEF Stale, Cached, IInv, StaleOnlyIfRaced
<1>3. ASSUME NEW u \in unaware' \ removed' PROVE \E q \in Request : u \in WillBump(q)'
  BY <1>1 DEF IInv, TypeOK, ChangesOutdateTokens
<1> QED
  BY <1>2, <1>3 DEF StaleOnlyIfRaced, ChangesOutdateTokens

LEMMA AcceptStep ==
    ASSUME IInv, NEW v \in User, NEW offered \in SUBSET Role, Accept(v, offered)
    PROVE  StaleOnlyIfRaced' /\ ChangesOutdateTokens'
<1>1. UNCHANGED <<permissions, roles, grants, cache, req>>
  BY DEF Accept
<1>2. ASSUME NEW u \in User, u # v
      PROVE  Permits(u)' = Permits(u) /\ held'[u] = held[u] /\ (u \in removed' <=> u \in removed)
  <2>1. held'[u] = held[u] /\ (u \in removed' <=> u \in removed)
    BY <1>2 DEF Accept, IInv, TypeOK
  <2> QED
    BY <1>1, <2>1, SamePermits
<1>5. ASSUME NEW u \in User, u # v, NEW q \in Request
      PROVE  /\ u \in WillDelete(q) => u \in WillDelete(q)'
             /\ u \in WillBump(q) => u \in WillBump(q)'
  BY <1>1, <1>2, <1>5 DEF WillDelete, WillBump, Holders, At
<1>3. ASSUME NEW u \in User \ removed', Stale(u)'
      PROVE  u \in excused' \/ \E q \in Request : u \in WillDelete(q)'
  <2>1. CASE u = v
    BY <1>1, <1>3, <2>1 DEF Accept, Stale, Cached
  <2>2. CASE u # v
    <3>1. Stale(u) /\ u \notin removed
      BY <1>1, <1>2, <1>3, <2>2 DEF Accept, Stale, Cached
    <3>2. CASE u \in excused
      BY <3>2 DEF Accept
    <3>3. CASE u \notin excused
      <4>1. PICK q \in Request : u \in WillDelete(q)
        BY <3>1, <3>3 DEF IInv, StaleOnlyIfRaced
      <4> QED
        BY <1>5, <2>2, <4>1
    <3> QED
      BY <3>2, <3>3
  <2> QED
    BY <2>1, <2>2
<1>4. ASSUME NEW u \in unaware' \ removed' PROVE \E q \in Request : u \in WillBump(q)'
  <2>1. u \in User /\ u # v
    BY DEF Accept, Observe, IInv, TypeOK
  <2>2. u \in unaware \ removed
    BY <1>2, <1>4, <2>1 DEF Accept, Observe, Changed
  <2>3. PICK q \in Request : u \in WillBump(q)
    BY <2>2 DEF IInv, ChangesOutdateTokens
  <2> QED
    BY <1>5, <2>1, <2>3
<1> QED
  BY <1>3, <1>4 DEF StaleOnlyIfRaced, ChangesOutdateTokens

(* Single sign-on: whose permissions it changes is excused, and so is who  *)
(* joins; everybody else is seen to as before.                             *)
LEMMA ProvisionStep ==
    ASSUME IInv, NEW v \in User, NEW ros \in SUBSET Role, Provision(v, ros)
    PROVE  StaleOnlyIfRaced' /\ ChangesOutdateTokens'
<1>1. UNCHANGED <<permissions, roles, grants, cache, req>>
  BY DEF Provision
<1>2. ASSUME NEW u \in User
      PROVE  held[u] \subseteq held'[u] /\ (u # v => Permits(u)' = Permits(u))
  <2>1. held[u] \subseteq held'[u] /\ (u # v => held'[u] = held[u])
    BY DEF Provision, IInv, TypeOK
  <2> QED
    BY <1>1, <2>1, SamePermits
<1>3. \/ UNCHANGED <<removed, unaware>> /\ excused' = excused \cup {u \in Changed : Cached(u)}
      \/ /\ removed' = removed \ {v} /\ unaware' = unaware \ {v}
         /\ excused' = excused \cup {u \in {v} : Cached(u)}
  BY DEF Provision
<1>4. ASSUME NEW u \in User \ removed, NEW q \in Request
      PROVE  /\ u \in WillDelete(q) => u \in WillDelete(q)'
             /\ u \in WillBump(q) => u \in WillBump(q)'
  <2>1. u \notin removed' /\ held[u] \subseteq held'[u]
    BY <1>2, <1>3
  <2>2. \A ro : u \in Holders(ro) => u \in Holders(ro)'
    BY <2>1 DEF Holders
  <2> QED
    BY <1>1, <2>2 DEF WillDelete, WillBump, At
<1>5. ASSUME NEW u \in User \ removed', Stale(u)'
      PROVE  u \in excused' \/ \E q \in Request : u \in WillDelete(q)'
  <2>1. cache'[u] = cache[u] /\ Cached(u)
    BY <1>1, <1>5 DEF Stale, Cached
  <2>2. CASE Permits(u)' # Permits(u)
    <3>1. u = v /\ u \in Changed
      BY <1>2, <2>2 DEF Changed
    <3> QED
      BY <1>3, <2>1, <3>1
  <2>3. CASE u \in removed
    BY <1>3, <1>5, <2>1, <2>3
  <2>4. CASE Permits(u)' = Permits(u) /\ u \notin removed
    <3>1. u \in excused \/ \E q \in Request : u \in WillDelete(q)
      BY <1>5, <2>1, <2>4 DEF Stale, Cached, IInv, StaleOnlyIfRaced
    <3> QED
      BY <1>3, <1>4, <2>4, <3>1
  <2> QED
    BY <2>2, <2>3, <2>4
<1>6. ASSUME NEW u \in unaware' \ removed' PROVE \E q \in Request : u \in WillBump(q)'
  <2>1. u \in unaware \ removed /\ u \in User
    BY <1>3, <1>6 DEF IInv, TypeOK
  <2>2. PICK q \in Request : u \in WillBump(q)
    BY <2>1 DEF IInv, ChangesOutdateTokens
  <2> QED
    BY <1>4, <2>1, <2>2
<1> QED
  BY <1>5, <1>6 DEF StaleOnlyIfRaced, ChangesOutdateTokens

LEMMA WriteStep ==
    ASSUME IInv, Write PROVE StaleOnlyIfRaced' /\ ChangesOutdateTokens'
<1>1. ASSUME NEW p \in Permission, CreatePermission(p)
      PROVE  StaleOnlyIfRaced' /\ ChangesOutdateTokens'
  <2>1. UNCHANGED <<roles, grants, held, removed, req, cache, excused, unaware>>
    BY <1>1 DEF CreatePermission
  <2> QED
    BY <2>1, Undisturbed, NothingChanges
<1>2. ASSUME NEW ro \in Role, NEW ps \in SUBSET Permission, CreateRole(ro, ps)
      PROVE  StaleOnlyIfRaced' /\ ChangesOutdateTokens'
  <2>1. ASSUME NEW u \in User PROVE Permits(u)' = Permits(u)
    <3>1. ro \notin held[u] /\ held[u] \subseteq Role
      BY <1>2 DEF CreateRole, Created, IInv, TypeOK
    <3>2. held[u] \cap roles' = held[u] \cap roles /\ held'[u] = held[u]
      BY <1>2, <3>1 DEF CreateRole
    <3>3. \A rl \in held[u] : grants'[rl] = grants[rl]
      BY <1>2, <3>1 DEF CreateRole, IInv, TypeOK
    <3> QED
      BY <3>2, <3>3 DEF Permits
  <2> QED
    BY <1>2, <2>1, Undisturbed DEF CreateRole
<1>3. ASSUME NEW u \in User, RemoveMember(u) PROVE StaleOnlyIfRaced' /\ ChangesOutdateTokens'
  BY <1>3, Undisturbed, NothingChanges DEF RemoveMember
<1>4. ASSUME NEW u \in User, IssueToken(u) PROVE StaleOnlyIfRaced' /\ ChangesOutdateTokens'
  BY <1>4, Undisturbed, NothingChanges DEF IssueToken, rowVars
<1> QED
  BY <1>1, <1>2, <1>3, <1>4, ExpireStep, AcceptStep, ProvisionStep DEF Write

-----------------------------------------------------------------------------
(* The theorems. *)

(* The types, and who is still to be seen to, at every moment. *)
THEOREM Inductive == Spec => []IInv
<1>1. Init => IInv
  <2> SUFFICES ASSUME Init PROVE IInv
    OBVIOUS
  <2>1. StaleOnlyIfRaced /\ ChangesOutdateTokens
    BY DEF Init, StaleOnlyIfRaced, ChangesOutdateTokens
  <2> QED
    BY <2>1, InitType DEF IInv
<1>2. IInv /\ [Next]_vars => IInv'
  <2> SUFFICES ASSUME IInv, [Next]_vars PROVE StaleOnlyIfRaced' /\ ChangesOutdateTokens'
    BY TypeStep DEF IInv
  <2>1. CASE UNCHANGED vars
    BY <2>1, Undisturbed, NothingChanges DEF vars, rowVars
  <2>2. ASSUME NEW r \in Request, RequestArrives(r)
        PROVE  StaleOnlyIfRaced' /\ ChangesOutdateTokens'
    BY <2>2, LookUps, RoleSteps, ReassignStep
    DEF RequestArrives, AssignToMembership, RevokeFromMembership
  <2>3. ASSUME NEW r \in Request, Step(r)
        PROVE  StaleOnlyIfRaced' /\ ChangesOutdateTokens'
    BY <2>3, LookUps, BumpStep, InvalidateStep, StoreStep, RemovePermissionStep DEF Step
  <2> QED
    BY <2>1, <2>2, <2>3, DieStep, WriteStep DEF Next
<1> QED
  BY <1>1, <1>2, PTL DEF Spec

(* Every variable stays in its type. *)
THEOREM TypeCorrect == Spec => []TypeOK
<1>1. IInv => TypeOK
  BY DEF IInv
<1> QED
  BY <1>1, Inductive, PTL

(* An entry of the permission cache that differs from the rows is about to *)
(* be deleted, or the victim of one of the accidents named: setPermissions *)
(* and remove forget nobody, although they look the members up after the   *)
(* change, and assignToMembership and revokeFromMembership only those they *)
(* reach through the route of another organization.                        *)
THEOREM StalenessIsAccounted == Spec => []StaleOnlyIfRaced
<1>1. IInv => StaleOnlyIfRaced
  BY DEF IInv
<1> QED
  BY <1>1, Inductive, PTL

(* Nor do they leave a member a token that passes without an increment of  *)
(* the version on its way.                                                 *)
THEOREM TokensFollow == Spec => []ChangesOutdateTokens
<1>1. IInv => ChangesOutdateTokens
  BY DEF IInv
<1> QED
  BY <1>1, Inductive, PTL

-----------------------------------------------------------------------------
(* What the cache comes to once the rows stay. *)

AllRunOut == \A u \in User : RunsOut(u)

LEMMA PermitsStay == ASSUME UNCHANGED rowVars PROVE \A u : Permits(u)' = Permits(u)
  BY DEF rowVars, Permits

(* A request that goes on to to, when it carries nothing late and entries  *)
(* are at most deleted. *)
LEMMA NothingLate ==
    ASSUME TypeOK, UNCHANGED rowVars, NEW r \in Request, NEW to, req' = [req EXCEPT ![r] = to],
           to.pc # "store" \/ to.value = Permits(to.user),
           \A u \in User : cache'[u] \in {None, cache[u]}
    PROVE  AllRunOut
<1>1. \A q \in Request : req'[q] = IF q = r THEN to ELSE req[q]
  BY DEF TypeOK
<1>2. \A u \in User : Late(u)' \subseteq Late(u)
  BY <1>1, PermitsStay DEF Late, At
<1>3. \A u \in User : (Stale(u)' => Stale(u)) /\ (Cached(u)' => Cached(u))
  BY PermitsStay DEF Stale, Cached
<1> QED
  BY <1>2, <1>3 DEF AllRunOut, RunsOut

LEMMA NoRequest ==
    ASSUME UNCHANGED <<rowVars, req>>, \A u \in User : cache'[u] \in {None, cache[u]}
    PROVE  AllRunOut
  BY PermitsStay DEF AllRunOut, RunsOut, Late, At, Stale, Cached

LEMMA StoreRunsOut ==
    ASSUME TypeOK, UNCHANGED rowVars, NEW r \in Request, Store(r) PROVE AllRunOut
<1>1. /\ At(r, "store") /\ req' = [req EXCEPT ![r] = Idle] /\ Idle.pc = "idle"
      /\ req[r].user \in User
  BY IdleType DEF Store, Leave, TypeOK, At
<1>2. \A q \in Request : req'[q] = IF q = r THEN Idle ELSE req[q]
  BY <1>1 DEF TypeOK
<1>3. PICK up \in BOOLEAN : SetEntry(req[r].user, req[r].value, up)
  BY DEF Store
<1>4. \/ cache' = cache
      \/ cache' = [cache EXCEPT ![req[r].user] = Stored(req[r].value)]
  BY <1>3 DEF SetEntry
<1>5. ASSUME NEW u \in User PROVE Late(u)' \subseteq Late(u)
  BY <1>1, <1>2, PermitsStay DEF Late, At
<1>6. ASSUME NEW u \in User
      PROVE  /\ Stale(u)' => Stale(u) \/ Late(u)' # Late(u)
             /\ Cached(u)' => Cached(u) \/ cache'[u].expires
  <2>1. CASE cache'[u] = cache[u]
    BY <2>1, PermitsStay DEF Stale, Cached
  <2>2. CASE u = req[r].user /\ cache'[u] = Stored(req[r].value)
    <3>1. Stale(u)' => r \in Late(u)
      BY <1>1, <2>2, PermitsStay DEF Stale, Stored, Late
    <3>2. r \notin Late(u)'
      BY <1>1, <1>2 DEF Late, At
    <3> QED
      BY <2>2, <3>1, <3>2 DEF Stored
  <2> QED
    BY <1>4, <2>1, <2>2 DEF TypeOK
<1> QED
  BY <1>5, <1>6 DEF AllRunOut, RunsOut

LEMMA StepRunsOut ==
    ASSUME TypeOK, UNCHANGED rowVars, NEW r \in Request
    PROVE  /\ RequestArrives(r) => AllRunOut
           /\ Step(r) => AllRunOut
           /\ Die(r) => AllRunOut
<1>0. Idle.pc = "idle" /\ req[r] \in RequestState
  BY IdleType DEF TypeOK
<1>1. ASSUME NEW p, CountUsage(r, p) PROVE AllRunOut
  <2>1. [Idle EXCEPT !.pc = "delete", !.permission = p].pc = "delete"
    BY DEF Idle
  <2> QED
    BY <1>1, <2>1, NothingLate DEF CountUsage
<1>2. ASSUME NEW ro, Announce(r, ro), UNCHANGED cache PROVE AllRunOut
  <2>1. [Idle EXCEPT !.pc = "findMembers", !.role = ro].pc = "findMembers"
    BY DEF Idle
  <2> QED
    BY <1>2, <2>1, NothingLate DEF Announce
<1>3. ASSUME NEW u, NEW ros, NEW own, Reassign(r, u, ros, own) \/ ReassignElsewhere(r, u)
      PROVE  AllRunOut
  <2>1. /\ [Idle EXCEPT !.pc = "invalidate", !.found = Outdated(u, own)].pc = "invalidate"
        /\ [Idle EXCEPT !.pc = "invalidate", !.found = {u}].pc = "invalidate"
    BY DEF Idle
  <2> QED
    BY <1>3, <2>1, NothingLate DEF Reassign, ReassignElsewhere
<1>4. ASSUME NEW u, Miss(r, u) PROVE AllRunOut
  <2>1. [Idle EXCEPT !.pc = "load", !.user = u].pc = "load"
    BY DEF Idle
  <2> QED
    BY <1>4, <2>1, NothingLate DEF Miss
<1>5. RequestArrives(r) => AllRunOut
  BY <1>1, <1>2, <1>3, <1>4
     DEF RequestArrives, SetPermissions, RemoveRole, AssignToMembership, RevokeFromMembership
<1>6. CASE FindMembers(r)
  <2>1. [req[r] EXCEPT !.pc = "bump", !.found = Holders(req[r].role)].pc = "bump"
    BY <1>0 DEF RequestState
  <2> QED
    BY <1>6, <2>1, NothingLate DEF FindMembers
<1>7. CASE BumpVersions(r)
  <2>1. [req[r] EXCEPT !.pc = "findHolders", !.found = {}].pc = "findHolders"
    BY <1>0 DEF RequestState
  <2> QED
    BY <1>7, <2>1, NothingLate DEF BumpVersions
<1>8. CASE FindHolders(r)
  <2>1. [req[r] EXCEPT !.pc = "invalidate", !.found = Holders(req[r].role)].pc = "invalidate"
    BY <1>0 DEF RequestState
  <2> QED
    BY <1>8, <2>1, NothingLate DEF FindHolders
<1>9. CASE Invalidate(r)
  <2>1. \A u \in User : cache'[u] \in {None, cache[u]}
    BY <1>9 DEF Invalidate, DeleteEntries
  <2> QED
    BY <1>0, <1>9, <2>1, NothingLate DEF Invalidate, Leave
<1>10. CASE Load(r)
  <2> DEFINE to == [req[r] EXCEPT !.pc = "store", !.value = Permits(req[r].user)]
  <2>1. to.value = Permits(to.user)
    BY <1>0 DEF RequestState
  <2>2. req' = [req EXCEPT ![r] = to] /\ UNCHANGED cache
    BY <1>10 DEF Load
  <2> HIDE DEF to
  <2> QED
    BY <2>1, <2>2, NothingLate
<1>11. CASE RemovePermission(r)
  BY <1>0, <1>11, NothingLate DEF RemovePermission, Leave
<1>12. Step(r) => AllRunOut
  BY <1>6, <1>7, <1>8, <1>9, <1>10, <1>11, StoreRunsOut DEF Step
<1>13. Die(r) => AllRunOut
  BY <1>0, NothingLate DEF Die, Leave
<1> QED
  BY <1>5, <1>12, <1>13

(* resolveForMembership: once roles and permissions stay, the copies that  *)
(* were loaded before only get fewer, an entry becomes stale only by using *)
(* one up, and every new entry has a lifetime.  It is the safety that      *)
(* ChangesTakeEffect needs besides fairness.                               *)
THEOREM StalenessEnds == Spec => StalenessRunsOut
<1>1. ASSUME TypeOK, [Next]_vars, UNCHANGED rowVars PROVE AllRunOut
  <2>1. ASSUME NEW u \in User, Expire(u) PROVE AllRunOut
    BY <2>1, NoRequest DEF Expire, TypeOK
  <2>2. CASE UNCHANGED <<cache, req>>
    BY <1>1, <2>2, NoRequest
  <2>3. CASE Write
    BY <2>1, <2>2, <2>3 DEF Write, CreatePermission, CreateRole, RemoveMember, IssueToken, Accept,
       Provision
  <2> QED
    BY <1>1, <2>2, <2>3, StepRunsOut DEF Next, vars
<1>2. TypeOK /\ [Next]_vars => [UNCHANGED rowVars => AllRunOut]_vars
  BY <1>1
<1> QED
  BY <1>2, TypeCorrect, PTL DEF Spec, StalenessRunsOut, AllRunOut
=============================================================================
