----------------------------- MODULE AccessGuard -----------------------------
(***************************************************************************)
(* One member asks, others change the rules: AuthorizationGuard over       *)
(* AuthorizationService, while PolicyService writes policies and           *)
(* MembershipService the attributes of the member.                         *)
(*                                                                         *)
(* The guard reads in many statements.  It takes a snapshot of attributes  *)
(* and policies, for the policies a route names and its inline attributes, *)
(* and reads both again for every permission the route requires.           *)
(* Attributes come from a cache, which no write of them invalidates.       *)
(*                                                                         *)
(* An attribute is a fact that holds of the member or not, and a condition *)
(* of a policy asks for one: PolicyEvaluation has the conditions in full.  *)
(* What the roles permit, which PermissionCache follows, may be anything   *)
(* here.  What is computed from the snapshot is computed where it is read. *)
(***************************************************************************)
EXTENDS Naturals, FiniteSets

CONSTANTS
    Policy,         \* ids of rows of policies
    System,         \* those with isSystem set
    Scope,          \* Scope[p]: "all", "own" or "other", its organizationId
    Slug,           \* Slug[p]
    Concerns,       \* Concerns[p]: the requirements its resource and action match
    Fact,
    Inactive,       \* the facts that say the membership is not ACTIVE
    Route,          \* [mode, permissions, slugs, attributes, owner, type]
    Resource,       \* [type, id, organizations, ownerId], what loaders can find
    Ids,            \* ids a request can name
    Active,         \* the active organization of the member
    Caller,         \* the id of the member's user
    Written,        \* bound: the rows callers write
    Request,        \* requests that can be in flight at once
    Nil

Row == [effect : {"ALLOW", "DENY"}, isEnabled : BOOLEAN, conditions : SUBSET Fact,
        assigned : BOOLEAN]
Entry == [value : SUBSET Fact, expires : BOOLEAN]

ASSUME GuardAssumption ==
    /\ System \subseteq Policy /\ Inactive \subseteq Fact /\ Written \subseteq Row
    /\ \A row \in Row : row # Nil
    /\ \A entry \in Entry : entry # Nil
    /\ \A route \in Route : Nil \notin route.permissions

VARIABLES
    policy,         \* policy[p], Nil without a row
    facts,          \* what holds of the member
    entry,          \* the entry of the attribute cache
    tokenCurrent,   \* the member's access token has the versions of the row
    req,            \* req[r], what request r has read and where it stands
    standing        \* ghost: standing[r], DENYs that applied all through request r

guardVars == <<policy, facts, entry, tokenCurrent, req, standing>>

-----------------------------------------------------------------------------
(* What applies. *)

(* resolveForMembership: what is not assigned applies all the same. *)
InForce(p) ==
    /\ policy[p] # Nil /\ policy[p].isEnabled
    /\ p \in System \/ Scope[p] \in {"all", "own"} \/ policy[p].assigned

RuleOf(p) == [id |-> p, effect |-> policy[p].effect, conditions |-> policy[p].conditions]
Resolved == {RuleOf(p) : p \in {q \in Policy : InForce(q)}}

Denying(p) ==
    /\ InForce(p)
    /\ policy[p].effect = "DENY"
    /\ policy[p].conditions \subseteq facts
    /\ entry # Nil => policy[p].conditions \subseteq entry.value

(* A DENY stands for a request while its row is the same and it applies,   *)
(* by the row of the member and by the cache.                              *)
Observe ==
    standing' = [r \in Request |-> {p \in standing[r] : policy'[p] = policy[p] /\ Denying(p)'}]

PC == {"idle", "bump", "invalidate", "resource", "facts", "storeFacts", "haveFacts", "next",
       "admitted", "refused"}
Requirement == UNION {route.permissions : route \in Route}

RequestState ==
    [pc : PC, route : Route \cup {Nil}, id : Ids \cup {Nil}, policy : Policy \cup {Nil},
     asked : Requirement \cup {Nil}, todo : SUBSET Requirement,
     rules : SUBSET [id : Policy, effect : {"ALLOW", "DENY"}, conditions : SUBSET Fact],
     facts : SUBSET Fact, decisions : SUBSET BOOLEAN]

Idle == [pc |-> "idle", route |-> Nil, id |-> Nil, policy |-> Nil, asked |-> Nil,
         todo |-> {}, rules |-> {}, facts |-> {}, decisions |-> {}]

GuardInit ==
    /\ \E seeded \in [System -> {row \in Written : row.isEnabled /\ ~row.assigned}] :
          policy = [p \in Policy |-> IF p \in System THEN seeded[p] ELSE Nil]
    /\ facts = {}
    /\ entry = Nil
    /\ tokenCurrent = FALSE
    /\ req = [r \in Request |-> Idle]
    /\ standing = [r \in Request |-> {}]

At(r, pc) == req[r].pc = pc
Leave(r) == req' = [req EXCEPT ![r] = Idle]
Goto(r, pc) == req' = [req EXCEPT ![r].pc = pc]

-----------------------------------------------------------------------------
(* Mutants.  A permission of the roles is enough; attributes are stored    *)
(* without a lifetime.                                                     *)

Allows_RbacFirst(matched, rbac) == rbac \/ (matched # {} /\ \A rule \in matched : rule.effect = "ALLOW")
Stored_ForEver(value) == [value |-> value, expires |-> FALSE]

-----------------------------------------------------------------------------
(* PolicyService.  The policy was found before, and may be gone. *)

(* What every write does next. *)
Announce(r, p) == req' = [req EXCEPT ![r] = [Idle EXCEPT !.pc = "bump", !.policy = p]]

WritePolicy(r, p, row) ==
    /\ At(r, "idle") /\ row \in Written \cup {Nil}
    /\ policy' = [policy EXCEPT ![p] = row]
    /\ Announce(r, p)
    /\ UNCHANGED <<facts, entry, tokenCurrent>>
    /\ Observe

CreatePolicy(r, p, row) == policy[p] = Nil /\ ~row.assigned /\ WritePolicy(r, p, row)

UpdatePolicy(r, p, effect, enabled) ==
    /\ policy[p] # Nil /\ p \notin System
    /\ WritePolicy(r, p, [policy[p] EXCEPT !.effect = effect, !.isEnabled = enabled])

RemovePolicy(r, p) == policy[p] # Nil /\ p \notin System /\ WritePolicy(r, p, Nil)

(* addCondition, updateCondition, removeCondition, of system policies too. *)
ChangeConditions(r, p, conditions) ==
    /\ policy[p] # Nil
    /\ Cardinality(conditions \ policy[p].conditions) <= 1
    /\ Cardinality(policy[p].conditions \ conditions) <= 1
    /\ WritePolicy(r, p, [policy[p] EXCEPT !.conditions = conditions])

(* assign, unassign. *)
Reassign(r, p, assigned) ==
    /\ policy[p] # Nil
    /\ WritePolicy(r, p, [policy[p] EXCEPT !.assigned = assigned])

(* invalidateAfterPolicyChange: first the versions, then the entries, of   *)
(* the organization the policy belongs to, or of all.                      *)
BumpVersions(r) ==
    /\ At(r, "bump")
    /\ tokenCurrent' = (tokenCurrent /\ Scope[req[r].policy] = "other")
    /\ Goto(r, "invalidate")
    /\ UNCHANGED <<policy, facts, entry, standing>>

(* up: the deletion is not lost. *)
Invalidate(r) ==
    /\ At(r, "invalidate")
    /\ \E up \in BOOLEAN :
          entry' = IF up /\ Scope[req[r].policy] # "other" THEN Nil ELSE entry
    /\ Leave(r)
    /\ UNCHANGED <<policy, facts, tokenCurrent>>
    /\ Observe

-----------------------------------------------------------------------------
(* MembershipService.updateAttributes: the version follows the attributes, *)
(* not the status, and the cache follows neither.                          *)
UpdateAttributes(fs, attributeChanged) ==
    /\ facts \ Inactive # fs \ Inactive => attributeChanged
    /\ facts' = fs
    /\ tokenCurrent' = (tokenCurrent /\ ~attributeChanged)
    /\ UNCHANGED <<policy, entry, req>>
    /\ Observe

(* A login or a refresh. *)
IssueToken ==
    /\ facts \cap Inactive = {}
    /\ tokenCurrent' = TRUE
    /\ UNCHANGED <<policy, facts, entry, req, standing>>

-----------------------------------------------------------------------------
(* The guard. *)

(* JwtStrategy has let the request through. *)
Arrive(r, route, id) ==
    /\ At(r, "idle")
    /\ tokenCurrent /\ facts \cap Inactive = {}
    /\ req' = [req EXCEPT ![r] = [Idle EXCEPT !.pc = "resource", !.route = route, !.id = id]]
    /\ UNCHANGED <<policy, facts, entry, tokenCurrent>>
    /\ standing' = [standing EXCEPT ![r] = {p \in Policy : Denying(p)}]

(* The default loaders.  That of organizations overwrites the id it is     *)
(* asked for with the active one.                                          *)
Found(type, id) ==
    {x \in Resource : /\ x.type = type
                      /\ x.id = IF type = "organization" THEN Active ELSE id
                      /\ Active \in x.organizations}

(* evaluateOwnership. *)
Owns(route, id) == \E x \in Found(route.type, id) : x.ownerId = Caller

LoadResource(r) ==
    /\ At(r, "resource")
    /\ LET route == req[r].route
       IN  req' = [req EXCEPT ![r] = [req[r] EXCEPT
              !.pc = "facts", !.todo = route.permissions,
              !.decisions = IF route.owner THEN {Owns(route, req[r].id)} ELSE {}]]
    /\ UNCHANGED <<policy, facts, entry, tokenCurrent, standing>>

-----------------------------------------------------------------------------
(* resolveAttributes, through the cache. *)

Stored(value) == [value |-> value, expires |-> TRUE]

HitFacts(r) ==
    /\ At(r, "facts")
    /\ entry # Nil
    /\ req' = [req EXCEPT ![r] = [req[r] EXCEPT !.pc = "haveFacts", !.facts = entry.value]]
    /\ UNCHANGED <<policy, facts, entry, tokenCurrent, standing>>

(* No entry, or Redis fails. *)
MissFacts(r) ==
    /\ At(r, "facts")
    /\ req' = [req EXCEPT ![r] = [req[r] EXCEPT !.pc = "storeFacts", !.facts = facts]]
    /\ UNCHANGED <<policy, facts, entry, tokenCurrent, standing>>

(* What is stored may have changed since it was loaded. *)
StoreFacts(r) ==
    /\ At(r, "storeFacts")
    /\ \E up \in BOOLEAN : entry' = IF up THEN Stored(req[r].facts) ELSE entry
    /\ Goto(r, "haveFacts")
    /\ UNCHANGED <<policy, facts, tokenCurrent>>
    /\ Observe

Expire ==
    /\ entry # Nil /\ entry.expires
    /\ entry' = Nil
    /\ UNCHANGED <<policy, facts, tokenCurrent, req>>
    /\ Observe

-----------------------------------------------------------------------------
(* Decisions. *)

Holds(r, rule) == rule.conditions \subseteq req[r].facts

(* evaluatePolicyBySlug: the one with the slug.  evaluateInlineAttributes.  *)
SlugDecisions(r, rules) ==
    {IF slug \in {Slug[rule.id] : rule \in rules} THEN
        LET rule == CHOOSE x \in rules : Slug[x.id] = slug
        IN  Holds(r, rule) /\ rule.effect = "ALLOW"
     ELSE FALSE : slug \in req[r].route.slugs}

InlineDecisions(r) ==
    IF req[r].route.attributes = {} THEN {} ELSE {req[r].route.attributes \subseteq req[r].facts}

(* The snapshot is complete with the policies. *)
Snapshot(r) ==
    /\ At(r, "haveFacts") /\ req[r].asked = Nil
    /\ req' = [req EXCEPT ![r] = [req[r] EXCEPT !.pc = "next",
          !.decisions = req[r].decisions \cup SlugDecisions(r, Resolved) \cup InlineDecisions(r)]]
    /\ UNCHANGED <<policy, facts, entry, tokenCurrent, standing>>

(* AuthorizationService.evaluate reads the policies before the attributes. *)
ReadPolicies(r, requirement) ==
    /\ At(r, "next")
    /\ requirement \in req[r].todo
    /\ req' = [req EXCEPT ![r] = [req[r] EXCEPT !.pc = "facts", !.asked = requirement,
          !.todo = req[r].todo \ {requirement}, !.rules = Resolved]]
    /\ UNCHANGED <<policy, facts, entry, tokenCurrent, standing>>

Allows(matched, rbac) ==
    /\ \A rule \in matched : rule.effect = "ALLOW"
    /\ rbac \/ matched # {}

Evaluate(r) ==
    /\ At(r, "haveFacts") /\ req[r].asked # Nil
    /\ LET matched == {rule \in req[r].rules : /\ req[r].asked \in Concerns[rule.id]
                                               /\ Holds(r, rule)}
       IN  \E rbac \in BOOLEAN :
              req' = [req EXCEPT ![r] = [req[r] EXCEPT !.pc = "next", !.rules = {}, !.facts = {},
                         !.decisions = req[r].decisions \cup {Allows(matched, rbac)}]]
    /\ UNCHANGED <<policy, facts, entry, tokenCurrent, standing>>

(* Without decisions ALL admits and ANY refuses. *)
Admits(mode, decisions) == IF mode = "ALL" THEN FALSE \notin decisions ELSE TRUE \in decisions

Conclude(r) ==
    /\ At(r, "next") /\ req[r].todo = {}
    /\ req' = [req EXCEPT ![r] = [Idle EXCEPT !.route = req[r].route,
          !.pc = IF Admits(req[r].route.mode, req[r].decisions) THEN "admitted" ELSE "refused"]]
    /\ UNCHANGED <<policy, facts, entry, tokenCurrent, standing>>

(* The request is over, or it, or a write's announcement, dies. *)
Finish(r) ==
    /\ ~At(r, "idle")
    /\ Leave(r)
    /\ standing' = [standing EXCEPT ![r] = {}]
    /\ UNCHANGED <<policy, facts, entry, tokenCurrent>>

-----------------------------------------------------------------------------
Step(r) ==
    \/ BumpVersions(r) \/ Invalidate(r)
    \/ LoadResource(r) \/ HitFacts(r) \/ MissFacts(r) \/ StoreFacts(r)
    \/ Snapshot(r) \/ (\E requirement \in req[r].todo : ReadPolicies(r, requirement))
    \/ Evaluate(r) \/ Conclude(r)

RequestArrives(r) ==
    \/ \E route \in Route, id \in Ids : Arrive(r, route, id)
    \/ \E p \in Policy, row \in Written : CreatePolicy(r, p, row)
    \/ \E p \in Policy : RemovePolicy(r, p)
    \/ \E p \in Policy, effect \in {"ALLOW", "DENY"}, enabled \in BOOLEAN :
          UpdatePolicy(r, p, effect, enabled)
    \/ \E p \in Policy, conditions \in SUBSET Fact : ChangeConditions(r, p, conditions)
    \/ \E p \in Policy, assigned \in BOOLEAN : Reassign(r, p, assigned)

GuardNext ==
    \/ \E r \in Request : RequestArrives(r) \/ Step(r) \/ Finish(r)
    \/ \E fs \in SUBSET Fact, changed \in BOOLEAN : UpdateAttributes(fs, changed)
    \/ IssueToken
    \/ Expire

GuardSpec == GuardInit /\ [][GuardNext]_guardVars

(* A request goes on; the lifetime of an entry passes. *)
GuardFairSpec == GuardSpec /\ WF_guardVars(Expire) /\ \A r \in Request : WF_guardVars(Step(r))

-----------------------------------------------------------------------------
(* What must hold. *)

GuardTypeOK ==
    /\ policy \in [Policy -> {Nil} \cup Row]
    /\ facts \subseteq Fact
    /\ entry \in {Nil} \cup Entry
    /\ tokenCurrent \in BOOLEAN
    /\ req \in [Request -> RequestState]
    /\ standing \in [Request -> SUBSET Policy]

(* In mode ALL a request is refused when a DENY about one of the           *)
(* permissions it needs applied from its beginning to its end, whatever    *)
(* the roles permit, whatever else changed, whichever copy it read.        *)
StandingDenyRefuses ==
    \A r \in Request : At(r, "admitted") /\ req[r].route.mode = "ALL" =>
        \A p \in standing[r] : Concerns[p] \cap req[r].route.permissions = {}

(* Once the attributes of the member stay as they are, the cache has them, *)
(* or nothing, for good.                                                   *)
AttributesTakeEffect ==
    <>[][FALSE]_facts => <>[](entry # Nil => entry.value = facts)

-----------------------------------------------------------------------------
(* While the attributes stay, requests that carry an older copy to the     *)
(* cache only get fewer, the entry becomes stale only by using one of them *)
(* up, and every entry has a lifetime.                                     *)
Outdated == {r \in Request : At(r, "storeFacts") /\ req[r].facts # facts}
StaleEntry == entry # Nil /\ entry.value # facts

FactsRunOut ==
    /\ Outdated' \subseteq Outdated
    /\ StaleEntry' => StaleEntry \/ Outdated' # Outdated
    /\ entry' # Nil => entry'.expires

StaleFactsRunOut == [][UNCHANGED facts => FactsRunOut]_guardVars

(* The inductive invariant: how a standing DENY reaches the decision.      *)
Asking(r) == req[r].pc \in {"facts", "storeFacts", "haveFacts"}

(* Still to be asked, being asked, or refused. *)
Attended(r, requirement) ==
    \/ requirement \in req[r].todo
    \/ Asking(r) /\ req[r].asked = requirement
    \/ FALSE \in req[r].decisions

Sees(r, p) ==
    /\ Denying(p)
    /\ req[r].pc \in {"storeFacts", "haveFacts"} => policy[p].conditions \subseteq req[r].facts
    /\ Asking(r) /\ req[r].asked # Nil => RuleOf(p) \in req[r].rules
    /\ Asking(r) \/ At(r, "next") =>
          \A requirement \in Concerns[p] \cap req[r].route.permissions : Attended(r, requirement)
    /\ At(r, "admitted") /\ req[r].route.mode = "ALL" =>
          Concerns[p] \cap req[r].route.permissions = {}

Served(r) ==
    /\ req[r].pc \notin {"idle", "bump", "invalidate"} => req[r].route \in Route
    /\ At(r, "resource") => req[r].asked = Nil
    /\ \A p \in standing[r] : Sees(r, p)

GuardIInv ==
    /\ GuardTypeOK
    /\ \A r \in Request : Served(r)
    /\ entry # Nil => entry.expires
=============================================================================
