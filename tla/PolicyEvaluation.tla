--------------------------- MODULE PolicyEvaluation ---------------------------
(***************************************************************************)
(* One decision: may this member perform this action on this resource?     *)
(* AuthorizationService.evaluate over the loops of PolicyEvaluatorService  *)
(* and the conditions of ConditionEvaluatorService.                        *)
(*                                                                         *)
(* The permissions, the policies and the attributes have been read; what   *)
(* follows is one synchronous computation, modelled loop by loop.  Rows of *)
(* equal priority, and the conditions of a policy, come from the database  *)
(* in any order.                                                           *)
(*                                                                         *)
(* A value is a tuple: its JavaScript type, then the value itself.  What   *)
(* conversions and string functions return is given by constants.          *)
(***************************************************************************)
EXTENDS Naturals, FiniteSets

CONSTANTS
    Policies,       \* rows of policies that are not seeded
    Members,        \* what the attributes of a member can be
    Resources,      \* what a resource loader can return
    Surroundings,   \* the request and the environment: [request, environment]
    Asked,          \* what can be asked: [resource, action]
    PermissionSets, \* what the roles of a member can permit
    MaxRows,        \* bound: policies resolved for one decision
    None,           \* no membership row, no resource
    Spelled,        \* Spelled[v]: String(v)
    Numeral,        \* Numeral[t]: Number(t), for a string t
    Instant,        \* Instant[t]: new Date(t), for a string t
    Like            \* Like[op]: the pairs of strings the operator op accepts

VARIABLES
    input,          \* what the decision is about, and what has been read for it
    pc,
    remaining,      \* the candidates the outer loop has not reached
    current,        \* the candidate whose conditions are being checked
    pending,        \* those of its conditions that have not been checked
    matched,        \* matchedPolicies
    failed,         \* failedConditions
    decision

vars == <<input, pc, remaining, current, pending, matched, failed, decision>>

-----------------------------------------------------------------------------
(* Values. *)

Undefined == <<"undefined">>
Null == <<"null">>
NaN == <<"NaN">>
Text(t) == <<"string", t>>
Num(n) == <<"number", n>>
Bool(b) == <<"boolean", b>>

IsText(v) == v[1] = "string"
IsArray(v) == v[1] = "array"
Absent(v) == v \in {Undefined, Null}

(* String(v). *)
Spelling(v) == IF IsText(v) THEN v[2] ELSE Spelled[v]

(* Number(v); a date is the number of its milliseconds. *)
ToNumber(v) ==
    CASE v = Null -> Num(0)
      [] v \in {Undefined, NaN} -> NaN
      [] v[1] = "number" -> v
      [] v[1] = "date" -> Num(v[2])
      [] v[1] = "boolean" -> Num(IF v[2] THEN 1 ELSE 0)
      [] OTHER -> Numeral[Spelling(v)]

Falsy == {NaN, Num(0), Text("")}

ToBoolean(v) ==
    CASE v[1] = "boolean" -> v
      [] v = Text("false") -> Bool(FALSE)
      [] OTHER -> Bool(v \notin Falsy)

Converted(v, type) ==
    CASE type = "NUMBER" -> ToNumber(v)
      [] type = "BOOLEAN" -> ToBoolean(v)
      [] type = "DATE" -> IF v[1] = "date" THEN v ELSE Instant[Spelling(v)]
      [] type = "STRING" -> Text(Spelling(v))
      [] OTHER -> v

(* Mutant: only null is left as it is. *)
Coerce_Undefined(v, type) == IF v = Null THEN v ELSE Converted(v, type)

(* What is missing stays missing. *)
Coerce(v, type) == IF Absent(v) THEN v ELSE Converted(v, type)

DeepEqual(v, w) == v = w /\ v # NaN
Elements(v) == {v[2][i] : i \in DOMAIN v[2]}
IsElement(v, array) == \E w \in Elements(array) : DeepEqual(w, v)

(* numericCompare. *)
Exceeds(v, w) == NaN \notin {ToNumber(v), ToNumber(w)} /\ ToNumber(v)[2] > ToNumber(w)[2]
AtLeast(v, w) == NaN \notin {ToNumber(v), ToNumber(w)} /\ ToNumber(v)[2] >= ToNumber(w)[2]

-----------------------------------------------------------------------------
(* Conditions. *)

(* readPath: an attribute that is not there is undefined. *)
Read(root, path) == IF path \in DOMAIN root THEN root[path] ELSE Undefined

(* rootFor, over resolveAttributes: without the row of the membership there *)
(* is nothing but the token, without a resource there is nothing to read.   *)
(* What is null in the row is null here.                                   *)
Context(in) ==
    LET gone == in.member = None
    IN  [USER |-> IF gone THEN [id |-> Text(in.userId), email |-> Text(in.email)]
                 ELSE in.member.user,
         MEMBERSHIP |-> IF gone THEN <<>> ELSE in.member.membership,
         ORGANIZATION |-> IF gone THEN <<>> ELSE in.member.organization,
         RESOURCE |-> IF in.resourceData = None THEN <<>> ELSE in.resourceData,
         REQUEST |-> in.request,
         ENVIRONMENT |-> in.environment]

Resolve(in, source, path) == Read(Context(in)[source], path)

(* A string SOURCE.path names an attribute; any other value is itself. *)
Reference(source, path) == <<"reference", source, path>>

IsReference(v) == v[1] = "reference"

ExpectedValue(in, c) ==
    IF IsReference(c.value) THEN Resolve(in, c.value[2], c.value[3]) ELSE c.value

Actual(in, c) == Coerce(Resolve(in, c.source, c.path), c.valueType)

Expected(in, c) ==
    LET expected == ExpectedValue(in, c)
    IN  IF c.operator \in {"IN", "NOT_IN"} /\ IsArray(expected)
        THEN expected ELSE Coerce(expected, c.valueType)

ApplyOperator(op, actual, expected) ==
    \/ op = "EQUALS" /\ DeepEqual(actual, expected)
    \/ op = "NOT_EQUALS" /\ ~DeepEqual(actual, expected)
    \/ op = "IN" /\ IsArray(expected) /\ IsElement(actual, expected)
    \/ op = "NOT_IN" /\ IsArray(expected) /\ ~IsElement(actual, expected)
    \/ op = "GREATER_THAN" /\ Exceeds(actual, expected)
    \/ op = "GREATER_THAN_OR_EQUAL" /\ AtLeast(actual, expected)
    \/ op = "LESS_THAN" /\ Exceeds(expected, actual)
    \/ op = "LESS_THAN_OR_EQUAL" /\ AtLeast(expected, actual)
    \/ op = "CONTAINS" /\ IsArray(actual) /\ IsElement(expected, actual)
    \/ op = "EXISTS" /\ ~Absent(actual)
    \/ /\ op \in {"CONTAINS", "STARTS_WITH", "ENDS_WITH", "REGEX_MATCH"}
       /\ IsText(actual) /\ IsText(expected)
       /\ <<actual[2], expected[2]>> \in Like[op]

Passes(in, c) == ApplyOperator(c.operator, Actual(in, c), Expected(in, c))

-----------------------------------------------------------------------------
(* Policies. *)

Condition(source, path, operator, value) ==
    [source |-> source, path |-> path, operator |-> operator, value |-> value,
     valueType |-> "STRING"]

SystemPolicy(effect, resource, action, priority, condition) ==
    [effect |-> effect, resource |-> resource, action |-> action,
     priority |-> priority, isEnabled |-> TRUE, conditions |-> {condition}]

EditOwnProfile == SystemPolicy("ALLOW", "users", "update", 200,
    Condition("RESOURCE", "id", "EQUALS", Reference("USER", "id")))

SameOrganizationAccess == SystemPolicy("ALLOW", "*", "*", 100,
    Condition("RESOURCE", "organizationId", "EQUALS", Reference("ORGANIZATION", "id")))

ManagerCanAccessDepartmentUsers == SystemPolicy("ALLOW", "users", "read", 150,
    Condition("RESOURCE", "department", "EQUALS", Reference("MEMBERSHIP", "department")))

AdminCanAccessAllOrgResources == SystemPolicy("ALLOW", "*", "*", 500,
    Condition("MEMBERSHIP", "roles", "CONTAINS", Text("admin")))

DenySuspendedMembers == SystemPolicy("DENY", "*", "*", 10000,
    Condition("MEMBERSHIP", "status", "EQUALS", Text("SUSPENDED")))

EnterprisePlanRequiredForSso == SystemPolicy("ALLOW", "sso", "manage", 300,
    Condition("ORGANIZATION", "plan", "EQUALS", Text("ENTERPRISE")))

SystemPolicies ==
    {EditOwnProfile, SameOrganizationAccess, ManagerCanAccessDepartmentUsers,
     AdminCanAccessAllOrgResources, DenySuspendedMembers, EnterprisePlanRequiredForSso}

(* The attribute sources and the values there are: what a policy names or   *)
(* contains, and what it may find.                                         *)
Sources == {"USER", "MEMBERSHIP", "ORGANIZATION", "RESOURCE", "REQUEST", "ENVIRONMENT"}
Conditions == UNION {p.conditions : p \in SystemPolicies \cup Policies}
Literals == {c.value : c \in {d \in Conditions : ~IsReference(d.value)}}
ValuesOf(root) == {root[path] : path \in DOMAIN root}

MemberValues ==
    UNION {ValuesOf(m.user) \cup ValuesOf(m.membership) \cup ValuesOf(m.organization) : m \in Members}
ResourceValues == UNION {ValuesOf(x) : x \in Resources}
SurroundingValues ==
    UNION {ValuesOf(around.request) \cup ValuesOf(around.environment) : around \in Surroundings}
Attributes == MemberValues \cup ResourceValues \cup SurroundingValues
                  \cup {Text("u1"), Text("e1")}

(* Number and Date return numbers and dates, whatever they are given; what *)
(* comes from JSON and the database has no undefined element.              *)
ASSUME ConversionAssumption ==
    /\ \A t \in DOMAIN Numeral : Numeral[t][1] \in {"number", "NaN"}
    /\ \A t \in DOMAIN Instant : Instant[t][1] \in {"date", "NaN"}
    /\ \A v \in Attributes \cup Literals :
          /\ ~Absent(v) => Spelling(v) \in DOMAIN Numeral \cap DOMAIN Instant
          /\ IsArray(v) => Undefined \notin Elements(v)
    /\ \A c \in Conditions :
          /\ c.source \in Sources
          /\ IsReference(c.value) => c.value[2] \in Sources

(* PolicyEffect is an enumeration of two. *)
ASSUME EffectAssumption == \A p \in Policies : p.effect \in {"ALLOW", "DENY"}

Rows == {rows \in SUBSET (SystemPolicies \cup Policies) : Cardinality(rows) <= MaxRows}

MatchesResource(p, asked) ==
    /\ p.resource \in {"*", asked.resource}
    /\ p.action \in {"*", asked.action}

HasPermission(in) ==
    \E q \in in.permissions : /\ q.resource \in {"*", in.asked.resource}
                              /\ q.action \in {"*", in.asked.action}

Candidates(in) == {p \in in.rows : p.isEnabled /\ MatchesResource(p, in.asked)}

-----------------------------------------------------------------------------
(* What a decision must be, whatever the priorities and the order. *)

Matching(in) == {p \in Candidates(in) : \A c \in p.conditions : Passes(in, c)}
Denies(ps) == \E p \in ps : p.effect = "DENY"

ShouldAllow(in) ==
    /\ in.organization # None
    /\ ~Denies(Matching(in))
    /\ HasPermission(in) \/ Matching(in) # {}

-----------------------------------------------------------------------------
(* The computation. *)

Undecided == [allowed |-> FALSE, matched |-> {}, failed |-> {}]

(* Mutants: the reasons are stripped where they should be given; the outer *)
(* loop ends at the first match; RBAC is looked at first.                  *)
Sanitize_InDevelopment(in, d) ==
    IF in.isDevelopment THEN [d EXCEPT !.matched = {}, !.failed = {}] ELSE d

(* Outside development a decision gives no reasons. *)
Sanitize(in, d) == IF in.isDevelopment THEN d ELSE [d EXCEPT !.matched = {}, !.failed = {}]

Init ==
    /\ \E rows \in Rows, member \in Members \cup {None}, resource \in Resources \cup {None},
          around \in Surroundings, asked \in Asked, permissions \in PermissionSets,
          organization \in {"organization", None}, isDevelopment \in BOOLEAN :
          input = [rows |-> rows, member |-> member, resourceData |-> resource,
                   request |-> around.request, environment |-> around.environment,
                   userId |-> "u1", email |-> "e1", asked |-> asked, permissions |-> permissions,
                   organization |-> organization, isDevelopment |-> isDevelopment]
    /\ pc = "evaluate"
    /\ remaining = {} /\ current = None /\ pending = {}
    /\ matched = {} /\ failed = {}
    /\ decision = Undecided

(* AuthorizationService.evaluate: without an active organization, nothing. *)
RefuseOutsider ==
    /\ pc = "evaluate"
    /\ input.organization = None
    /\ pc' = "done"
    /\ UNCHANGED <<input, remaining, current, pending, matched, failed, decision>>

(* The filters of PolicyEvaluatorService.evaluate. *)
SelectCandidates ==
    /\ pc = "evaluate"
    /\ input.organization # None
    /\ remaining' = Candidates(input)
    /\ pc' = "next"
    /\ UNCHANGED <<input, current, pending, matched, failed, decision>>

(* The outer loop: by priority, highest first. *)
First(p) == p \in remaining /\ \A q \in remaining : q.priority <= p.priority

TakePolicy(p) ==
    /\ pc = "next"
    /\ First(p)
    /\ remaining' = remaining \ {p}
    /\ current' = p
    /\ pending' = p.conditions
    /\ pc' = "conditions"
    /\ UNCHANGED <<input, matched, failed, decision>>

(* allConditionsPass: up to the first condition that fails. *)
CheckCondition(c) ==
    /\ pc = "conditions"
    /\ c \in pending
    /\ \/ /\ Passes(input, c)
          /\ pending' = pending \ {c}
          /\ UNCHANGED <<pc, current, failed>>
       \/ /\ ~Passes(input, c)
          /\ failed' = failed \cup {[policy |-> current, condition |-> c]}
          /\ pc' = "next" /\ current' = None /\ pending' = {}
    /\ UNCHANGED <<input, remaining, matched, decision>>

AfterMatch_Any(p) == "combine"

(* A DENY that matches ends the loop. *)
AfterMatch(p) == IF p.effect = "DENY" THEN "combine" ELSE "next"

PolicyMatches ==
    /\ pc = "conditions"
    /\ pending = {}
    /\ matched' = matched \cup {current}
    /\ pc' = AfterMatch(current)
    /\ current' = None
    /\ UNCHANGED <<input, remaining, pending, failed, decision>>

LoopEnds ==
    /\ pc = "next"
    /\ remaining = {}
    /\ pc' = "combine"
    /\ UNCHANGED <<input, remaining, current, pending, matched, failed, decision>>

Granted_RbacFirst == HasPermission(input) \/ (~Denies(matched) /\ matched # {})

(* DENY over RBAC over ALLOW. *)
Granted == ~Denies(matched) /\ (HasPermission(input) \/ matched # {})

Combine ==
    /\ pc = "combine"
    /\ decision' = Sanitize(input, [allowed |-> Granted, matched |-> matched, failed |-> failed])
    /\ pc' = "done"
    /\ UNCHANGED <<input, remaining, current, pending, matched, failed>>

Done == pc = "done" /\ UNCHANGED vars

Next ==
    \/ RefuseOutsider
    \/ SelectCandidates
    \/ \E p \in remaining : TakePolicy(p)
    \/ \E c \in pending : CheckCondition(c)
    \/ PolicyMatches
    \/ LoopEnds
    \/ Combine
    \/ Done

Spec == Init /\ [][Next]_vars

-----------------------------------------------------------------------------
(* Properties. *)

TypeOK ==
    /\ pc \in {"evaluate", "next", "conditions", "combine", "done"}
    /\ remaining \subseteq Candidates(input)
    /\ matched \subseteq Candidates(input)
    /\ current \in Candidates(input) \cup {None}
    /\ decision \in [allowed : BOOLEAN, matched : {{}, matched}, failed : {{}, failed}]

(* The loops, the early exit and the combination with RBAC decide as the   *)
(* documentation says: a matching DENY refuses whatever its priority, and  *)
(* otherwise a permission or a matching ALLOW admits.                      *)
DenyOverrides == pc = "done" => decision.allowed = ShouldAllow(input)

(* The seeded policy that denies suspended members does: no permission, no *)
(* administrator's role and no policy of a higher priority admits one.     *)
Suspended(in) ==
    in.member # None /\ Read(in.member.membership, "status") = Text("SUSPENDED")

SuspendedMembersAreRefused ==
    pc = "done" /\ DenySuspendedMembers \in input.rows /\ Suspended(input)
        => ~decision.allowed

(* What an attribute that is not there, or is null, can satisfy: a         *)
(* negation; a condition that expects just that, undefined or null; and,   *)
(* where it is null, a numeric comparison that zero satisfies, because     *)
(* Number(null) is 0.  Undefined satisfies no comparison, and neither of    *)
(* them passes for a text, for a collection or for something that exists.  *)
Missing(c) == Absent(Resolve(input, c.source, c.path))

Comparisons == {"GREATER_THAN", "GREATER_THAN_OR_EQUAL", "LESS_THAN", "LESS_THAN_OR_EQUAL"}

Negation(c) == c.operator \in {"NOT_EQUALS", "NOT_IN"}

AskedFor(c) ==
    LET actual == Resolve(input, c.source, c.path)
        expected == ExpectedValue(input, c)
    IN  \/ c.operator = "EQUALS" /\ expected = actual
        \/ c.operator = "IN" /\ IsArray(expected) /\ actual \in Elements(expected)

ReadAsZero(c) ==
    /\ c.operator \in Comparisons
    /\ Resolve(input, c.source, c.path) = Null
    /\ ApplyOperator(c.operator, Num(0), Expected(input, c))

MissingAttributeSatisfiesLittle ==
    \A p \in matched : \A c \in p.conditions :
        Missing(c) => Negation(c) \/ AskedFor(c) \/ ReadAsZero(c)

(* In development a refusal for want of a policy names, for every policy   *)
(* about the request, one of its conditions, and that condition does fail. *)
RefusalIsExplained ==
    pc = "done" /\ input.organization # None /\ input.isDevelopment
        /\ ~decision.allowed /\ ~Denies(decision.matched)
    => /\ \A p \in Candidates(input) : \E f \in decision.failed : f.policy = p
       /\ \A f \in decision.failed : ~Passes(input, f.condition)

-----------------------------------------------------------------------------
(* What the decision is about does not change. *)
InputOK ==
    /\ input.rows \subseteq SystemPolicies \cup Policies
    /\ input.member \in Members \cup {None}
    /\ input.resourceData \in Resources \cup {None}
    /\ \E around \in Surroundings : /\ input.request = around.request
                                    /\ input.environment = around.environment
    /\ input.userId = "u1" /\ input.email = "e1"

(* The inductive invariant.  A candidate is ahead, at hand, matched or     *)
(* explained; what matched passes all its conditions; the loop ends with   *)
(* a matching DENY or with no candidate left.                              *)
Explained(p) == \E f \in failed : f.policy = p

Accounted ==
    pc \in {"next", "conditions", "combine"} =>
        \A p \in Candidates(input) :
            \/ p \in remaining \cup matched
            \/ pc = "conditions" /\ p = current
            \/ Explained(p)

FailuresFail ==
    \A f \in failed : /\ f.policy \in Candidates(input)
                      /\ f.condition \in f.policy.conditions
                      /\ ~Passes(input, f.condition)

Checking ==
    /\ pc = "conditions" =>
           /\ current \in Candidates(input)
           /\ pending \subseteq current.conditions
           /\ \A c \in current.conditions \ pending : Passes(input, c)
    /\ pc # "conditions" => current = None

Undenied == pc \in {"evaluate", "next", "conditions"} => ~Denies(matched)
Exhausted == pc = "combine" => Denies(matched) \/ remaining = {}

Decision ==
    /\ pc # "done" => decision = Undecided
    /\ pc \in {"next", "conditions", "combine"} => input.organization # None
    /\ pc = "done" =>
           IF input.organization = None THEN decision = Undecided
           ELSE /\ decision.allowed = ShouldAllow(input)
                /\ ~decision.allowed /\ ~Denies(matched)
                       => \A p \in Candidates(input) : Explained(p)
                /\ input.isDevelopment =>
                       decision.matched = matched /\ decision.failed = failed

IInv ==
    /\ TypeOK
    /\ Accounted
    /\ matched \subseteq Matching(input)
    /\ FailuresFail
    /\ Checking
    /\ Undenied
    /\ Exhausted
    /\ Decision
=============================================================================
