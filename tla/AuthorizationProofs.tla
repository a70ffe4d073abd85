------------------------ MODULE AuthorizationProofs ------------------------
(* Every decision of PolicyEvaluation, for any set of policies and any     *)
(* attributes.                                                             *)
EXTENDS PolicyEvaluation, AccessGuard, TLAPS

(* The initial states have nothing to account for. *)
LEMMA InitInv == Init => IInv
<1> SUFFICES ASSUME Init PROVE IInv
  OBVIOUS
<1>1. TypeOK
  BY DEF Init, TypeOK, Undecided
<1>2. Accounted /\ Exhausted /\ Decision
  BY DEF Init, Accounted, Exhausted, Decision
<1>3. matched \subseteq Matching(input) /\ FailuresFail /\ Checking
  BY DEF Init, FailuresFail, Checking
<1>4. Undenied
  BY DEF Init, Undenied, Denies
<1> QED
  BY <1>1, <1>2, <1>3, <1>4 DEF IInv

(* What the loops find, when they end, is what should be decided: a        *)
(* candidate that passes all its conditions cannot have been explained.    *)
LEMMA EndOfLoops ==
    ASSUME IInv, pc = "combine", ~Denies(matched)
    PROVE  matched = Matching(input) /\ \A p \in Candidates(input) : p \in matched \/ Explained(p)
<1>1. remaining = {}
  BY DEF IInv, Exhausted
<1>2. ASSUME NEW p \in Candidates(input) PROVE p \in matched \/ Explained(p)
  BY <1>1, <1>2 DEF IInv, Accounted
<1>3. ASSUME NEW p \in Matching(input), Explained(p) PROVE FALSE
  BY <1>3 DEF IInv, FailuresFail, Matching, Explained
<1>4. Matching(input) \subseteq matched
  BY <1>2, <1>3 DEF Matching
<1> QED
  BY <1>2, <1>4 DEF IInv

-----------------------------------------------------------------------------
(* One lemma per step of the computation. *)

LEMMA RefuseOutsiderStep == IInv /\ RefuseOutsider => IInv'
<1> SUFFICES ASSUME IInv, RefuseOutsider PROVE IInv'
  OBVIOUS
<1> USE DEF RefuseOutsider
<1>1. TypeOK'
  BY DEF IInv, TypeOK, Candidates
<1>2. Accounted' /\ Undenied' /\ Exhausted'
  BY DEF Accounted, Undenied, Exhausted
<1>3. FailuresFail' /\ matched' \subseteq Matching(input')
  BY DEF IInv, FailuresFail
<1>4. Checking' /\ Decision'
  BY DEF IInv, Checking, Decision
<1> QED
  BY <1>1, <1>2, <1>3, <1>4 DEF IInv

LEMMA SelectCandidatesStep == IInv /\ SelectCandidates => IInv'
<1> SUFFICES ASSUME IInv, SelectCandidates PROVE IInv'
  OBVIOUS
<1> USE DEF SelectCandidates
<1>1. TypeOK'
  BY DEF IInv, TypeOK
<1>2. Accounted' /\ Exhausted' /\ Decision'
  BY DEF IInv, Accounted, Exhausted, Decision
<1>3. FailuresFail' /\ Checking' /\ matched' \subseteq Matching(input')
  BY DEF IInv, FailuresFail, Checking
<1>4. Undenied'
  BY DEF IInv, Undenied
<1> QED
  BY <1>1, <1>2, <1>3, <1>4 DEF IInv

LEMMA TakePolicyStep == ASSUME IInv, NEW p \in remaining, TakePolicy(p) PROVE IInv'
<1> USE DEF TakePolicy
<1>1. TypeOK'
  BY DEF IInv, TypeOK
<1>2. Accounted'
  BY DEF IInv, Accounted, Explained
<1>3. Undenied' /\ Exhausted' /\ Decision'
  BY DEF IInv, Undenied, Exhausted, Decision
<1>4. FailuresFail' /\ matched' \subseteq Matching(input')
  BY DEF IInv, FailuresFail
<1>5. Checking'
  BY DEF IInv, TypeOK, Checking
<1> QED
  BY <1>1, <1>2, <1>3, <1>4, <1>5 DEF IInv

LEMMA CheckConditionStep == ASSUME IInv, NEW c \in pending, CheckCondition(c) PROVE IInv'
<1> USE DEF CheckCondition
<1>0. pc = "conditions" /\ current \in Candidates(input) /\ c \in current.conditions
  BY DEF IInv, Checking
<1>1. TypeOK'
  BY <1>0 DEF IInv, TypeOK, Decision, Undecided
<1>2. Accounted'
  <2> SUFFICES ASSUME NEW p \in Candidates(input)
               PROVE  \/ p \in remaining \cup matched
                      \/ pc' = "conditions" /\ p = current'
                      \/ Explained(p)'
    BY DEF Accounted
  <2>1. CASE Explained(p)
    BY <2>1 DEF Explained
  <2>2. CASE p = current /\ ~Passes(input, c)
    <3>1. failed' = failed \cup {[policy |-> current, condition |-> c]}
      BY <2>2
    <3>2. [policy |-> current, condition |-> c].policy = p
      BY <2>2
    <3> QED
      BY <3>1, <3>2 DEF Explained
  <2>3. CASE p = current /\ Passes(input, c)
    BY <1>0, <2>3
  <2> QED
    BY <1>0, <2>1, <2>2, <2>3 DEF IInv, Accounted
<1>3. Undenied' /\ Exhausted' /\ Decision'
  BY <1>0 DEF IInv, Undenied, Exhausted, Decision
<1>4. FailuresFail'
  BY <1>0 DEF IInv, FailuresFail
<1>5. Checking'
  BY <1>0 DEF IInv, Checking
<1>6. matched' \subseteq Matching(input')
  BY DEF IInv
<1> QED
  BY <1>1, <1>2, <1>3, <1>4, <1>5, <1>6 DEF IInv

LEMMA PolicyMatchesStep == IInv /\ PolicyMatches => IInv'
<1> SUFFICES ASSUME IInv, PolicyMatches PROVE IInv'
  OBVIOUS
<1> USE DEF PolicyMatches, AfterMatch
<1>0. current \in Matching(input) /\ current \in Candidates(input)
  BY DEF IInv, Checking, Matching
<1>1. TypeOK'
  BY <1>0 DEF IInv, TypeOK, Decision, Undecided
<1>2. Accounted'
  BY DEF IInv, Accounted, Explained
<1>3. matched' \subseteq Matching(input')
  BY <1>0 DEF IInv
<1>4. FailuresFail' /\ Checking'
  BY DEF IInv, FailuresFail, Checking
<1>5. Undenied' /\ Exhausted'
  BY DEF IInv, Undenied, Exhausted, Denies
<1>6. Decision'
  BY DEF IInv, Decision
<1> QED
  BY <1>1, <1>2, <1>3, <1>4, <1>5, <1>6 DEF IInv

LEMMA LoopEndsStep == IInv /\ LoopEnds => IInv'
<1> SUFFICES ASSUME IInv, LoopEnds PROVE IInv'
  OBVIOUS
<1> USE DEF LoopEnds
<1>1. TypeOK'
  BY DEF IInv, TypeOK
<1>2. Accounted'
  BY DEF IInv, Accounted, Explained
<1>3. FailuresFail' /\ Checking' /\ matched' \subseteq Matching(input')
  BY DEF IInv, FailuresFail, Checking
<1>4. Undenied' /\ Exhausted' /\ Decision'
  BY DEF IInv, Undenied, Exhausted, Decision
<1> QED
  BY <1>1, <1>2, <1>3, <1>4 DEF IInv

LEMMA CombineStep == IInv /\ Combine => IInv'
<1> SUFFICES ASSUME IInv, Combine PROVE IInv'
  OBVIOUS
<1> DEFINE found == [allowed |-> Granted, matched |-> matched, failed |-> failed]
<1>1. /\ decision' = Sanitize(input, found)
      /\ pc' = "done"
      /\ UNCHANGED <<input, remaining, current, pending, matched, failed>>
  BY SMTT(60) DEF Combine
<1>2. decision' \in [allowed : BOOLEAN, matched : {{}, matched}, failed : {{}, failed}]
  BY <1>1 DEF Sanitize, Granted, Denies, HasPermission
<1>3. TypeOK'
  BY <1>1, <1>2 DEF IInv, TypeOK
<1>4. decision'.allowed = Granted
  BY <1>1 DEF Sanitize
<1>5. input.isDevelopment => decision'.matched = matched /\ decision'.failed = failed
  BY <1>1 DEF Sanitize
<1>6. Accounted' /\ Undenied' /\ Exhausted'
  BY <1>1 DEF Accounted, Undenied, Exhausted
<1>7. FailuresFail' /\ Checking' /\ matched' \subseteq Matching(input')
  BY <1>1 DEF IInv, FailuresFail, Checking, Combine
<1>8. input.organization # None
  BY DEF IInv, Decision, Combine
<1>9. Granted = ShouldAllow(input)
  <2>1. CASE Denies(matched)
    BY <2>1 DEF IInv, Granted, ShouldAllow, Denies
  <2>2. CASE ~Denies(matched)
    <3>1. matched = Matching(input)
      BY <2>2, EndOfLoops DEF Combine
    <3> QED
      BY <1>8, <2>2, <3>1 DEF Granted, ShouldAllow
  <2> QED
    BY <2>1, <2>2
<1>10. ~Granted /\ ~Denies(matched) => \A p \in Candidates(input) : Explained(p)
  <2> SUFFICES ASSUME ~Granted, ~Denies(matched), NEW p \in Candidates(input)
               PROVE  Explained(p)
    OBVIOUS
  <2>1. matched = {}
    BY DEF Granted
  <2> QED
    BY <2>1, EndOfLoops DEF Combine
<1>11. Decision'
  BY <1>1, <1>4, <1>5, <1>8, <1>9, <1>10 DEF Decision, Explained
<1> QED
  BY <1>3, <1>6, <1>7, <1>11 DEF IInv

-----------------------------------------------------------------------------
(* The theorems. *)

(* Every candidate is accounted for at every moment of a decision.         *)
THEOREM Inductive == Spec => []IInv
<1>1. IInv /\ [Next]_vars => IInv'
  <2> SUFFICES ASSUME IInv, [Next]_vars PROVE IInv'
    OBVIOUS
  <2>1. CASE UNCHANGED vars
    BY <2>1 DEF vars, IInv, TypeOK, Accounted, Explained, FailuresFail, Checking, Undenied,
               Exhausted, Decision
  <2>2. CASE Done
    BY <2>2 DEF Done, vars, IInv, TypeOK, Accounted, Explained, FailuresFail, Checking,
               Undenied, Exhausted, Decision
  <2> QED
    BY <2>1, <2>2, RefuseOutsiderStep, SelectCandidatesStep, TakePolicyStep,
       CheckConditionStep, PolicyMatchesStep, LoopEndsStep, CombineStep DEF Next
<1> QED
  BY <1>1, InitInv, PTL DEF Spec

(* Every variable stays in its type. *)
THEOREM TypeCorrect == Spec => []TypeOK
<1>1. IInv => TypeOK
  BY DEF IInv
<1> QED
  BY <1>1, Inductive, PTL

(* Whatever the policies, their priorities and the order the database      *)
(* returns them in, a matching DENY refuses, and otherwise a permission or *)
(* a matching ALLOW admits: AuthorizationService.evaluate.                 *)
THEOREM DenyWins == Spec => []DenyOverrides
<1>1. ASSUME IInv, pc = "done" PROVE decision.allowed = ShouldAllow(input)
  <2>1. CASE input.organization = None
    <3>1. decision.allowed = FALSE
      BY <1>1, <2>1 DEF IInv, Decision, Undecided
    <3> QED
      BY <2>1, <3>1 DEF ShouldAllow
  <2>2. CASE input.organization # None
    BY <1>1, <2>2 DEF IInv, Decision
  <2> QED
    BY <2>1, <2>2
<1>2. IInv => DenyOverrides
  BY <1>1 DEF DenyOverrides
<1> QED
  BY <1>2, Inductive, PTL

(* Where the seeded policy against them is resolved, a suspended member is *)
(* never admitted, whatever permissions and other policies there are.      *)
THEOREM SuspensionHolds == Spec => []SuspendedMembersAreRefused
<1>1. ASSUME NEW in, DenySuspendedMembers \in in.rows, Suspended(in)
      PROVE  Denies(Matching(in))
  <2> DEFINE c == Condition("MEMBERSHIP", "status", "EQUALS", Text("SUSPENDED"))
  <2>1. /\ DenySuspendedMembers.conditions = {c}
        /\ DenySuspendedMembers.effect = "DENY"
        /\ DenySuspendedMembers \in Candidates(in)
    BY <1>1 DEF DenySuspendedMembers, SystemPolicy, Candidates, MatchesResource
  <2>2. Resolve(in, "MEMBERSHIP", "status") = Text("SUSPENDED")
    BY <1>1 DEF Suspended, Resolve, Context
  <2>3. Actual(in, c) = Text("SUSPENDED")
    BY <2>2 DEF Actual, Condition, Coerce, Converted, Absent, Undefined, Null, Text,
                Spelling, IsText
  <2>4. Expected(in, c) = Text("SUSPENDED")
    BY DEF Expected, ExpectedValue, IsReference, Condition, Coerce, Converted, Absent, Undefined, Null,
           Text, Spelling, IsText
  <2>5. Passes(in, c)
    BY <2>3, <2>4 DEF Passes, ApplyOperator, DeepEqual, Condition, Text, NaN
  <2> QED
    BY <2>1, <2>5 DEF Matching, Denies
<1>2. DenyOverrides => SuspendedMembersAreRefused
  BY <1>1 DEF DenyOverrides, SuspendedMembersAreRefused, ShouldAllow
<1> QED
  BY <1>2, DenyWins, PTL

(* A refusal for want of a policy is fully explained in development: one   *)
(* failing condition of every candidate.                                   *)
THEOREM RefusalsAreExplained == Spec => []RefusalIsExplained
<1>1. IInv => RefusalIsExplained
  BY DEF IInv, Decision, RefusalIsExplained, FailuresFail, Explained
<1> QED
  BY <1>1, Inductive, PTL
-----------------------------------------------------------------------------
(* Missing attributes. *)

LEMMA InputKept == Spec => []InputOK
<1>1. Init => InputOK
  BY DEF Init, InputOK, Rows
<1>2. InputOK /\ [Next]_vars => InputOK'
  <2>1. InputOK /\ UNCHANGED input => InputOK'
    BY DEF InputOK
  <2>2. [Next]_vars => UNCHANGED input
    BY DEF Next, vars, RefuseOutsider, SelectCandidates, TakePolicy, CheckCondition,
           PolicyMatches, LoopEnds, Combine, Done
  <2> QED
    BY <2>1, <2>2
<1> QED
  BY <1>1, <1>2, PTL DEF Spec

(* What is read from a root is one of its values, or missing. *)
LEMMA ReadReturns ==
    ASSUME NEW root, NEW path, NEW S, ValuesOf(root) \subseteq S
    PROVE  Read(root, path) \in S \cup {Undefined}
  BY DEF Read, ValuesOf

(* So is what a source and a path resolve to. *)
LEMMA ResolveReturns ==
    ASSUME InputOK, NEW source \in Sources, NEW path
    PROVE  Resolve(input, source, path) \in Attributes \cup {Undefined}
<1> DEFINE root == Context(input)[source]
<1>1. ValuesOf(<<>>) = {}
  BY DEF ValuesOf
<1>2. ValuesOf([id |-> Text("u1"), email |-> Text("e1")]) = {Text("u1"), Text("e1")}
  BY DEF ValuesOf
<1>3. CASE source \in {"USER", "MEMBERSHIP", "ORGANIZATION"} /\ input.member # None
  <2>1. PICK m \in Members : input.member = m
    BY <1>3 DEF InputOK
  <2>2. root \in {m.user, m.membership, m.organization}
    BY <1>3, <2>1 DEF Context
  <2>3. ValuesOf(m.user) \cup ValuesOf(m.membership) \cup ValuesOf(m.organization) \subseteq Attributes
    BY DEF Attributes, MemberValues
  <2>4. ValuesOf(root) \subseteq Attributes
    BY <2>2, <2>3
  <2> QED
    BY <2>4, ReadReturns DEF Resolve
<1>4. CASE source \in {"USER", "MEMBERSHIP", "ORGANIZATION"} /\ input.member = None
  <2>1. root \in {<<>>, [id |-> Text("u1"), email |-> Text("e1")]}
    BY <1>4 DEF Context, InputOK
  <2>2. {Text("u1"), Text("e1")} \subseteq Attributes
    BY DEF Attributes
  <2>3. ValuesOf(root) \subseteq Attributes
    BY <1>1, <1>2, <2>1, <2>2
  <2> QED
    BY <2>3, ReadReturns DEF Resolve
<1>5. CASE source = "RESOURCE"
  <2>1. root = IF input.resourceData = None THEN <<>> ELSE input.resourceData
    BY <1>5 DEF Context
  <2>2. \A x \in Resources : ValuesOf(x) \subseteq Attributes
    BY DEF Attributes, ResourceValues
  <2>3. ValuesOf(root) \subseteq Attributes
    BY <1>1, <2>1, <2>2 DEF InputOK
  <2> QED
    BY <2>3, ReadReturns DEF Resolve
<1>6. CASE source \in {"REQUEST", "ENVIRONMENT"}
  <2>1. PICK around \in Surroundings : /\ input.request = around.request
                                       /\ input.environment = around.environment
    BY DEF InputOK
  <2>2. root \in {around.request, around.environment}
    BY <1>6, <2>1 DEF Context
  <2>3. ValuesOf(around.request) \cup ValuesOf(around.environment) \subseteq Attributes
    BY DEF Attributes, SurroundingValues
  <2>4. ValuesOf(root) \subseteq Attributes
    BY <2>2, <2>3
  <2> QED
    BY <2>4, ReadReturns DEF Resolve
<1> QED
  BY <1>3, <1>4, <1>5, <1>6 DEF Sources

(* Coercion makes nothing missing that is there, and no array of what is   *)
(* none, whatever the type.                                                *)
LEMMA CoerceKeeps ==
    ASSUME NEW v \in Attributes \cup Literals \cup {Undefined}, NEW type
    PROVE  /\ Absent(Coerce(v, type)) => Coerce(v, type) = v
           /\ IsArray(Coerce(v, type)) => IsArray(v)
<1>1. CASE Absent(v)
  BY <1>1 DEF Coerce
<1>2. CASE ~Absent(v)
  <2>1. Spelling(v) \in DOMAIN Numeral /\ Spelling(v) \in DOMAIN Instant
    BY <1>2, ConversionAssumption DEF Absent
  <2>2. ~Absent(ToNumber(v)) /\ (IsArray(ToNumber(v)) => IsArray(v))
    BY <1>2, <2>1, ConversionAssumption DEF ToNumber, Absent, Undefined, Null, NaN, Num, IsArray
  <2>3. ~Absent(ToBoolean(v)) /\ (IsArray(ToBoolean(v)) => IsArray(v))
    BY <1>2 DEF ToBoolean, Absent, Undefined, Null, Bool, Text, IsArray
  <2>4. ~Absent(Instant[Spelling(v)]) /\ ~IsArray(Instant[Spelling(v)])
    BY <2>1, ConversionAssumption DEF Absent, Undefined, Null, IsArray
  <2>5. ~Absent(Text(Spelling(v))) /\ ~IsArray(Text(Spelling(v)))
    BY DEF Undefined, Null, Absent, Text, IsArray
  <2>6. Converted(v, type) \in {ToNumber(v), ToBoolean(v), v, Instant[Spelling(v)], Text(Spelling(v))}
    BY DEF Converted
  <2> QED
    BY <1>2, <2>2, <2>3, <2>4, <2>5, <2>6 DEF Coerce
<1> QED
  BY <1>1, <1>2

(* The operators that accept what is missing: the comparisons take null,   *)
(* and not undefined, for zero.                                            *)
LEMMA OperatorsNeedValues ==
    ASSUME NEW op, NEW expected, NEW v, Absent(v), ApplyOperator(op, v, expected)
    PROVE  \/ op \in {"NOT_EQUALS", "NOT_IN"}
           \/ op = "EQUALS" /\ expected = v
           \/ op = "IN" /\ IsArray(expected) /\ v \in Elements(expected)
           \/ op \in Comparisons /\ v = Null /\ ApplyOperator(op, Num(0), expected)
<1>1. ~IsArray(v) /\ ~IsText(v)
  BY DEF IsArray, IsText, Absent, Undefined, Null
<1>2. ToNumber(Undefined) = NaN /\ ToNumber(Null) = Num(0) /\ ToNumber(Num(0)) = Num(0)
  BY DEF ToNumber, Undefined, Null, NaN, Num
<1>3. IsElement(v, expected) => v \in Elements(expected)
  BY DEF IsElement, DeepEqual
<1>4. ASSUME op \in Comparisons
      PROVE  v = Null /\ ApplyOperator(op, Num(0), expected)
  <2>1. /\ ~Exceeds(Undefined, expected) /\ ~Exceeds(expected, Undefined)
        /\ ~AtLeast(Undefined, expected) /\ ~AtLeast(expected, Undefined)
    BY <1>2 DEF Exceeds, AtLeast
  <2>2. v = Null
    BY <1>4, <2>1 DEF ApplyOperator, Comparisons, Absent
  <2>3. /\ Exceeds(Null, expected) => Exceeds(Num(0), expected)
        /\ Exceeds(expected, Null) => Exceeds(expected, Num(0))
        /\ AtLeast(Null, expected) => AtLeast(Num(0), expected)
        /\ AtLeast(expected, Null) => AtLeast(expected, Num(0))
    BY <1>2 DEF Exceeds, AtLeast
  <2> QED
    BY <1>4, <2>2, <2>3 DEF ApplyOperator, Comparisons
<1> QED
  BY <1>1, <1>3, <1>4 DEF ApplyOperator, DeepEqual, Comparisons

(* A condition of a policy that matched is satisfied by a missing attribute *)
(* only as a negation, because it expects what is missing, or because null *)
(* counts as zero: no other operator, and no coercion, takes it for a      *)
(* value.                                                                  *)
THEOREM MissingSatisfiesLittle == Spec => []MissingAttributeSatisfiesLittle
<1>1. ASSUME IInv, InputOK, NEW p \in matched, NEW c \in p.conditions, Missing(c)
      PROVE  Negation(c) \/ AskedFor(c) \/ ReadAsZero(c)
  <2> DEFINE actual == Resolve(input, c.source, c.path)
  <2> DEFINE expected == ExpectedValue(input, c)
  <2>1. Passes(input, c) /\ c \in Conditions
    BY <1>1 DEF IInv, Matching, Candidates, InputOK, Conditions
  <2>2. Absent(actual) /\ Actual(input, c) = actual
    BY <1>1 DEF Missing, Actual, Coerce
  <2>3. expected \in Attributes \cup Literals \cup {Undefined}
    <3>1. CASE IsReference(c.value)
      BY <1>1, <2>1, <3>1, ResolveReturns, ConversionAssumption DEF ExpectedValue
    <3>2. CASE ~IsReference(c.value)
      BY <2>1, <3>2 DEF ExpectedValue, Literals
    <3> QED
      BY <3>1, <3>2
  <2>4. /\ Absent(Coerce(expected, c.valueType)) => Coerce(expected, c.valueType) = expected
        /\ IsArray(Coerce(expected, c.valueType)) => IsArray(expected)
    BY <2>3, CoerceKeeps
  <2>5. c.operator = "EQUALS" => Expected(input, c) = Coerce(expected, c.valueType)
    BY DEF Expected
  <2>6. c.operator = "IN" /\ IsArray(Expected(input, c)) =>
            IsArray(expected) /\ Expected(input, c) = expected
    BY <2>4 DEF Expected
  <2>7. ApplyOperator(c.operator, actual, Expected(input, c))
    BY <2>1, <2>2 DEF Passes
  <2>8. \/ Negation(c)
        \/ c.operator = "EQUALS" /\ Expected(input, c) = actual
        \/ c.operator = "IN" /\ IsArray(Expected(input, c)) /\ actual \in Elements(Expected(input, c))
        \/ ReadAsZero(c)
    BY <2>2, <2>7, OperatorsNeedValues DEF Negation, ReadAsZero
  <2>9. c.operator = "EQUALS" /\ Expected(input, c) = actual => expected = actual
    BY <2>2, <2>4, <2>5
  <2> HIDE DEF actual, expected
  <2> QED
    BY <2>6, <2>8, <2>9 DEF AskedFor, actual, expected
<1>2. IInv /\ InputOK => MissingAttributeSatisfiesLittle
  BY <1>1 DEF MissingAttributeSatisfiesLittle
<1> QED
  BY <1>2, Inductive, InputKept, PTL

(* AccessGuard decides a permission by what matched and what the roles     *)
(* permit alone (Allows): that is what the loops of an evaluation come to. *)
THEOREM GuardMayAbstract ==
    Spec => [](pc = "done" /\ input.organization # None =>
                  (decision.allowed <=> Allows(Matching(input), HasPermission(input))))
<1>1. \A p \in SystemPolicies \cup Policies : p.effect \in {"ALLOW", "DENY"}
  BY EffectAssumption DEF SystemPolicies, SystemPolicy, EditOwnProfile, SameOrganizationAccess,
     ManagerCanAccessDepartmentUsers, AdminCanAccessAllOrgResources, DenySuspendedMembers,
     EnterprisePlanRequiredForSso
<1>2. ASSUME InputOK, DenyOverrides, pc = "done", input.organization # None
      PROVE  decision.allowed <=> Allows(Matching(input), HasPermission(input))
  <2>1. \A p \in Matching(input) : p.effect \in {"ALLOW", "DENY"}
    BY <1>1, <1>2 DEF InputOK, Matching, Candidates
  <2> QED
    BY <1>2, <2>1 DEF DenyOverrides, ShouldAllow, Denies, Allows
<1> QED
  BY <1>2, InputKept, DenyWins, PTL

-----------------------------------------------------------------------------
(* AccessGuard. *)

LEMMA GuardInitInv == GuardInit => GuardIInv
<1> SUFFICES ASSUME GuardInit PROVE GuardIInv
  OBVIOUS
<1>1. Idle \in RequestState /\ Idle.pc = "idle"
  BY DEF Idle, RequestState, PC
<1>2. policy \in [Policy -> {Nil} \cup Row]
  <2>1. PICK seeded \in [System -> {row \in Written : row.isEnabled /\ ~row.assigned}] :
           policy = [p \in Policy |-> IF p \in System THEN seeded[p] ELSE Nil]
    BY DEF GuardInit
  <2>2. \A p \in System : seeded[p] \in Row
    BY GuardAssumption
  <2> QED
    BY <2>1, <2>2
<1>3. GuardTypeOK
  BY <1>1, <1>2 DEF GuardInit, GuardTypeOK
<1>4. \A r \in Request : Served(r)
  BY <1>1 DEF GuardInit, Served, At
<1> QED
  BY <1>3, <1>4 DEF GuardIInv, GuardInit

(* The step of a request that goes on to to. *)
LEMMA Moved ==
    ASSUME GuardTypeOK, NEW r \in Request, NEW to \in RequestState, req' = [req EXCEPT ![r] = to]
    PROVE  /\ req' \in [Request -> RequestState]
           /\ req'[r] = to
           /\ \A q \in Request \ {r} : req'[q] = req[q]
  BY DEF GuardTypeOK

(* A request that stays where it is sees what it saw: what still stands    *)
(* for it has the same row, and applies. *)
LEMMA StaysServed ==
    ASSUME GuardIInv, NEW q \in Request, req'[q] = req[q],
           \/ Observe
           \/ standing'[q] = standing[q] /\ UNCHANGED <<policy, facts, entry>>
    PROVE  Served(q)'
<1>1. standing'[q] \subseteq standing[q]
  BY DEF Observe
<1>2. ASSUME NEW p \in standing'[q] PROVE policy'[p] = policy[p] /\ Denying(p)'
  <2>1. CASE Observe
    BY <2>1 DEF Observe
  <2>2. CASE standing'[q] = standing[q] /\ UNCHANGED <<policy, facts, entry>>
    <3>1. Denying(p)
      BY <2>2 DEF GuardIInv, Served, Sees
    <3> QED
      BY <2>2, <3>1 DEF Denying, InForce
  <2> QED
    BY <2>1, <2>2
<1>3. ASSUME NEW p \in standing'[q] PROVE Sees(q, p)'
  <2>1. Sees(q, p)
    BY <1>1 DEF GuardIInv, Served
  <2> QED
    BY <1>2, <2>1 DEF Sees, RuleOf, Asking, Attended, At
<1> QED
  BY <1>3 DEF GuardIInv, Served, At

(* So only the request that takes a step has to be looked at. *)
LEMMA RequestMoves ==
    ASSUME GuardIInv, NEW r \in Request, NEW to \in RequestState, req' = [req EXCEPT ![r] = to],
           policy' \in [Policy -> {Nil} \cup Row], facts' \subseteq Fact,
           entry' \in {Nil} \cup Entry, entry' # Nil => entry'.expires,
           tokenCurrent' \in BOOLEAN, standing' \in [Request -> SUBSET Policy],
           \/ Observe
           \/ /\ \A q \in Request \ {r} : standing'[q] = standing[q]
              /\ UNCHANGED <<policy, facts, entry>>,
           Served(r)'
    PROVE  GuardIInv'
<1>1. /\ req' \in [Request -> RequestState]
      /\ \A q \in Request \ {r} : req'[q] = req[q]
  BY Moved DEF GuardIInv
<1>2. \A q \in Request \ {r} : Served(q)'
  BY <1>1, StaysServed
<1> QED
  BY <1>1, <1>2 DEF GuardIInv, GuardTypeOK

LEMMA ObserveType ==
    ASSUME GuardTypeOK, Observe
    PROVE  /\ standing' \in [Request -> SUBSET Policy]
           /\ \A r \in Request : standing'[r] \subseteq standing[r]
  BY DEF GuardTypeOK, Observe

(* A request steps without a write of the rows or the cache. *)
LEMMA RequestReads ==
    ASSUME GuardIInv, NEW r \in Request, NEW to \in RequestState, req' = [req EXCEPT ![r] = to],
           UNCHANGED <<policy, facts, entry, tokenCurrent, standing>>, Served(r)'
    PROVE  GuardIInv'
  BY RequestMoves DEF GuardIInv, GuardTypeOK

(* A write, or its announcement: nothing of the request itself is left to  *)
(* be served. *)
LEMMA WriteMoves ==
    ASSUME GuardIInv, NEW r \in Request, NEW to \in RequestState, req' = [req EXCEPT ![r] = to],
           to.pc \in {"idle", "bump"},
           policy' \in [Policy -> {Nil} \cup Row], entry' \in {Nil, entry},
           UNCHANGED <<facts, tokenCurrent>>, Observe
    PROVE  GuardIInv'
<1>1. req'[r] = to /\ standing' \in [Request -> SUBSET Policy]
  BY Moved, ObserveType DEF GuardIInv
<1>2. ASSUME NEW p \in standing'[r] PROVE Sees(r, p)'
  BY <1>1 DEF Sees, Asking, At, Observe
<1>3. Served(r)'
  BY <1>1, <1>2 DEF Served, At
<1> QED
  BY <1>1, <1>3, RequestMoves DEF GuardIInv, GuardTypeOK

LEMMA RuleType == ASSUME GuardTypeOK, NEW p \in Policy, policy[p] # Nil
                  PROVE  RuleOf(p) \in [id : Policy, effect : {"ALLOW", "DENY"}, conditions : SUBSET Fact]
  BY DEF GuardTypeOK, RuleOf, Row

LEMMA ResolvedType ==
    GuardTypeOK => Resolved \subseteq [id : Policy, effect : {"ALLOW", "DENY"}, conditions : SUBSET Fact]
  BY RuleType DEF Resolved, InForce

LEMMA BumpType == ASSUME NEW p \in Policy
                  PROVE  [Idle EXCEPT !.pc = "bump", !.policy = p] \in RequestState
  BY DEF Idle, RequestState, PC

LEMMA IdleType == Idle \in RequestState /\ Idle.pc = "idle"
  BY DEF Idle, RequestState, PC

LEMMA WritePolicyStep ==
    ASSUME GuardIInv, NEW r \in Request, NEW p \in Policy, NEW row, WritePolicy(r, p, row)
    PROVE  GuardIInv'
<1>1. row \in Row \cup {Nil}
  BY GuardAssumption DEF WritePolicy
<1>2. policy' \in [Policy -> {Nil} \cup Row]
  BY <1>1 DEF WritePolicy, GuardIInv, GuardTypeOK
<1> DEFINE to == [Idle EXCEPT !.pc = "bump", !.policy = p]
<1>3. to \in RequestState /\ to.pc = "bump"
  BY BumpType DEF Idle
<1>4. req' = [req EXCEPT ![r] = to]
  BY DEF WritePolicy, Announce
<1> HIDE DEF to
<1> QED
  BY <1>2, <1>3, <1>4, WriteMoves DEF WritePolicy

LEMMA ArriveStep ==
    ASSUME GuardIInv, NEW r \in Request, NEW route \in Route, NEW id \in Ids, Arrive(r, route, id)
    PROVE  GuardIInv'
<1> DEFINE to == [Idle EXCEPT !.pc = "resource", !.route = route, !.id = id]
<1>1. to \in RequestState /\ to.pc = "resource" /\ to.route = route /\ to.asked = Nil
  BY DEF Idle, RequestState, PC
<1>2. req' = [req EXCEPT ![r] = to]
  BY DEF Arrive
<1> HIDE DEF to
<1>3. req'[r] = to
  BY <1>1, <1>2, Moved DEF GuardIInv
<1>4. /\ standing' \in [Request -> SUBSET Policy]
      /\ \A q \in Request \ {r} : standing'[q] = standing[q]
      /\ standing'[r] = {p \in Policy : Denying(p)}
  BY DEF Arrive, GuardIInv, GuardTypeOK
<1>5. \A p \in standing'[r] : Denying(p)'
  BY <1>4 DEF Arrive, Denying, InForce
<1>6. Served(r)'
  BY <1>1, <1>3, <1>5 DEF Served, Sees, Asking, At
<1> QED
  BY <1>1, <1>2, <1>4, <1>6, RequestMoves DEF Arrive, GuardIInv, GuardTypeOK

LEMMA BumpVersionsStep == ASSUME GuardIInv, NEW r \in Request, BumpVersions(r) PROVE GuardIInv'
<1> DEFINE to == [req[r] EXCEPT !.pc = "invalidate"]
<1>1. to \in RequestState /\ to.pc = "invalidate"
  BY SMTT(60) DEF GuardIInv, GuardTypeOK, RequestState, PC
<1>2. req' = [req EXCEPT ![r] = to]
  BY DEF BumpVersions, Goto
<1> HIDE DEF to
<1>3. req'[r] = to
  BY <1>1, <1>2, Moved DEF GuardIInv
<1>4. \A p \in standing'[r] : Denying(p)'
  BY DEF BumpVersions, Denying, InForce, GuardIInv, Served, Sees
<1>5. Served(r)'
  BY <1>1, <1>3, <1>4 DEF Served, Sees, Asking, At
<1>6. tokenCurrent' \in BOOLEAN
  BY DEF BumpVersions
<1> QED
  BY <1>1, <1>2, <1>5, <1>6, RequestMoves DEF BumpVersions, GuardIInv, GuardTypeOK

LEMMA InvalidateStep == ASSUME GuardIInv, NEW r \in Request, Invalidate(r) PROVE GuardIInv'
  BY IdleType, WriteMoves DEF Invalidate, Leave, GuardIInv, GuardTypeOK

LEMMA LoadResourceStep == ASSUME GuardIInv, NEW r \in Request, LoadResource(r) PROVE GuardIInv'
<1> DEFINE route == req[r].route
<1> DEFINE owned == IF route.owner THEN {Owns(route, req[r].id)} ELSE {}
<1> DEFINE to == [req[r] EXCEPT !.pc = "facts", !.todo = route.permissions, !.decisions = owned]
<1>1. route \in Route /\ req[r] \in RequestState
  BY DEF LoadResource, At, GuardIInv, GuardTypeOK, Served
<1>2. route.permissions \subseteq Requirement
  BY <1>1 DEF Requirement
<1>3. Owns(route, req[r].id) \in BOOLEAN
  BY DEF Owns
<1>4. owned \subseteq BOOLEAN
  BY <1>3, Zenon
<1>5. req' = [req EXCEPT ![r] = to]
  BY Zenon DEF LoadResource
<1> HIDE DEF owned
<1>6. /\ to \in RequestState /\ to.pc = "facts" /\ to.route = route
      /\ to.todo = route.permissions /\ to.asked = req[r].asked
  BY <1>1, <1>2, <1>4 DEF RequestState, PC
<1> HIDE DEF to
<1>7. req'[r] = to
  BY <1>5, <1>6, Moved DEF GuardIInv
<1>8. req[r].asked = Nil
  BY DEF LoadResource, GuardIInv, Served
<1>9. \A p \in standing[r] : Denying(p) /\ Denying(p)'
  BY DEF LoadResource, Denying, InForce, GuardIInv, Served, Sees
<1>10. Served(r)'
  BY <1>1, <1>6, <1>7, <1>8, <1>9 DEF LoadResource, Served, Sees, Asking, At, Attended
<1> QED
  BY <1>5, <1>6, <1>10, RequestReads DEF LoadResource

(* What a request sees while policies, attributes and the cache stay. *)
LEMMA StillSees ==
    ASSUME GuardIInv, NEW r \in Request, UNCHANGED <<policy, facts, entry, standing>>
    PROVE  \A p \in standing'[r] : /\ p \in standing[r] /\ Sees(r, p) /\ p \in Policy
                                   /\ Denying(p) /\ Denying(p)' /\ RuleOf(p)' = RuleOf(p)
  BY DEF GuardIInv, GuardTypeOK, Served, Sees, Denying, InForce, RuleOf

LEMMA HitFactsStep == ASSUME GuardIInv, NEW r \in Request, HitFacts(r) PROVE GuardIInv'
<1> DEFINE to == [req[r] EXCEPT !.pc = "haveFacts", !.facts = entry.value]
<1>1. req[r] \in RequestState /\ At(r, "facts") /\ entry \in Entry
  BY DEF HitFacts, GuardIInv, GuardTypeOK
<1>2. /\ to \in RequestState /\ to.pc = "haveFacts" /\ to.facts = entry.value
      /\ to.route = req[r].route /\ to.asked = req[r].asked /\ to.todo = req[r].todo
      /\ to.rules = req[r].rules /\ to.decisions = req[r].decisions
  BY <1>1 DEF RequestState, PC, Entry
<1>3. req' = [req EXCEPT ![r] = to]
  BY DEF HitFacts
<1> HIDE DEF to
<1>4. req'[r] = to
  BY <1>2, <1>3, Moved DEF GuardIInv
<1>5. ASSUME NEW p \in standing'[r] PROVE Sees(r, p)'
  <2>1. Sees(r, p) /\ Denying(p) /\ Denying(p)' /\ policy' = policy /\ RuleOf(p)' = RuleOf(p) /\ entry # Nil
    BY StillSees DEF HitFacts
  <2> QED
    BY <1>1, <1>2, <1>4, <2>1 DEF Sees, Asking, At, Attended, Denying
<1>6. Served(r)'
  BY <1>1, <1>2, <1>4, <1>5 DEF Served, At, GuardIInv
<1> QED
  BY <1>2, <1>3, <1>6, RequestReads DEF HitFacts

LEMMA MissFactsStep == ASSUME GuardIInv, NEW r \in Request, MissFacts(r) PROVE GuardIInv'
<1> DEFINE to == [req[r] EXCEPT !.pc = "storeFacts", !.facts = facts]
<1>1. req[r] \in RequestState /\ At(r, "facts") /\ facts \subseteq Fact
  BY DEF MissFacts, GuardIInv, GuardTypeOK
<1>2. /\ to \in RequestState /\ to.pc = "storeFacts" /\ to.facts = facts
      /\ to.route = req[r].route /\ to.asked = req[r].asked /\ to.todo = req[r].todo
      /\ to.rules = req[r].rules /\ to.decisions = req[r].decisions
  BY <1>1 DEF RequestState, PC
<1>3. req' = [req EXCEPT ![r] = to]
  BY DEF MissFacts
<1> HIDE DEF to
<1>4. req'[r] = to
  BY <1>2, <1>3, Moved DEF GuardIInv
<1>5. ASSUME NEW p \in standing'[r] PROVE Sees(r, p)'
  <2>1. Sees(r, p) /\ Denying(p) /\ Denying(p)' /\ policy' = policy /\ RuleOf(p)' = RuleOf(p)
    BY StillSees DEF MissFacts
  <2> QED
    BY <1>1, <1>2, <1>4, <2>1 DEF Sees, Asking, At, Attended, Denying
<1>6. Served(r)'
  BY <1>1, <1>2, <1>4, <1>5 DEF Served, At, GuardIInv
<1> QED
  BY <1>2, <1>3, <1>6, RequestReads DEF MissFacts

(* What is stored may be what the DENY does not stand by: then the ghost   *)
(* lets it go. *)
LEMMA StoreFactsStep == ASSUME GuardIInv, NEW r \in Request, StoreFacts(r) PROVE GuardIInv'
<1> DEFINE to == [req[r] EXCEPT !.pc = "haveFacts"]
<1>1. req[r] \in RequestState /\ At(r, "storeFacts")
  BY DEF StoreFacts, GuardIInv, GuardTypeOK
<1>2. /\ to \in RequestState /\ to.pc = "haveFacts" /\ to.facts = req[r].facts
      /\ to.route = req[r].route /\ to.asked = req[r].asked /\ to.todo = req[r].todo
      /\ to.rules = req[r].rules /\ to.decisions = req[r].decisions
  BY <1>1 DEF RequestState, PC
<1>3. req' = [req EXCEPT ![r] = to]
  BY DEF StoreFacts, Goto
<1> HIDE DEF to
<1>4. req'[r] = to
  BY <1>2, <1>3, Moved DEF GuardIInv
<1>5. entry' \in {Nil} \cup Entry /\ (entry' # Nil => entry'.expires)
  <2>1. Stored(req[r].facts) \in Entry /\ Stored(req[r].facts).expires
    BY <1>1 DEF Stored, Entry, RequestState
  <2>2. entry' = Stored(req[r].facts) \/ entry' = entry
    BY DEF StoreFacts
  <2> QED
    BY <2>1, <2>2 DEF GuardIInv, GuardTypeOK
<1>6. standing' \in [Request -> SUBSET Policy] /\ standing'[r] \subseteq standing[r]
  BY ObserveType DEF StoreFacts, GuardIInv
<1>7. ASSUME NEW p \in standing'[r] PROVE Sees(r, p)'
  <2>1. Sees(r, p) /\ Denying(p)' /\ policy' = policy /\ RuleOf(p)' = RuleOf(p)
    BY <1>6 DEF StoreFacts, Observe, GuardIInv, Served, RuleOf
  <2> QED
    BY <1>1, <1>2, <1>4, <2>1 DEF Sees, Asking, At, Attended
<1>8. Served(r)'
  BY <1>1, <1>2, <1>4, <1>7 DEF Served, At, GuardIInv
<1>9. policy' \in [Policy -> {Nil} \cup Row] /\ facts' \subseteq Fact /\ tokenCurrent' \in BOOLEAN
  BY DEF StoreFacts, GuardIInv, GuardTypeOK
<1> QED
  BY <1>2, <1>3, <1>5, <1>6, <1>8, <1>9, RequestMoves DEF StoreFacts

LEMMA SnapshotStep == ASSUME GuardIInv, NEW r \in Request, Snapshot(r) PROVE GuardIInv'
<1> DEFINE found == SlugDecisions(r, Resolved) \cup InlineDecisions(r)
<1> DEFINE to == [req[r] EXCEPT !.pc = "next", !.decisions = req[r].decisions \cup found]
<1>1. req[r] \in RequestState /\ At(r, "haveFacts") /\ req[r].asked = Nil
  BY DEF Snapshot, GuardIInv, GuardTypeOK
<1>2. SlugDecisions(r, Resolved) \subseteq BOOLEAN
  BY Zenon DEF SlugDecisions, Holds
<1>3. InlineDecisions(r) \subseteq BOOLEAN
  BY Zenon DEF InlineDecisions
<1>4. req' = [req EXCEPT ![r] = to]
  BY Zenon DEF Snapshot
<1> HIDE DEF found
<1>5. /\ to \in RequestState /\ to.pc = "next" /\ to.route = req[r].route
      /\ to.asked = Nil /\ to.todo = req[r].todo /\ req[r].decisions \subseteq to.decisions
  BY <1>1, <1>2, <1>3, ZenonT(60) DEF RequestState, PC, found
<1> HIDE DEF to
<1>6. req'[r] = to
  BY <1>4, <1>5, Moved DEF GuardIInv
<1>7. ASSUME NEW p \in standing'[r] PROVE Sees(r, p)'
  <2>1. Sees(r, p) /\ Denying(p)' /\ req[r].route \in Route
    BY <1>1, StillSees DEF Snapshot, GuardIInv, Served, At
  <2>2. \A requirement \in req[r].route.permissions : requirement # Nil
    BY <2>1, GuardAssumption
  <2> QED
    BY <1>1, <1>5, <1>6, <2>1, <2>2 DEF Sees, Asking, At, Attended
<1>8. Served(r)'
  BY <1>1, <1>5, <1>6, <1>7 DEF Served, At, GuardIInv
<1> QED
  BY <1>4, <1>5, <1>8, RequestReads DEF Snapshot

LEMMA ReadPoliciesStep ==
    ASSUME GuardIInv, NEW r \in Request, NEW requirement \in req[r].todo, ReadPolicies(r, requirement)
    PROVE  GuardIInv'
<1> DEFINE to == [req[r] EXCEPT !.pc = "facts", !.asked = requirement,
                     !.todo = req[r].todo \ {requirement}, !.rules = Resolved]
<1>1. req[r] \in RequestState /\ At(r, "next") /\ requirement \in Requirement
  BY DEF ReadPolicies, GuardIInv, GuardTypeOK, RequestState
<1>2. /\ to \in RequestState /\ to.pc = "facts" /\ to.route = req[r].route
      /\ to.asked = requirement /\ to.todo = req[r].todo \ {requirement}
      /\ to.decisions = req[r].decisions /\ to.rules = Resolved
  BY <1>1, ResolvedType DEF RequestState, PC, GuardIInv
<1>3. req' = [req EXCEPT ![r] = to]
  BY DEF ReadPolicies
<1> HIDE DEF to
<1>4. req'[r] = to
  BY <1>2, <1>3, Moved DEF GuardIInv
<1>5. ASSUME NEW p \in standing'[r] PROVE Sees(r, p)'
  <2>1. Sees(r, p) /\ Denying(p) /\ Denying(p)' /\ RuleOf(p)' = RuleOf(p) /\ p \in Policy
    BY StillSees DEF ReadPolicies
  <2>2. RuleOf(p) \in Resolved
    BY <2>1 DEF Resolved, Denying
  <2> QED
    BY <1>1, <1>2, <1>4, <2>1, <2>2 DEF Sees, Asking, At, Attended
<1>6. Served(r)'
  BY <1>1, <1>2, <1>4, <1>5 DEF Served, At, GuardIInv
<1> QED
  BY <1>2, <1>3, <1>6, RequestReads DEF ReadPolicies

(* The heart of it: a standing DENY about what is asked is among the rules, *)
(* its conditions hold, and the answer is FALSE. *)
LEMMA EvaluateStep == ASSUME GuardIInv, NEW r \in Request, Evaluate(r) PROVE GuardIInv'
<1> DEFINE hits == {rule \in req[r].rules : req[r].asked \in Concerns[rule.id] /\ Holds(r, rule)}
<1>1. PICK rbac \in BOOLEAN :
         req' = [req EXCEPT ![r] = [req[r] EXCEPT !.pc = "next", !.rules = {}, !.facts = {},
                    !.decisions = req[r].decisions \cup {Allows(hits, rbac)}]]
  BY Zenon DEF Evaluate
<1> DEFINE to == [req[r] EXCEPT !.pc = "next", !.rules = {}, !.facts = {},
                     !.decisions = req[r].decisions \cup {Allows(hits, rbac)}]
<1>2. req[r] \in RequestState /\ At(r, "haveFacts") /\ req[r].asked # Nil
  BY DEF Evaluate, GuardIInv, GuardTypeOK
<1>3. Allows(hits, rbac) \in BOOLEAN
  BY DEF Allows
<1>4. {Allows(hits, rbac)} \subseteq BOOLEAN
  BY <1>3, Zenon
<1>5. req' = [req EXCEPT ![r] = to]
  BY <1>1, Zenon
<1>6. ASSUME NEW p \in standing[r], req[r].asked \in Concerns[p] PROVE ~Allows(hits, rbac)
  <2>1. Sees(r, p) /\ p \in Policy
    BY DEF GuardIInv, GuardTypeOK, Served
  <2>2. RuleOf(p) \in req[r].rules /\ RuleOf(p).id = p /\ RuleOf(p).effect = "DENY"
    BY <1>2, <2>1 DEF Sees, Asking, At, RuleOf, Denying
  <2>3. Holds(r, RuleOf(p))
    BY <1>2, <2>1 DEF Sees, Holds, RuleOf, At
  <2>4. RuleOf(p) \in hits
    BY <1>6, <2>2, <2>3
  <2> QED
    BY <2>2, <2>4 DEF Allows
<1>7. ASSUME ~Allows(hits, rbac) PROVE FALSE \in {Allows(hits, rbac)}
  <2>1. Allows(hits, rbac) = FALSE
    BY <1>3, <1>7, Zenon
  <2> QED
    BY <2>1, Zenon
<1> HIDE DEF hits
<1>8. /\ to \in RequestState /\ to.pc = "next" /\ to.route = req[r].route
      /\ to.asked = req[r].asked /\ to.todo = req[r].todo
      /\ to.decisions = req[r].decisions \cup {Allows(hits, rbac)}
  BY <1>2, <1>4 DEF RequestState, PC
<1> HIDE DEF to
<1>9. req'[r] = to
  BY <1>5, <1>8, Moved DEF GuardIInv
<1>10. ASSUME NEW p \in standing'[r] PROVE Sees(r, p)'
  <2>1. Sees(r, p) /\ Denying(p)' /\ p \in standing[r]
    BY StillSees DEF Evaluate
  <2>2. req[r].asked \in Concerns[p] => FALSE \in to.decisions
    BY <1>6, <1>7, <1>8, <2>1
  <2>3. FALSE \in req[r].decisions => FALSE \in to.decisions
    BY <1>8
  <2> QED
    BY <1>2, <1>8, <1>9, <2>1, <2>2, <2>3 DEF Sees, Asking, At, Attended
<1>11. Served(r)'
  BY <1>2, <1>8, <1>9, <1>10 DEF Served, At, GuardIInv
<1> QED
  BY <1>5, <1>8, <1>11, RequestReads DEF Evaluate

LEMMA ConcludeStep == ASSUME GuardIInv, NEW r \in Request, Conclude(r) PROVE GuardIInv'
<1> DEFINE verdict == IF Admits(req[r].route.mode, req[r].decisions) THEN "admitted" ELSE "refused"
<1> DEFINE to == [Idle EXCEPT !.route = req[r].route, !.pc = verdict]
<1>1. req[r] \in RequestState /\ At(r, "next") /\ req[r].todo = {} /\ req[r].route \in Route
  BY DEF Conclude, GuardIInv, GuardTypeOK, Served, At
<1>2. /\ to \in RequestState /\ to.pc = verdict /\ to.route = req[r].route
  BY <1>1, ZenonT(60) DEF RequestState, PC, Idle
<1>3. req' = [req EXCEPT ![r] = to]
  BY DEF Conclude
<1> HIDE DEF to
<1>4. req'[r] = to
  BY <1>2, <1>3, Moved DEF GuardIInv
<1>5. ASSUME NEW p \in standing'[r] PROVE Sees(r, p)'
  <2>1. Sees(r, p) /\ Denying(p)'
    BY StillSees DEF Conclude
  <2>2. ASSUME req[r].route.mode = "ALL", verdict = "admitted"
        PROVE  Concerns[p] \cap req[r].route.permissions = {}
    BY <1>1, <2>1, <2>2 DEF Sees, Admits, Asking, At, Attended
  <2> QED
    BY <1>2, <1>4, <2>1, <2>2 DEF Sees, Asking, At
<1>6. Served(r)'
  BY <1>1, <1>2, <1>4, <1>5 DEF Served, At
<1> QED
  BY <1>2, <1>3, <1>6, RequestReads DEF Conclude

LEMMA FinishStep == ASSUME GuardIInv, NEW r \in Request, Finish(r) PROVE GuardIInv'
<1>1. /\ req' = [req EXCEPT ![r] = Idle]
      /\ standing' = [standing EXCEPT ![r] = {}]
  BY DEF Finish, Leave
<1>2. req'[r] = Idle /\ standing'[r] = {} /\ standing' \in [Request -> SUBSET Policy]
  BY <1>1, IdleType, Moved DEF GuardIInv, GuardTypeOK
<1>3. Served(r)'
  BY <1>2, IdleType DEF Served, At
<1> QED
  BY <1>1, <1>2, <1>3, IdleType, RequestMoves DEF Finish, GuardIInv, GuardTypeOK

(* The steps that are no request's. *)
LEMMA NoRequestMoves ==
    ASSUME GuardIInv, UNCHANGED <<policy, req>>, facts' \subseteq Fact, entry' \in {Nil, entry},
           tokenCurrent' \in BOOLEAN,
           Observe \/ UNCHANGED <<facts, entry, standing>>
    PROVE  GuardIInv'
<1>1. standing' \in [Request -> SUBSET Policy]
  BY ObserveType DEF GuardIInv, GuardTypeOK
<1>2. \A q \in Request : Served(q)'
  BY StaysServed
<1> QED
  BY <1>1, <1>2 DEF GuardIInv, GuardTypeOK

LEMMA GuardNextInv == GuardIInv /\ [GuardNext]_guardVars => GuardIInv'
<1> SUFFICES ASSUME GuardIInv, [GuardNext]_guardVars PROVE GuardIInv'
  OBVIOUS
<1>0. GuardTypeOK
  BY DEF GuardIInv
<1>1. CASE UNCHANGED guardVars
  BY <1>0, <1>1, NoRequestMoves, SMTT(60) DEF guardVars, GuardTypeOK
<1>2. ASSUME NEW r \in Request, RequestArrives(r) PROVE GuardIInv'
  BY <1>2, ArriveStep, WritePolicyStep
     DEF RequestArrives, CreatePolicy, RemovePolicy, UpdatePolicy, ChangeConditions, Reassign
<1>3. ASSUME NEW r \in Request, Step(r) PROVE GuardIInv'
  BY <1>3, BumpVersionsStep, InvalidateStep, LoadResourceStep, HitFactsStep, MissFactsStep,
     StoreFactsStep, SnapshotStep, ReadPoliciesStep, EvaluateStep, ConcludeStep DEF Step
<1>4. ASSUME NEW r \in Request, Finish(r) PROVE GuardIInv'
  BY <1>4, FinishStep
<1>5. ASSUME NEW fs \in SUBSET Fact, NEW changed \in BOOLEAN, UpdateAttributes(fs, changed)
      PROVE  GuardIInv'
  BY <1>0, <1>5, NoRequestMoves DEF UpdateAttributes, GuardTypeOK
<1>6. CASE IssueToken
  BY <1>0, <1>6, NoRequestMoves DEF IssueToken, GuardTypeOK
<1>7. CASE Expire
  BY <1>0, <1>7, NoRequestMoves DEF Expire, GuardTypeOK
<1> QED
  BY <1>1, <1>2, <1>3, <1>4, <1>5, <1>6, <1>7 DEF GuardNext

(* GuardIInv holds in every reachable state. *)
THEOREM GuardInductive == GuardSpec => []GuardIInv
  BY GuardInitInv, GuardNextInv, PTL DEF GuardSpec

(* Every variable of AccessGuard stays in its type. *)
THEOREM GuardTypeCorrect == GuardSpec => []GuardTypeOK
<1>1. GuardIInv => GuardTypeOK
  BY DEF GuardIInv
<1> QED
  BY <1>1, GuardInductive, PTL

(* AuthorizationGuard in mode ALL: whatever is written meanwhile, whatever *)
(* the cache serves and the roles permit, a DENY that applied all the time *)
(* to a permission of the route refuses the request.                       *)
THEOREM StandingDenyWins == GuardSpec => []StandingDenyRefuses
<1>1. GuardIInv => StandingDenyRefuses
  BY DEF GuardIInv, Served, Sees, StandingDenyRefuses
<1> QED
  BY <1>1, GuardInductive, PTL

(* A step of request r, when r does not carry an older copy and the entry  *)
(* stays or goes. *)
LEMMA NoneOutdated ==
    ASSUME GuardIInv, UNCHANGED facts,
           NEW r \in Request, NEW to, req' = [req EXCEPT ![r] = to],
           to.pc # "storeFacts" \/ to.facts = facts,
           entry' \in {Nil, entry}
    PROVE  FactsRunOut
<1>1. \A q \in Request : req'[q] = IF q = r THEN to ELSE req[q]
  BY DEF GuardIInv, GuardTypeOK
<1>2. Outdated' \subseteq Outdated
  BY <1>1 DEF Outdated, At
<1> QED
  BY <1>2 DEF FactsRunOut, StaleEntry, GuardIInv

(* An older copy that is stored is used up. *)
LEMMA StoreUsesUp ==
    ASSUME GuardIInv, UNCHANGED facts, NEW r \in Request, StoreFacts(r)
    PROVE  FactsRunOut
<1>1. /\ At(r, "storeFacts") /\ req[r] \in RequestState
      /\ req' = [req EXCEPT ![r] = [req[r] EXCEPT !.pc = "haveFacts"]]
      /\ entry' = Stored(req[r].facts) \/ entry' = entry
  BY DEF StoreFacts, Goto, GuardIInv, GuardTypeOK
<1>2. /\ req'[r].pc = "haveFacts"
      /\ \A q \in Request \ {r} : req'[q] = req[q]
  BY <1>1 DEF RequestState, GuardIInv, GuardTypeOK
<1>3. Outdated' \subseteq Outdated /\ r \notin Outdated'
  BY <1>2 DEF Outdated, At
<1>4. entry' = Stored(req[r].facts) /\ StaleEntry' => r \in Outdated
  BY <1>1 DEF StaleEntry, Stored, Outdated
<1> QED
  BY <1>1, <1>3, <1>4 DEF FactsRunOut, StaleEntry, Stored, GuardIInv

LEMMA RequestRunsOut ==
    ASSUME GuardIInv, UNCHANGED facts, NEW r \in Request
    PROVE  /\ RequestArrives(r) => FactsRunOut
           /\ Step(r) => FactsRunOut
           /\ Finish(r) => FactsRunOut
<1>0. req[r] \in RequestState /\ Idle.pc = "idle"
  BY IdleType DEF GuardIInv, GuardTypeOK
<1>1. ASSUME NEW p, NEW row, WritePolicy(r, p, row) PROVE FactsRunOut
  <2>1. [Idle EXCEPT !.pc = "bump", !.policy = p].pc = "bump"
    BY DEF Idle
  <2> QED
    BY <1>0, <1>1, <2>1, NoneOutdated DEF WritePolicy, Announce
<1>2. ASSUME NEW route, NEW id, Arrive(r, route, id) PROVE FactsRunOut
  <2>1. [Idle EXCEPT !.pc = "resource", !.route = route, !.id = id].pc = "resource"
    BY DEF Idle
  <2> QED
    BY <1>0, <1>2, <2>1, NoneOutdated DEF Arrive
<1>3. RequestArrives(r) => FactsRunOut
  BY <1>1, <1>2 DEF RequestArrives, CreatePolicy, RemovePolicy, UpdatePolicy, ChangeConditions, Reassign
<1>4. CASE BumpVersions(r)
  <2>1. [req[r] EXCEPT !.pc = "invalidate"].pc = "invalidate"
    BY <1>0 DEF RequestState
  <2> QED
    BY <1>0, <1>4, <2>1, NoneOutdated DEF BumpVersions, Goto
<1>5. CASE Invalidate(r)
  BY <1>0, <1>5, NoneOutdated DEF Invalidate, Leave
<1>6. CASE LoadResource(r)
  <2> DEFINE owned == IF req[r].route.owner THEN {Owns(req[r].route, req[r].id)} ELSE {}
  <2> DEFINE to == [req[r] EXCEPT !.pc = "facts", !.todo = req[r].route.permissions,
                       !.decisions = owned]
  <2>1. req' = [req EXCEPT ![r] = to]
    BY <1>6, Zenon DEF LoadResource
  <2> HIDE DEF owned
  <2>2. to.pc = "facts"
    BY <1>0 DEF RequestState
  <2> HIDE DEF to
  <2> QED
    BY <1>0, <1>6, <2>1, <2>2, NoneOutdated DEF LoadResource
<1>7. CASE HitFacts(r)
  <2>1. [req[r] EXCEPT !.pc = "haveFacts", !.facts = entry.value].pc = "haveFacts"
    BY <1>0 DEF RequestState
  <2> QED
    BY <1>0, <1>7, <2>1, NoneOutdated DEF HitFacts
<1>8. CASE MissFacts(r)
  <2>1. [req[r] EXCEPT !.pc = "storeFacts", !.facts = facts].facts = facts
    BY <1>0 DEF RequestState
  <2> QED
    BY <1>0, <1>8, <2>1, NoneOutdated DEF MissFacts
<1>9. CASE StoreFacts(r)
  BY <1>9, StoreUsesUp
<1>10. CASE Snapshot(r)
  <2> DEFINE found == SlugDecisions(r, Resolved) \cup InlineDecisions(r)
  <2> DEFINE to == [req[r] EXCEPT !.pc = "next", !.decisions = req[r].decisions \cup found]
  <2>1. req' = [req EXCEPT ![r] = to]
    BY <1>10 DEF Snapshot
  <2> HIDE DEF found
  <2>2. to.pc = "next"
    BY <1>0 DEF RequestState
  <2> HIDE DEF to
  <2> QED
    BY <1>0, <1>10, <2>1, <2>2, NoneOutdated DEF Snapshot
<1>11. ASSUME NEW requirement, ReadPolicies(r, requirement) PROVE FactsRunOut
  <2> DEFINE to == [req[r] EXCEPT !.pc = "facts", !.asked = requirement,
                       !.todo = req[r].todo \ {requirement}, !.rules = Resolved]
  <2>1. req' = [req EXCEPT ![r] = to]
    BY <1>11 DEF ReadPolicies
  <2>2. to.pc = "facts"
    BY <1>0 DEF RequestState
  <2> HIDE DEF to
  <2> QED
    BY <1>0, <1>11, <2>1, <2>2, NoneOutdated DEF ReadPolicies
<1>12. CASE Evaluate(r)
  <2> DEFINE hits == {rule \in req[r].rules : req[r].asked \in Concerns[rule.id] /\ Holds(r, rule)}
  <2>1. PICK rbac \in BOOLEAN :
           req' = [req EXCEPT ![r] = [req[r] EXCEPT !.pc = "next", !.rules = {}, !.facts = {},
                      !.decisions = req[r].decisions \cup {Allows(hits, rbac)}]]
    BY <1>12, Zenon DEF Evaluate
  <2> DEFINE made == req[r].decisions \cup {Allows(hits, rbac)}
  <2> DEFINE to == [req[r] EXCEPT !.pc = "next", !.rules = {}, !.facts = {}, !.decisions = made]
  <2>2. req' = [req EXCEPT ![r] = to]
    BY <2>1, Zenon
  <2> HIDE DEF made
  <2>3. to.pc = "next"
    BY <1>0 DEF RequestState
  <2> HIDE DEF to
  <2> QED
    BY <1>0, <1>12, <2>2, <2>3, NoneOutdated DEF Evaluate
<1>13. CASE Conclude(r)
  <2> DEFINE verdict == IF Admits(req[r].route.mode, req[r].decisions) THEN "admitted" ELSE "refused"
  <2>1. [Idle EXCEPT !.route = req[r].route, !.pc = verdict].pc = verdict /\ verdict # "storeFacts"
    BY DEF Idle
  <2> QED
    BY <1>0, <1>13, <2>1, NoneOutdated DEF Conclude
<1>14. Step(r) => FactsRunOut
  BY <1>4, <1>5, <1>6, <1>7, <1>8, <1>9, <1>10, <1>11, <1>12, <1>13 DEF Step
<1>15. Finish(r) => FactsRunOut
  BY <1>0, NoneOutdated DEF Finish, Leave
<1> QED
  BY <1>3, <1>14, <1>15

(* resolveAttributes: once the attributes stay, the copies that were read  *)
(* before only get fewer, the cache becomes stale only by using one up,    *)
(* and every entry has a lifetime.  It is the safety that                  *)
(* AttributesTakeEffect needs besides fairness.                            *)
THEOREM StaleFactsEnd == GuardSpec => StaleFactsRunOut
<1>1. ASSUME GuardIInv, [GuardNext]_guardVars, UNCHANGED facts PROVE FactsRunOut
  <2>1. CASE entry' \in {Nil, entry} /\ UNCHANGED req
    BY <1>1, <2>1 DEF FactsRunOut, Outdated, StaleEntry, At, GuardIInv
  <2> QED
    BY <1>1, <2>1, RequestRunsOut
       DEF GuardNext, guardVars, UpdateAttributes, IssueToken, Expire
<1>2. GuardIInv /\ [GuardNext]_guardVars => [UNCHANGED facts => FactsRunOut]_guardVars
  BY <1>1
<1> QED
  BY <1>2, GuardInductive, PTL DEF GuardSpec, StaleFactsRunOut
=============================================================================
