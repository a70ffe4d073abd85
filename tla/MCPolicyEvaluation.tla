------------------------- MODULE MCPolicyEvaluation -------------------------
(* PolicyEvaluation with the seeded policies and rows that use every       *)
(* operator, over members and resources with and without the attributes.   *)
EXTENDS PolicyEvaluation, Sequences, TLC

Rule(effect, priority, enabled, conditions) ==
    [effect |-> effect, resource |-> "users", action |-> "*", priority |-> priority,
     isEnabled |-> enabled, conditions |-> conditions]

If(source, path, op, value, type) ==
    [source |-> source, path |-> path, operator |-> op, value |-> value, valueType |-> type]

List(ts) == <<"array", [i \in DOMAIN ts |-> Text(ts[i])]>>

Level == If("MEMBERSHIP", "clearanceLevel", "GREATER_THAN", Num(1), "NUMBER")

MCPolicies ==
    {Rule("ALLOW", 20000, TRUE, {}),
     Rule("DENY", 1, TRUE, {If("RESOURCE", "department", "NOT_EQUALS", Text("sales"), "STRING"),
                            If("RESOURCE", "id", "EXISTS", Null, "STRING")}),
     Rule("DENY", 30000, FALSE, {}),
     Rule("ALLOW", 5, TRUE, {Level, If("MEMBERSHIP", "roles", "CONTAINS", Text("admin"), "ARRAY")}),
     Rule("DENY", 5, TRUE, {[Level EXCEPT !.operator = "LESS_THAN_OR_EQUAL"],
                            If("REQUEST", "method", "IN", List(<<"PUT", "GET">>), "STRING")}),
     Rule("ALLOW", 6, TRUE, {If("MEMBERSHIP", "region", "NOT_IN", List(<<"eu">>), "STRING")}),
     Rule("ALLOW", 7, TRUE, {If("MEMBERSHIP", "joinedAt", "LESS_THAN",
                                Reference("ENVIRONMENT", "now"), "DATE")}),
     Rule("DENY", 8, TRUE, {If("ORGANIZATION", "settings.trialEndsAt", "LESS_THAN",
                               Reference("ENVIRONMENT", "now"), "DATE")})}

Roots(status, roles, rest, settings) ==
    [user |-> [id |-> Text("u1"), email |-> Text("e1")],
     membership |-> [status |-> Text(status), roles |-> List(roles)] @@ rest,
     organization |-> [id |-> Text("o1"), plan |-> Text("FREE")] @@ settings]

MCMembers ==
    {Roots("ACTIVE", <<"billing-admin">>,
           [department |-> Null, clearanceLevel |-> Num(2), joinedAt |-> Text("1970")],
           "settings.trialEndsAt" :> Null),
     Roots("SUSPENDED", <<"admin">>, [department |-> Text("sales"), clearanceLevel |-> Num(0)],
           <<>>)}

MCResources ==
    {[id |-> Text("u1"), organizationId |-> Text("o1"), department |-> Null],
     [id |-> Text("u2"), organizationId |-> Text("o2"), department |-> Text("sales")]}

MCSurroundings == {[request |-> [method |-> Text("GET")], environment |-> [now |-> Text("2026")]]}

MCAsked == {[resource |-> "users", action |-> "read"], [resource |-> "sso", action |-> "manage"]}
MCPermissionSets == {{}, {[resource |-> "users", action |-> "*"]}}

Words == {"", "u1", "u2", "e1", "o1", "o2", "FREE", "sales", "eu", "GET", "PUT", "admin",
          "billing-admin", "ACTIVE", "SUSPENDED", "ENTERPRISE", "1970", "2026", "0", "1", "2",
          "undefined", "PUT,GET"}
Year == ("1970" :> 0) @@ ("2026" :> 56)
Digit == ("0" :> 0) @@ ("1" :> 1) @@ ("2" :> 2)

MCNumeral == [t \in Words |-> IF t \in DOMAIN Digit THEN Num(Digit[t]) ELSE NaN]
MCInstant == [t \in Words |-> IF t \in DOMAIN Year THEN <<"date", Year[t]>> ELSE NaN]

MCSpelled ==
    [v \in {List(<<t>>) : t \in Words} |-> v[2][1][2]]
        @@ (List(<<"PUT", "GET">>) :> "PUT,GET")
        @@ [v \in {Num(n) : n \in 0..2} |-> CHOOSE t \in DOMAIN Digit : Digit[t] = v[2]]
        @@ [v \in {NaN, Undefined} |-> v[1]]

(* Every word contains, and starts and ends with, itself and "". *)
MCLike ==
    [op \in {"CONTAINS", "STARTS_WITH", "ENDS_WITH", "REGEX_MATCH"} |->
        {<<t, u>> \in Words \X Words : u \in {t, ""}}
            \cup IF op = "STARTS_WITH" THEN {} ELSE {<<"billing-admin", "admin">>}]
=============================================================================
