---------------------------- MODULE MCAccessGuard ----------------------------
(* AccessGuard with one policy that anybody may write and routes of both   *)
(* modes.                                                                  *)
EXTENDS AccessGuard

Make(mode, permissions, slugs, attributes, owner) ==
    [mode |-> mode, permissions |-> permissions, slugs |-> slugs,
     attributes |-> attributes, owner |-> owner, type |-> "organization"]

MCRoute == {Make("ALL", {"read"}, {}, {}, FALSE), Make("ANY", {"read"}, {"s"}, {}, TRUE)}

Rule(effect, conditions, enabled, assigned) ==
    [effect |-> effect, isEnabled |-> enabled, conditions |-> conditions, assigned |-> assigned]

MCWritten == {Rule("ALLOW", {}, TRUE, FALSE), Rule("DENY", {}, TRUE, FALSE),
              Rule("DENY", Inactive, TRUE, FALSE), Rule("DENY", Inactive, TRUE, TRUE),
              Rule("DENY", Inactive, FALSE, FALSE)}

MCScope == [p \in Policy |-> "own"]
MCSlug == [p \in Policy |-> "s"]
MCConcerns == [p \in Policy |-> {"read"}]
MCResource == {[type |-> "organization", id |-> Active, organizations |-> {Active},
                ownerId |-> Nil]}
=============================================================================
