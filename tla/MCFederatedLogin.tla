-------------------------- MODULE MCFederatedLogin --------------------------
(* Social login and SAML login share no state: each behaviour is one of    *)
(* the one or one of the other, so that the two are checked in one run.    *)
EXTENDS SocialLogin, SamlLogin, TLC

CONSTANTS u1, u2, i1, i2, g, h, s1, s2, q1, q2, a1, a2, t1, r1, r2

MCProviderOf == i1 :> g @@ i2 :> g
MCEmail == i1 :> u1 @@ i2 :> u2

VARIABLE half

MCInit == SocialInit /\ SamlInit /\ half \in {"social", "saml"}

MCNext ==
    \/ half = "social" /\ SocialNext /\ UNCHANGED <<samlVars, half>>
    \/ half = "saml" /\ SamlNext /\ UNCHANGED <<socialVars, half>>

MCSpec == MCInit /\ [][MCNext]_<<socialVars, samlVars, half>>

Symmetry == Permutations({q1, q2}) \cup Permutations({r1, r2}) \cup Permutations({s1, s2})
=============================================================================
