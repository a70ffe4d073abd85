------------------------ MODULE FederatedLoginProofs ------------------------
(* SocialLogin for any number of users, identities, states and requests,   *)
(* and SamlLogin for any number of assertions, relay states and requests.  *)
EXTENDS SocialLogin, SamlLogin, TLAPS

-----------------------------------------------------------------------------
(* SamlLogin. *)

LEMMA SamlInitInv == SamlInit => SamlIInv
  BY DEF SamlInit, SamlIInv, SamlTypeOK, AssertionInv, AssertionOK, AssertionPairOK, RelayInv,
         RelayOK, RelayPairOK, Missed, Past, Checked, Knows, On, Waiting, AcsState, AcsPC, Config

(* The step of a request that goes on to state. *)
LEMMA AcsUpdated ==
    ASSUME SamlTypeOK, NEW r \in SamlRequest, NEW state \in AcsState,
           acs' = [acs EXCEPT ![r] = state]
    PROVE  /\ acs' \in [SamlRequest -> AcsState]
           /\ acs'[r] = state
           /\ \A q \in SamlRequest \ {r} : acs'[q] = acs[q]
  BY DEF SamlTypeOK

LEMMA WaitingType == Waiting \in AcsState /\ Waiting.pc = "idle"
  BY DEF Waiting, AcsState, AcsPC

(* A request that moves on at pc. *)
LEMMA Advanced ==
    ASSUME SamlTypeOK, NEW r \in SamlRequest, NEW pc \in AcsPC, Advance(r, pc)
    PROVE  /\ acs' \in [SamlRequest -> AcsState]
           /\ acs'[r].pc = pc
           /\ acs'[r].assertion = acs[r].assertion /\ acs'[r].relay = acs[r].relay
           /\ acs'[r].idp = acs[r].idp /\ acs'[r].known = acs[r].known
           /\ \A q \in SamlRequest \ {r} : acs'[q] = acs[q]
<1> DEFINE state == [acs[r] EXCEPT !.pc = pc]
<1>1. /\ state \in AcsState /\ state.pc = pc
      /\ state.assertion = acs[r].assertion /\ state.relay = acs[r].relay
      /\ state.idp = acs[r].idp /\ state.known = acs[r].known
  BY DEF SamlTypeOK, AcsState
<1>2. acs' = [acs EXCEPT ![r] = state]
  BY DEF Advance
<1> HIDE DEF state
<1> QED
  BY <1>1, <1>2, AcsUpdated

(* A request ends. *)
LEMMA ReplyInv ==
    ASSUME SamlIInv, NEW r \in SamlRequest, Reply(r), UNCHANGED <<redis, samlGhosts>>
    PROVE  AssertionInv' /\ RelayInv'
<1>1. /\ acs'[r].pc = "idle"
      /\ \A q \in SamlRequest \ {r} : acs'[q] = acs[q]
  BY WaitingType, AcsUpdated DEF Reply, SamlIInv
<1>2. AssertionInv'
  BY <1>1 DEF SamlIInv, AssertionInv, AssertionOK, AssertionPairOK, Missed, Past, On, redis, samlGhosts
<1>3. RelayInv'
  BY <1>1 DEF SamlIInv, RelayInv, RelayOK, RelayPairOK, Checked, Knows, On, redis, samlGhosts
<1> QED
  BY <1>2, <1>3

LEMMA SamlNextInv == SamlIInv /\ [SamlNext]_samlVars => SamlIInv'
<1> SUFFICES ASSUME SamlIInv, [SamlNext]_samlVars PROVE SamlIInv'
  OBVIOUS
<1> USE DEF SamlIInv
<1>1. CASE UNCHANGED samlVars
  BY <1>1 DEF samlVars, rows, redis, samlGhosts, SamlTypeOK, AssertionInv, AssertionOK, AssertionPairOK,
       RelayInv, RelayOK, RelayPairOK, Missed, Past, Checked, Knows, On
<1>2. ASSUME NEW t \in Relay, BeginSpInitiatedLogin(t) PROVE SamlIInv'
  <2>1. SamlTypeOK' /\ AssertionInv'
    BY <1>2 DEF BeginSpInitiatedLogin, SamlTypeOK, AssertionInv, AssertionOK, AssertionPairOK, Missed, Past, On, rows
  <2>2. RelayInv'
    BY <1>2 DEF BeginSpInitiatedLogin, SamlTypeOK, RelayInv, RelayOK, RelayPairOK, Checked, Knows, On
  <2> QED
    BY <1>2, <2>1, <2>2 DEF BeginSpInitiatedLogin, On
<1>3. ASSUME NEW t \in Relay, RelayExpires(t) PROVE SamlIInv'
  <2>1. SamlTypeOK' /\ AssertionInv'
    BY <1>3 DEF RelayExpires, SamlTypeOK, AssertionInv, AssertionOK, AssertionPairOK, Missed, Past, On, rows, samlGhosts
  <2>2. RelayInv'
    BY <1>3 DEF RelayExpires, SamlTypeOK, RelayInv, RelayOK, RelayPairOK, Checked, Knows, On, samlGhosts
  <2> QED
    BY <1>3, <2>1, <2>2 DEF RelayExpires, On
<1>4. ASSUME NEW a \in Assertion, ReplayEntryExpires(a) PROVE SamlIInv'
  <2>1. SamlTypeOK' /\ AssertionInv'
    BY <1>4 DEF ReplayEntryExpires, SamlTypeOK, AssertionInv, AssertionOK, AssertionPairOK, Missed, Past, On, rows
  <2>2. RelayInv'
    BY <1>4 DEF ReplayEntryExpires, SamlTypeOK, RelayInv, RelayOK, RelayPairOK, Checked, Knows, On
  <2> QED
    BY <1>4, <2>1, <2>2 DEF ReplayEntryExpires, On
<1>5. ASSUME NEW r \in SamlRequest, NEW a \in Assertion, NEW t \in Relay \cup {Nil}, HandleAssertion(r, a, t)
      PROVE SamlIInv'
  <2> DEFINE state == [Waiting EXCEPT !.pc = "relay", !.assertion = a, !.relay = t, !.idp = ssoConfig.allowIdpInitiated]
  <2>1. state \in AcsState /\ state.pc = "relay" /\ state.assertion = a
    BY <1>5 DEF HandleAssertion, SamlTypeOK, Config, Waiting, AcsState, AcsPC
  <2>2. /\ acs' \in [SamlRequest -> AcsState] /\ acs'[r] = state
        /\ \A q \in SamlRequest \ {r} : acs'[q] = acs[q]
    BY <1>5, <2>1, AcsUpdated DEF HandleAssertion
  <2> HIDE DEF state
  <2>3. SamlTypeOK' /\ \A q \in SamlRequest : ~On(q, "idle")' => acs'[q].assertion \in Assertion
    BY <1>5, <2>1, <2>2 DEF HandleAssertion, SamlTypeOK, rows, redis, samlGhosts, On
  <2>4. AssertionInv'
    BY <1>5, <2>1, <2>2 DEF HandleAssertion, AssertionInv, AssertionOK, AssertionPairOK, Missed, Past, On, redis, samlGhosts
  <2>5. RelayInv'
    BY <1>5, <2>1, <2>2 DEF HandleAssertion, RelayInv, RelayOK, RelayPairOK, Checked, Knows, On, redis, samlGhosts
  <2> QED
    BY <2>3, <2>4, <2>5
<1>6. ASSUME NEW r \in SamlRequest, CheckRelay(r) PROVE SamlIInv'
  <2>1. PICK known \in {FALSE, acs[r].relay \in relays} :
          /\ Admitted(r, known)
          /\ acs' = [acs EXCEPT ![r] = [@ EXCEPT
                !.pc = IF acs[r].relay = Nil THEN "replay" ELSE "drop", !.known = known]]
          /\ racedRelays' =
                IF known /\ \E q \in SamlRequest : /\ On(q, "drop") /\ acs[q].known
                                                   /\ acs[q].relay = acs[r].relay
                THEN racedRelays \cup {acs[r].relay} ELSE racedRelays
    BY <1>6 DEF CheckRelay
  <2> DEFINE state == [acs[r] EXCEPT !.pc = IF acs[r].relay = Nil THEN "replay" ELSE "drop", !.known = known]
  <2>2. /\ state \in AcsState /\ state.pc \in {"replay", "drop"} /\ state.known = known
        /\ state.relay = acs[r].relay /\ state.idp = acs[r].idp /\ state.assertion = acs[r].assertion
        /\ acs[r].relay # Nil <=> state.pc = "drop"
    <3>1. acs[r] \in AcsState
      BY DEF SamlTypeOK
    <3>2. (acs[r].relay \in relays) \in BOOLEAN
      OBVIOUS
    <3>3. known \in BOOLEAN
      BY <3>2, Zenon
    <3> QED
      BY <3>1, <3>3 DEF AcsState, AcsPC
  <2>3. /\ acs' \in [SamlRequest -> AcsState] /\ acs'[r] = state
        /\ \A q \in SamlRequest \ {r} : acs'[q] = acs[q]
    BY <2>1, <2>2, AcsUpdated
  <2> HIDE DEF state
  <2>4. known => acs[r].relay \in relays /\ acs[r].relay # Nil
    BY SamlAssumption DEF SamlTypeOK
  <2>5. SamlTypeOK' /\ \A q \in SamlRequest : ~On(q, "idle")' => acs'[q].assertion \in Assertion
    BY <1>6, <2>1, <2>2, <2>3, <2>4 DEF CheckRelay, SamlTypeOK, rows, redis, On
  <2>6. AssertionInv'
    BY <1>6, <2>2, <2>3 DEF CheckRelay, AssertionInv, AssertionOK, AssertionPairOK, Missed, Past, On, redis
  <2>7. RelayInv'
    <3>1. /\ racedRelays \subseteq racedRelays' /\ UNCHANGED <<relays, created, answered>>
          /\ state.idp \/ state.known
      BY <1>6, <2>1, <2>2 DEF CheckRelay, redis, Admitted
    <3>2. ASSUME NEW q \in SamlRequest \ {r}, Knows(q), known, acs[q].relay = acs[r].relay
          PROVE acs[r].relay \in racedRelays'
      <4>1. CASE On(q, "drop")
        BY <3>2, <4>1, <2>1 DEF Knows
      <4>2. CASE ~On(q, "drop")
        BY <3>2, <4>2, <3>1, <2>4 DEF RelayInv, RelayOK
      <4> QED
        BY <4>1, <4>2
    <3>3. RelayOK(r)'
      <4>1. known => /\ acs[r].relay \in created
                     /\ acs[r].relay \in answered => acs[r].relay \in racedRelays
                     /\ state.pc = "drop"
        BY <2>2, <2>4 DEF RelayInv
      <4> QED
        BY <2>2, <2>3, <3>1, <4>1 DEF RelayOK, Checked, Knows, On
    <3>5. \A q \in SamlRequest \ {r} : RelayOK(q)'
      BY <2>3, <3>1 DEF RelayInv, RelayOK, Checked, Knows, On
    <3>4. \A q1, q2 \in SamlRequest : RelayPairOK(q1, q2)'
      BY <2>2, <2>3, <3>1, <3>2 DEF RelayInv, RelayPairOK, Checked, Knows
    <3> QED
      BY <3>1, <3>3, <3>4, <3>5 DEF RelayInv
  <2> QED
    BY <2>5, <2>6, <2>7
<1>7. ASSUME NEW r \in SamlRequest, DropRelay(r) PROVE SamlIInv'
  <2>1. /\ acs' \in [SamlRequest -> AcsState]
        /\ acs'[r].pc = "replay"
        /\ acs'[r].assertion = acs[r].assertion /\ acs'[r].relay = acs[r].relay
        /\ acs'[r].idp = acs[r].idp /\ acs'[r].known = acs[r].known
        /\ \A q \in SamlRequest \ {r} : acs'[q] = acs[q]
    BY <1>7, Advanced DEF DropRelay, AcsPC
  <2>2. acs[r].pc = "drop" /\ acs[r].assertion \in Assertion
    BY <1>7 DEF DropRelay, On
  <2>3. /\ relays' \subseteq relays /\ racedRelays \subseteq racedRelays' /\ racedRelays' \subseteq racedRelays \cup {acs[r].relay}
        /\ acs[r].relay \in relays' => acs[r].relay \in racedRelays'
        /\ UNCHANGED <<rows, seen, created, opened, answered, racedAssertions>>
    BY <1>7 DEF DropRelay
  <2>4. SamlTypeOK' /\ \A q \in SamlRequest : ~On(q, "idle")' => acs'[q].assertion \in Assertion
    <3>1. acs[r] \in AcsState /\ acs[r].relay # Nil
      BY <2>2 DEF SamlTypeOK, RelayInv, RelayOK, On
    <3>2. acs[r].relay \in Relay
      BY <3>1 DEF AcsState
    <3> QED
      BY <2>1, <2>2, <2>3, <3>2 DEF SamlTypeOK, rows, On
  <2>5. AssertionInv'
    BY <2>1, <2>2, <2>3 DEF AssertionInv, AssertionOK, AssertionPairOK, Missed, Past, On
  <2>6. RelayInv'
    BY <2>1, <2>2, <2>3 DEF RelayInv, RelayOK, RelayPairOK, Checked, Knows, On
  <2> QED
    BY <2>4, <2>5, <2>6
<1>8. ASSUME NEW r \in SamlRequest, CheckReplay(r) PROVE SamlIInv'
  <2> DEFINE a == acs[r].assertion
  <2>1. /\ acs' \in [SamlRequest -> AcsState]
        /\ acs'[r].pc = "remember"
        /\ acs'[r].assertion = acs[r].assertion /\ acs'[r].relay = acs[r].relay
        /\ acs'[r].idp = acs[r].idp /\ acs'[r].known = acs[r].known
        /\ \A q \in SamlRequest \ {r} : acs'[q] = acs[q]
    BY <1>8, Advanced DEF CheckReplay, AcsPC
  <2>2. acs[r].pc = "replay" /\ acs[r].assertion \in Assertion
    BY <1>8 DEF CheckReplay, On
  <2>3. /\ racedAssertions \subseteq racedAssertions' /\ racedAssertions' \subseteq racedAssertions \cup {a}
        /\ a \in seen => a \in racedAssertions'
        /\ \A q \in SamlRequest : Missed(q) /\ acs[q].assertion = a => a \in racedAssertions'
        /\ UNCHANGED <<rows, redis, created, opened, answered, racedRelays>>
    BY <1>8 DEF CheckReplay, Missed
  <2> HIDE DEF a
  <2>4. SamlTypeOK' /\ \A q \in SamlRequest : ~On(q, "idle")' => acs'[q].assertion \in Assertion
    BY <2>1, <2>2, <2>3 DEF SamlTypeOK, rows, redis, On, a
  <2>5. AssertionInv'
    BY <2>1, <2>2, <2>3 DEF AssertionInv, AssertionOK, AssertionPairOK, Missed, Past, On, redis, a
  <2>6. RelayInv'
    BY <2>1, <2>2, <2>3 DEF RelayInv, RelayOK, RelayPairOK, Checked, Knows, On, redis
  <2> QED
    BY <2>4, <2>5, <2>6
<1>9. ASSUME NEW r \in SamlRequest, Reply(r), UNCHANGED <<redis, samlGhosts>>,
             ssoConfig' = ssoConfig /\ samlUser' = samlUser /\ member' = member
      PROVE SamlIInv'
  <2>1. /\ acs' \in [SamlRequest -> AcsState] /\ acs'[r].pc = "idle"
        /\ \A q \in SamlRequest \ {r} : acs'[q] = acs[q]
    BY <1>9, WaitingType, AcsUpdated DEF Reply
  <2>2. SamlTypeOK' /\ \A q \in SamlRequest : ~On(q, "idle")' => acs'[q].assertion \in Assertion
    BY <1>9, <2>1 DEF SamlTypeOK, redis, samlGhosts, On
  <2> QED
    BY <1>9, <2>2, ReplyInv
<1>10. ASSUME NEW r \in SamlRequest, Remember(r) PROVE SamlIInv'
  <2> DEFINE a == acs[r].assertion
  <2>1. /\ acs' \in [SamlRequest -> AcsState]
        /\ acs'[r].pc = "provision"
        /\ acs'[r].assertion = acs[r].assertion /\ acs'[r].relay = acs[r].relay
        /\ acs'[r].idp = acs[r].idp /\ acs'[r].known = acs[r].known
        /\ \A q \in SamlRequest \ {r} : acs'[q] = acs[q]
    BY <1>10, Advanced DEF Remember, AcsPC
  <2>2. acs[r].pc = "remember" /\ acs[r].assertion \in Assertion
    BY <1>10 DEF Remember, On
  <2>3. /\ seen \subseteq seen' /\ seen' \subseteq seen \cup {a}
        /\ racedAssertions \subseteq racedAssertions' /\ racedAssertions' \subseteq racedAssertions \cup {a}
        /\ a \in seen' \cup racedAssertions'
        /\ UNCHANGED <<rows, relays, created, opened, answered, racedRelays>>
    BY <1>10 DEF Remember, Remembered
  <2> HIDE DEF a
  <2>4. SamlTypeOK' /\ \A q \in SamlRequest : ~On(q, "idle")' => acs'[q].assertion \in Assertion
    BY <2>1, <2>2, <2>3 DEF SamlTypeOK, rows, On, a
  <2>5. AssertionInv'
    <3>1. \A q \in SamlRequest \ {r} : Missed(q) /\ acs[q].assertion = a => a \in racedAssertions
      BY <2>2 DEF AssertionInv, AssertionPairOK, Missed, On, a
    <3>2. \A q \in SamlRequest \ {r} : Past(q) /\ acs[q].assertion = a => a \in racedAssertions
      BY <2>2 DEF AssertionInv, AssertionOK, Missed, On, a
    <3>3. \A q \in SamlRequest : AssertionOK(q)'
      BY <2>1, <2>2, <2>3, <3>1 DEF AssertionInv, AssertionOK, Missed, Past, On, a
    <3>4. \A q1, q2 \in SamlRequest : AssertionPairOK(q1, q2)'
      BY <2>1, <2>2, <2>3, <3>2 DEF AssertionInv, AssertionPairOK, Missed, Past, On, a
    <3> QED
      BY <2>3, <3>3, <3>4 DEF AssertionInv
  <2>6. RelayInv'
    BY <2>1, <2>2, <2>3 DEF RelayInv, RelayOK, RelayPairOK, Checked, Knows, On
  <2> QED
    BY <2>4, <2>5, <2>6
<1>11. ASSUME NEW r \in SamlRequest, Provision(r) PROVE SamlIInv'
  <2>1. /\ acs' \in [SamlRequest -> AcsState]
        /\ acs'[r].pc = "open"
        /\ acs'[r].assertion = acs[r].assertion /\ acs'[r].relay = acs[r].relay
        /\ acs'[r].idp = acs[r].idp /\ acs'[r].known = acs[r].known
        /\ \A q \in SamlRequest \ {r} : acs'[q] = acs[q]
    BY <1>11, Advanced DEF Provision, AcsPC
  <2>2. acs[r].pc = "provision" /\ acs[r].assertion \in Assertion
    BY <1>11 DEF Provision, On
  <2>3. SamlTypeOK' /\ \A q \in SamlRequest : ~On(q, "idle")' => acs'[q].assertion \in Assertion
    BY <1>11, <2>1, <2>2 DEF Provision, SamlTypeOK, redis, samlGhosts, On
  <2>4. AssertionInv'
    BY <1>11, <2>1, <2>2 DEF Provision, AssertionInv, AssertionOK, AssertionPairOK, Missed, Past, On, redis, samlGhosts
  <2>5. RelayInv'
    BY <1>11, <2>1, <2>2 DEF Provision, RelayInv, RelayOK, RelayPairOK, Checked, Knows, On, redis, samlGhosts
  <2> QED
    BY <2>3, <2>4, <2>5
<1>12. ASSUME NEW r \in SamlRequest, OpenSamlSession(r) PROVE SamlIInv'
  <2> DEFINE a == acs[r].assertion
  <2> DEFINE t == acs[r].relay
  <2>1. /\ acs' \in [SamlRequest -> AcsState] /\ acs'[r].pc = "idle"
        /\ \A q \in SamlRequest \ {r} : acs'[q] = acs[q]
    BY <1>12, WaitingType, AcsUpdated DEF OpenSamlSession, Reply
  <2>2. /\ acs[r].pc = "open" /\ a \in Assertion
        /\ opened' = opened \cup {a}
        /\ UNCHANGED <<rows, redis, created, racedAssertions, racedRelays>>
    BY <1>12 DEF OpenSamlSession, On
  <2>3. /\ answered \subseteq answered' /\ answered' \subseteq answered \cup {t}
        /\ t \in answered' => t \in answered \/ Knows(r)
    BY <1>12, <2>2 DEF OpenSamlSession, Knows, Checked
  <2> HIDE DEF a, t
  <2>4. Knows(r) => /\ t \in created
                    /\ t \in relays => t \in racedRelays
                    /\ \A q \in SamlRequest \ {r} : Knows(q) /\ acs[q].relay = t => t \in racedRelays
    BY <2>2 DEF RelayInv, RelayOK, RelayPairOK, On, t
  <2>5. SamlTypeOK' /\ \A q \in SamlRequest : ~On(q, "idle")' => acs'[q].assertion \in Assertion
    <3>1. answered' \subseteq Relay
      BY <2>3, <2>4 DEF SamlTypeOK
    <3> QED
      BY <2>1, <2>2, <3>1 DEF SamlTypeOK, rows, redis, On
  <2>6. AssertionInv'
    BY <2>1, <2>2 DEF AssertionInv, AssertionOK, AssertionPairOK, Missed, Past, On, redis, a
  <2>7. RelayInv'
    <3>1. relays' = relays /\ created' = created /\ racedRelays' = racedRelays
      BY <2>2 DEF redis
    <3>2. \A q \in SamlRequest : RelayOK(q)'
      BY <2>1, <2>3, <2>4, <3>1 DEF RelayInv, RelayOK, Checked, Knows, On
    <3>3. \A q1, q2 \in SamlRequest : RelayPairOK(q1, q2)'
      BY <2>1, <3>1 DEF RelayInv, RelayPairOK, Checked, Knows
    <3> QED
      BY <2>3, <2>4, <3>1, <3>2, <3>3 DEF RelayInv
  <2> QED
    BY <2>5, <2>6, <2>7
<1>13. ASSUME NEW config \in Config \cup {Nil}, Configure(config) PROVE SamlIInv'
  BY <1>13 DEF Configure, redis, samlGhosts, SamlTypeOK, AssertionInv, AssertionOK, AssertionPairOK,
       RelayInv, RelayOK, RelayPairOK, Missed, Past, Checked, Knows, On
<1>14. ASSUME Deactivate("INACTIVE", "SUSPENDED") \/ Deactivate("deleted", "removed") PROVE SamlIInv'
  BY <1>14 DEF Deactivate, redis, samlGhosts, SamlTypeOK, AssertionInv, AssertionOK, AssertionPairOK,
       RelayInv, RelayOK, RelayPairOK, Missed, Past, Checked, Knows, On
<1>15. ASSUME NEW r \in SamlRequest, RefuseReplay(r) \/ AbandonAcs(r) PROVE SamlIInv'
  BY <1>9, <1>15 DEF RefuseReplay, AbandonAcs, rows
<1> QED
  <2>1. CASE SamlNext
    BY <2>1, <1>2, <1>3, <1>4, <1>5, <1>6, <1>7, <1>8, <1>10, <1>11, <1>12, <1>13, <1>14, <1>15
       DEF SamlNext, AcsStep
  <2> QED
    BY <1>1, <2>1

(* SamlIInv holds in every reachable state. *)
THEOREM SamlInductive == SamlSpec => []SamlIInv
  BY SamlInitInv, SamlNextInv, PTL DEF SamlSpec

(* Every variable of SamlLogin stays in its type. *)
THEOREM SamlTypeCorrect == SamlSpec => []SamlTypeOK
<1>1. SamlIInv => SamlTypeOK
  BY DEF SamlIInv
<1> QED
  BY <1>1, SamlInductive, PTL

(* guardReplay: one assertion, one session, but for a race or a failure of *)
(* Redis.                                                                  *)
THEOREM OneSessionPerAssertion == SamlSpec => []AssertionOpensOneSession
<1>1. SamlIInv => AssertionOpensOneSession
  BY DEF SamlIInv, AssertionInv, AssertionOK, AssertionOpensOneSession, Past, On
<1> QED
  BY <1>1, SamlInductive, PTL

(* handleAssertion: without IdP-initiated logins a session answers a relay *)
(* state created here, and no two the same, but for a race or a failure.   *)
THEOREM SessionsAreAskedFor == SamlSpec => []EverySessionWasAskedFor
<1>1. SamlIInv => EverySessionWasAskedFor
  BY DEF SamlIInv, RelayInv, RelayOK, EverySessionWasAskedFor, Knows, Checked, On
<1> QED
  BY <1>1, SamlInductive, PTL
-----------------------------------------------------------------------------
(* SocialLogin. *)

LEMMA RestingType == Resting \in CallState /\ Resting.pc = "idle" /\ Resting.identity = None
  BY DEF Resting, CallState, CallPC

LEMMA SocialInitInv == SocialInit => SocialIInv
<1> SUFFICES ASSUME SocialInit PROVE SocialIInv
  OBVIOUS
<1>1. \A r \in SocialRequest : call[r] = Resting
  BY DEF SocialInit
<1>2. SocialTypeOK
  BY RestingType DEF SocialInit, SocialTypeOK
<1>3. StateInv
  BY <1>1, RestingType DEF SocialInit, StateInv, In
<1>4. \A r \in SocialRequest : CallOK(r)
  BY <1>1, RestingType DEF CallOK, In
<1> QED
  BY <1>2, <1>3, <1>4 DEF SocialIInv

(* The step of a request that goes on to to. *)
LEMMA CallUpdated ==
    ASSUME SocialTypeOK, NEW r \in SocialRequest, NEW to \in CallState,
           call' = [call EXCEPT ![r] = to]
    PROVE  /\ call' \in [SocialRequest -> CallState]
           /\ call'[r] = to
           /\ \A q \in SocialRequest \ {r} : call'[q] = call[q]
  BY DEF SocialTypeOK

(* A request that moves on at pc, and keeps what it has read. *)
LEMMA Proceeded ==
    ASSUME SocialTypeOK, NEW r \in SocialRequest, NEW pc \in CallPC, Proceed(r, pc)
    PROVE  /\ call' \in [SocialRequest -> CallState]
           /\ call'[r].pc = pc
           /\ call'[r].identity = call[r].identity /\ call'[r].row = call[r].row
           /\ call'[r].user = call[r].user /\ call'[r].linkUser = call[r].linkUser
           /\ \A q \in SocialRequest \ {r} : call'[q] = call[q]
<1> DEFINE to == [call[r] EXCEPT !.pc = pc]
<1>1. /\ to \in CallState /\ to.pc = pc
      /\ to.identity = call[r].identity /\ to.row = call[r].row
      /\ to.user = call[r].user /\ to.linkUser = call[r].linkUser
  BY DEF SocialTypeOK, CallState
<1>2. call' = [call EXCEPT ![r] = to]
  BY DEF Proceed
<1> HIDE DEF to
<1> QED
  BY <1>1, <1>2, CallUpdated

LEMMA HungUp ==
    ASSUME SocialTypeOK, NEW r \in SocialRequest, Hangup(r)
    PROVE  /\ call' \in [SocialRequest -> CallState]
           /\ call'[r].pc = "idle" /\ call'[r].identity = None
           /\ \A q \in SocialRequest \ {r} : call'[q] = call[q]
  BY RestingType, CallUpdated DEF Hangup

(* The part of a step of a request that leaves the states alone. *)
LEMMA StatesKept ==
    ASSUME StateInv, NEW r \in SocialRequest, UNCHANGED <<stored, stateGhosts>>,
           call'[r].pc # "delete", \A q \in SocialRequest \ {r} : call'[q] = call[q]
    PROVE  StateInv'
  BY DEF StateInv, stateGhosts, In

(* The part of a step of a request that concerns the others, when the      *)
(* owners stay.                                                            *)
LEMMA OthersKept ==
    ASSUME NEW r \in SocialRequest, \A q \in SocialRequest : CallOK(q),
           UNCHANGED owner, \A q \in SocialRequest \ {r} : linked'[q] = linked[q],
           \A q \in SocialRequest \ {r} : call'[q] = call[q]
    PROVE  \A q \in SocialRequest \ {r} : CallOK(q)'
  BY DEF CallOK, In

(* The ghost of the owners covers what is written. *)
LEMMA OwnersCovered ==
    ASSUME SocialTypeOK, owner' \in [Identity -> User \cup {None}], OwnersSeen
    PROVE  /\ linked' \in [SocialRequest -> SUBSET User]
           /\ \A q \in SocialRequest :
                 /\ linked[q] \subseteq linked'[q]
                 /\ call[q].identity # None =>
                       owner'[call[q].identity] \in linked'[q] \cup {None}
<1>1. ASSUME NEW q \in SocialRequest
      PROVE  /\ linked'[q] \subseteq User /\ linked[q] \subseteq linked'[q]
             /\ call[q].identity # None =>
                   owner'[call[q].identity] \in linked'[q] \cup {None}
  <2>1. /\ linked[q] \subseteq User
        /\ call[q].identity # None => owner'[call[q].identity] \in User \cup {None}
    BY DEF SocialTypeOK, CallState
  <2>2. linked'[q] = IF call[q].identity = None THEN linked[q]
                     ELSE linked[q] \cup ({owner'[call[q].identity]} \ {None})
    BY DEF OwnersSeen
  <2> QED
    BY <2>1, <2>2
<1>2. DOMAIN linked' = SocialRequest /\ linked' = [q \in SocialRequest |-> linked'[q]]
  BY DEF OwnersSeen
<1> QED
  BY <1>1, <1>2

(* A row of oauth_accounts is written or deleted by request r. *)
LEMMA OwnerWritten ==
    ASSUME SocialIInv, NEW r \in SocialRequest, OwnersSeen,
           owner' \in [Identity -> User \cup {None}],
           call' \in [SocialRequest -> CallState],
           \A q \in SocialRequest \ {r} : call'[q] = call[q],
           \/ call'[r].pc = "idle" /\ call'[r].identity = None
           \/ /\ call'[r].pc = "session" /\ call'[r].identity = call[r].identity
              /\ call'[r].identity # None /\ call'[r].user = Email[call[r].identity],
           UNCHANGED <<stored, status, stateGhosts>>
    PROVE  SocialIInv'
<1>1. SocialTypeOK'
  BY OwnersCovered DEF SocialIInv, SocialTypeOK, stateGhosts
<1>2. StateInv'
  BY StatesKept DEF SocialIInv
<1>3. ASSUME NEW q \in SocialRequest \ {r} PROVE CallOK(q)'
  BY OwnersCovered DEF SocialIInv, CallOK, In
<1>4. CallOK(r)'
  BY OwnersCovered DEF SocialIInv, CallOK, In
<1> QED
  BY <1>1, <1>2, <1>3, <1>4 DEF SocialIInv

(* A request goes on without a write: only it has to be looked at. *)
LEMMA RequestGoesOn ==
    ASSUME SocialIInv, NEW r \in SocialRequest,
           call' \in [SocialRequest -> CallState], call'[r].pc # "delete",
           \A q \in SocialRequest \ {r} : call'[q] = call[q],
           CallOK(r)', UNCHANGED <<stored, tables, stateGhosts, linked>>
    PROVE  SocialIInv'
<1>1. SocialTypeOK'
  BY DEF SocialIInv, SocialTypeOK, tables, stateGhosts
<1>2. StateInv'
  BY StatesKept DEF SocialIInv
<1>3. \A q \in SocialRequest \ {r} : CallOK(q)'
  BY OthersKept DEF SocialIInv, tables
<1> QED
  BY <1>1, <1>2, <1>3 DEF SocialIInv

LEMMA SocialNextInv == SocialIInv /\ [SocialNext]_socialVars => SocialIInv'
<1> SUFFICES ASSUME SocialIInv, [SocialNext]_socialVars PROVE SocialIInv'
  OBVIOUS
<1>0. SocialTypeOK /\ StateInv /\ \A r \in SocialRequest : CallOK(r)
  BY DEF SocialIInv
<1>1. CASE UNCHANGED socialVars
  BY <1>0, <1>1 DEF socialVars, tables, stateGhosts, SocialIInv, SocialTypeOK, StateInv, CallOK, In
<1>2. ASSUME NEW s \in State, NEW data \in Data, Begin(s, data) PROVE SocialIInv'
  <2>1. SocialTypeOK'
    BY <1>0, <1>2 DEF Begin, SocialTypeOK, tables
  <2>2. StateInv'
    BY <1>0, <1>2 DEF Begin, SocialTypeOK, StateInv, In
  <2>3. \A q \in SocialRequest : CallOK(q)'
    BY <1>0, <1>2 DEF Begin, CallOK, In, tables
  <2> QED
    BY <2>1, <2>2, <2>3 DEF SocialIInv
<1>3. ASSUME NEW s \in State, StateExpires(s) PROVE SocialIInv'
  <2>1. SocialTypeOK'
    BY <1>0, <1>3 DEF StateExpires, SocialTypeOK, tables, stateGhosts
  <2>2. StateInv'
    BY <1>0, <1>3 DEF StateExpires, SocialTypeOK, StateInv, In, stateGhosts
  <2>3. \A q \in SocialRequest : CallOK(q)'
    BY <1>0, <1>3 DEF StateExpires, CallOK, In, tables
  <2> QED
    BY <2>1, <2>2, <2>3 DEF SocialIInv
<1>4. ASSUME NEW r \in SocialRequest, NEW s \in State, NEW i \in Identity, ReadState(r, s, i)
      PROVE SocialIInv'
  <2> DEFINE to == [Resting EXCEPT
          !.pc = "delete", !.state = s, !.identity = i, !.linkUser = stored[s].linkUser,
          !.matches = (stored[s].provider = ProviderOf[i])]
  <2>1. /\ to \in CallState
        /\ to.pc = "delete" /\ to.state = s /\ to.identity = i
    <3>1. stored[s].linkUser \in User \cup {None}
      BY <1>0, <1>4 DEF ReadState, SocialTypeOK, Data
    <3>2. (stored[s].provider = ProviderOf[i]) \in BOOLEAN
      OBVIOUS
    <3> QED
      BY <3>1, <3>2 DEF Resting, CallState, CallPC
  <2>2. call' = [call EXCEPT ![r] = to]
    BY <1>4 DEF ReadState
  <2> HIDE DEF to
  <2>3. /\ call' \in [SocialRequest -> CallState] /\ call'[r] = to
        /\ \A q \in SocialRequest \ {r} : call'[q] = call[q]
    BY <1>0, <2>1, <2>2, CallUpdated
  <2>4. /\ linked' \in [SocialRequest -> SUBSET User]
        /\ owner[i] \in linked'[r] \cup {None}
        /\ \A q \in SocialRequest \ {r} : linked'[q] = linked[q]
    BY <1>0, <1>4 DEF ReadState, SocialTypeOK
  <2>5. SocialTypeOK'
    BY <1>0, <1>4, <2>3, <2>4 DEF ReadState, SocialTypeOK, tables
  <2>6. StateInv'
    <3>1. s \in begun /\ (s \in passed => s \in excused)
      BY <1>0, <1>4 DEF ReadState, StateInv
    <3>2. /\ excused \subseteq excused'
          /\ \A q \in SocialRequest : In(q, "delete") /\ call[q].state = s => s \in excused'
          /\ UNCHANGED <<stored, begun, passed>>
      BY <1>4 DEF ReadState
    <3> QED
      BY <1>0, <2>1, <2>3, <3>1, <3>2 DEF StateInv, In
  <2>7. CallOK(r)'
    BY <1>4, <2>1, <2>3, <2>4, SocialAssumption DEF ReadState, CallOK, In, tables
  <2>8. \A q \in SocialRequest \ {r} : CallOK(q)'
    BY <1>0, <1>4, <2>3, <2>4, OthersKept DEF ReadState, tables
  <2> QED
    BY <2>5, <2>6, <2>7, <2>8 DEF SocialIInv
<1>5. ASSUME NEW r \in SocialRequest, NEW i \in Identity, FindLinked(r, i) PROVE SocialIInv'
  <2> DEFINE to == [Resting EXCEPT !.pc = "unlink", !.identity = i, !.user = owner[i]]
  <2>1. /\ to \in CallState /\ to.pc = "unlink" /\ to.identity = i
        /\ owner[i] \in User
    BY <1>0, <1>5 DEF FindLinked, SocialTypeOK, Resting, CallState, CallPC
  <2>2. call' = [call EXCEPT ![r] = to]
    BY <1>5 DEF FindLinked
  <2> HIDE DEF to
  <2>3. /\ call' \in [SocialRequest -> CallState] /\ call'[r] = to
        /\ \A q \in SocialRequest \ {r} : call'[q] = call[q]
    BY <1>0, <2>1, <2>2, CallUpdated
  <2>4. /\ linked' \in [SocialRequest -> SUBSET User]
        /\ owner[i] \in linked'[r]
        /\ \A q \in SocialRequest \ {r} : linked'[q] = linked[q]
    BY <1>0, <1>5, <2>1 DEF FindLinked, SocialTypeOK
  <2>5. SocialTypeOK'
    BY <1>0, <1>5, <2>3, <2>4 DEF FindLinked, SocialTypeOK, tables, stateGhosts
  <2>6. StateInv'
    BY <1>0, <1>5, <2>1, <2>3, StatesKept DEF FindLinked
  <2>7. CallOK(r)'
    BY <1>5, <2>1, <2>3, <2>4, SocialAssumption DEF FindLinked, CallOK, In, tables
  <2>8. \A q \in SocialRequest \ {r} : CallOK(q)'
    BY <1>0, <1>5, <2>3, <2>4, OthersKept DEF FindLinked, tables
  <2> QED
    BY <2>5, <2>6, <2>7, <2>8 DEF SocialIInv
<1>6. ASSUME NEW r \in SocialRequest, DeleteState(r) PROVE SocialIInv'
  <2> DEFINE s == call[r].state
  <2>1. s \in State /\ In(r, "delete") /\ call[r].identity # None
    BY <1>0, <1>6 DEF DeleteState, CallOK, In
  <2>2. /\ call' \in [SocialRequest -> CallState]
        /\ \/ call'[r].pc = "idle" /\ call'[r].identity = None
           \/ /\ call'[r].pc = "account" /\ call'[r].identity = call[r].identity
           \/ /\ call'[r].pc = "identity" /\ call'[r].identity = call[r].identity
              /\ call[r].linkUser # None /\ call'[r].linkUser = call[r].linkUser
        /\ \A q \in SocialRequest \ {r} : call'[q] = call[q]
    <3>1. CASE Hangup(r)
      BY <1>0, <3>1, HungUp
    <3>2. CASE Proceed(r, "account")
      BY <1>0, <3>2, Proceeded DEF CallPC
    <3>3. CASE Proceed(r, "identity") /\ call[r].linkUser # None
      BY <1>0, <3>3, Proceeded DEF CallPC
    <3> QED
      BY <1>6, <3>1, <3>2, <3>3 DEF DeleteState
  <2>3. /\ passed' = passed \cup {s}
        /\ \/ stored' = [stored EXCEPT ![s] = None] /\ excused' = excused
           \/ stored' = stored /\ excused' = excused \cup {s}
        /\ UNCHANGED <<status, owner, begun, linked>>
    BY <1>6 DEF DeleteState, WithoutState, tables
  <2>4. SocialTypeOK'
    BY <1>0, <2>1, <2>2, <2>3 DEF SocialTypeOK
  <2>5. StateInv'
    <3>1. \A q \in SocialRequest \ {r} : In(q, "delete") /\ call[q].state = s => s \in excused
      BY <1>0, <2>1 DEF StateInv
    <3>2. s \in begun /\ passed \subseteq State /\ stored \in [State -> {None} \cup Data]
      BY <1>0, <2>1 DEF StateInv, SocialTypeOK
    <3> HIDE DEF s
    <3>3. /\ excused \subseteq excused'
          /\ \A x \in State : stored'[x] # None => stored[x] # None
          /\ \A x \in passed : stored'[x] # None => stored[x] # None
          /\ stored'[s] # None => s \in excused'
      BY <2>1, <2>3, <3>2
    <3>4. ASSUME NEW q \in SocialRequest, In(q, "delete")'
          PROVE  q # r /\ In(q, "delete") /\ call'[q] = call[q]
      BY <2>2, <3>4 DEF In
    <3> QED
      BY <1>0, <2>1, <2>3, <3>1, <3>2, <3>3, <3>4 DEF StateInv
  <2>6. CallOK(r)'
    <3>1. call[r].linkUser \in User \cup {None} /\ owner[call[r].identity] \in linked[r] \cup {None}
      BY <1>0, <2>1 DEF SocialTypeOK, CallState, CallOK
    <3> QED
      BY <2>1, <2>2, <2>3, <3>1 DEF CallOK, In
  <2>7. \A q \in SocialRequest \ {r} : CallOK(q)'
    BY <1>0, <2>2, <2>3, OthersKept
  <2> QED
    BY <2>4, <2>5, <2>6, <2>7 DEF SocialIInv
<1>7. ASSUME NEW r \in SocialRequest, FindAccount(r) PROVE SocialIInv'
  <2>1. /\ In(r, "account") /\ call[r].identity \in Identity
        /\ UNCHANGED <<stored, tables, stateGhosts, linked>>
    BY <1>0, <1>7 DEF FindAccount, SocialTypeOK, CallState, CallOK, In
  <2>2. CASE Proceed(r, "email")
    <3>1. /\ call' \in [SocialRequest -> CallState] /\ call'[r].pc = "email"
          /\ call'[r].identity = call[r].identity
          /\ \A q \in SocialRequest \ {r} : call'[q] = call[q]
      BY <1>0, <2>2, Proceeded DEF CallPC
    <3>2. CallOK(r)'
      BY <1>0, <2>1, <3>1 DEF CallOK, In, tables
    <3> QED
      BY <2>1, <3>1, <3>2, RequestGoesOn
  <2>3. ASSUME NEW j \in RowsOf(call[r].identity), Found(r, j, owner[j], "persist") PROVE SocialIInv'
    <3> DEFINE to == [call[r] EXCEPT !.pc = "persist", !.row = j, !.user = owner[j],
                                     !.active = (status[owner[j]] = "active")]
    <3>1. j = call[r].identity /\ owner[j] \in User /\ owner[j] \in linked[r]
      BY <1>0, <2>1, <2>3 DEF RowsOf, SocialTypeOK, CallOK, In
    <3>2. (status[owner[j]] = "active") \in BOOLEAN /\ call[r] \in CallState
      BY <1>0 DEF SocialTypeOK
    <3>3. /\ to \in CallState /\ to.pc = "persist" /\ to.row = j /\ to.user = owner[j]
          /\ to.identity = call[r].identity
      BY <2>1, <3>1, <3>2, ZenonT(60) DEF CallState, CallPC
    <3>4. call' = [call EXCEPT ![r] = to]
      BY <2>3 DEF Found
    <3> HIDE DEF to
    <3>5. /\ call' \in [SocialRequest -> CallState] /\ call'[r] = to
          /\ \A q \in SocialRequest \ {r} : call'[q] = call[q]
      BY <1>0, <3>3, <3>4, CallUpdated
    <3>6. CallOK(r)'
      BY <1>0, <2>1, <3>1, <3>3, <3>5 DEF CallOK, In, tables
    <3> QED
      BY <2>1, <3>3, <3>5, <3>6, RequestGoesOn
  <2> QED
    BY <1>7, <2>2, <2>3 DEF FindAccount
<1>8. ASSUME NEW r \in SocialRequest, FindUser(r) PROVE SocialIInv'
  <2> DEFINE u == Email[call[r].identity]
  <2> DEFINE to == [call[r] EXCEPT !.pc = IF status[u] = "absent" THEN "create" ELSE "attach",
                       !.row = None, !.user = u, !.active = (status[u] = "active")]
  <2>1. /\ In(r, "email") /\ call[r].identity \in Identity /\ call[r] \in CallState
        /\ UNCHANGED <<stored, tables, stateGhosts, linked>>
    BY <1>0, <1>8 DEF FindUser, SocialTypeOK, CallState, CallOK, In
  <2>2. u \in User
    BY <2>1, SocialAssumption
  <2>3. (status[u] = "active") \in BOOLEAN
    OBVIOUS
  <2>4. call' = [call EXCEPT ![r] = to]
    BY <1>8 DEF FindUser, Found
  <2> HIDE DEF u
  <2>5. /\ to \in CallState /\ to.pc \in {"create", "attach"} /\ to.user = u
        /\ to.identity = call[r].identity
    BY <2>1, <2>2, <2>3, ZenonT(60) DEF CallState, CallPC
  <2> HIDE DEF to
  <2>6. /\ call' \in [SocialRequest -> CallState] /\ call'[r] = to
        /\ \A q \in SocialRequest \ {r} : call'[q] = call[q]
    BY <1>0, <2>4, <2>5, CallUpdated
  <2>7. CallOK(r)'
    BY <1>0, <2>1, <2>5, <2>6 DEF CallOK, In, tables, u
  <2> QED
    BY <2>1, <2>5, <2>6, <2>7, RequestGoesOn
<1>9. ASSUME NEW r \in SocialRequest, CreateUser(r) PROVE SocialIInv'
  <2> DEFINE to == [call[r] EXCEPT !.pc = "attach", !.active = TRUE]
  <2>1. /\ In(r, "create") /\ call[r].identity # None /\ call[r].user = Email[call[r].identity]
        /\ call[r] \in CallState
        /\ UNCHANGED <<stored, owner, stateGhosts, linked>>
    BY <1>0, <1>9 DEF CreateUser, SocialTypeOK, CallOK, In
  <2>2. /\ to \in CallState /\ to.pc = "attach" /\ to.user = call[r].user
        /\ to.identity = call[r].identity
    BY <2>1 DEF CallState, CallPC
  <2>3. call' = [call EXCEPT ![r] = to]
    BY <1>9 DEF CreateUser
  <2> HIDE DEF to
  <2>4. /\ call' \in [SocialRequest -> CallState] /\ call'[r] = to
        /\ \A q \in SocialRequest \ {r} : call'[q] = call[q]
    BY <1>0, <2>2, <2>3, CallUpdated
  <2>5. SocialTypeOK'
    BY <1>0, <1>9, <2>1, <2>4 DEF CreateUser, SocialTypeOK, stateGhosts
  <2>6. StateInv'
    BY <1>0, <2>1, <2>2, <2>4, StatesKept
  <2>7. CallOK(r)'
    BY <1>0, <2>1, <2>2, <2>4 DEF CallOK, In
  <2>8. \A q \in SocialRequest \ {r} : CallOK(q)'
    BY <1>0, <2>1, <2>4, OthersKept
  <2> QED
    BY <2>5, <2>6, <2>7, <2>8 DEF SocialIInv
<1>10. ASSUME NEW r \in SocialRequest, Hangup(r), UNCHANGED <<stored, tables, stateGhosts, linked>>
       PROVE SocialIInv'
  <2>1. /\ call' \in [SocialRequest -> CallState]
        /\ call'[r].pc = "idle" /\ call'[r].identity = None
        /\ \A q \in SocialRequest \ {r} : call'[q] = call[q]
    BY <1>0, <1>10, HungUp
  <2>2. CallOK(r)'
    BY <2>1 DEF CallOK, In
  <2> QED
    BY <1>10, <2>1, <2>2, RequestGoesOn
<1>11. ASSUME NEW r \in SocialRequest, Attach(r) PROVE SocialIInv'
  <2>1. /\ call[r].identity \in Identity /\ call[r].user = Email[call[r].identity]
        /\ call[r].user \in User
    BY <1>0, <1>11, SocialAssumption DEF Attach, SocialTypeOK, CallState, CallOK, In
  <2>2. OwnersSeen /\ owner' \in [Identity -> User \cup {None}]
    BY <1>0, <1>11, <2>1 DEF Attach, CreateLinkedAccount, SocialTypeOK
  <2>3. /\ call' \in [SocialRequest -> CallState]
        /\ \A q \in SocialRequest \ {r} : call'[q] = call[q]
        /\ \/ call'[r].pc = "idle" /\ call'[r].identity = None
           \/ /\ call'[r].pc = "session" /\ call'[r].identity = call[r].identity
              /\ call'[r].user = call[r].user
    <3>1. CASE Hangup(r)
      BY <1>0, <3>1, HungUp
    <3>2. CASE Proceed(r, "session")
      BY <1>0, <3>2, Proceeded DEF CallPC
    <3> QED
      BY <1>11, <3>1, <3>2 DEF Attach
  <2>4. call[r].identity # None
    BY <2>1, SocialAssumption
  <2> QED
    BY <1>11, <2>1, <2>2, <2>3, <2>4, OwnerWritten DEF Attach
<1>12. ASSUME NEW r \in SocialRequest, PersistTokens(r) PROVE SocialIInv'
  <2>1. /\ call[r].identity # None /\ call[r].user \in linked[r]
        /\ UNCHANGED <<stored, tables, stateGhosts, linked>>
    BY <1>0, <1>12 DEF PersistTokens, CallOK, In
  <2>2. CASE Proceed(r, "session")
    <3>1. /\ call' \in [SocialRequest -> CallState] /\ call'[r].pc = "session"
          /\ call'[r].identity = call[r].identity /\ call'[r].user = call[r].user
          /\ \A q \in SocialRequest \ {r} : call'[q] = call[q]
      BY <1>0, <2>2, Proceeded DEF CallPC
    <3>2. CallOK(r)'
      BY <1>0, <2>1, <3>1 DEF CallOK, In, tables
    <3> QED
      BY <2>1, <3>1, <3>2, RequestGoesOn
  <2> QED
    BY <1>10, <1>12, <2>1, <2>2 DEF PersistTokens
<1>13. ASSUME NEW r \in SocialRequest, OpenSession(r) \/ Abandon(r) PROVE SocialIInv'
  BY <1>10, <1>13 DEF OpenSession, Abandon
<1>14. ASSUME NEW r \in SocialRequest, CheckIdentity(r) \/ CheckProvider(r) PROVE SocialIInv'
  <2>1. /\ call[r].pc \in {"identity", "provider"}
        /\ UNCHANGED <<stored, tables, stateGhosts, linked>>
        /\ Proceed(r, "provider") \/ Proceed(r, "attachLink")
    BY <1>14 DEF CheckIdentity, CheckProvider, In
  <2>2. /\ call' \in [SocialRequest -> CallState] /\ call'[r].pc \in {"provider", "attachLink"}
        /\ call'[r].identity = call[r].identity /\ call'[r].linkUser = call[r].linkUser
        /\ \A q \in SocialRequest \ {r} : call'[q] = call[q]
    <3>1. CASE Proceed(r, "provider")
      BY <1>0, <3>1, Proceeded DEF CallPC
    <3>2. CASE Proceed(r, "attachLink")
      BY <1>0, <3>2, Proceeded DEF CallPC
    <3> QED
      BY <2>1, <3>1, <3>2
  <2>3. CallOK(r)'
    BY <1>0, <2>1, <2>2 DEF CallOK, In, tables
  <2> QED
    BY <2>1, <2>2, <2>3, RequestGoesOn
<1>15. ASSUME NEW r \in SocialRequest, Link(r) PROVE SocialIInv'
  <2>1. OwnersSeen /\ owner' \in [Identity -> User \cup {None}]
    BY <1>0, <1>15 DEF Link, CreateLinkedAccount, SocialTypeOK, CallOK, In
  <2>2. /\ call' \in [SocialRequest -> CallState]
        /\ call'[r].pc = "idle" /\ call'[r].identity = None
        /\ \A q \in SocialRequest \ {r} : call'[q] = call[q]
    BY <1>0, <1>15, HungUp DEF Link
  <2> QED
    BY <1>15, <2>1, <2>2, OwnerWritten DEF Link
<1>16. ASSUME NEW r \in SocialRequest, Unlink(r) PROVE SocialIInv'
  <2>1. OwnersSeen /\ owner' \in [Identity -> User \cup {None}]
    BY <1>0, <1>16 DEF Unlink, SocialTypeOK
  <2>2. /\ call' \in [SocialRequest -> CallState]
        /\ call'[r].pc = "idle" /\ call'[r].identity = None
        /\ \A q \in SocialRequest \ {r} : call'[q] = call[q]
    BY <1>0, <1>16, HungUp DEF Unlink
  <2> QED
    BY <1>16, <2>1, <2>2, OwnerWritten DEF Unlink
<1>17. ASSUME NEW u \in User, NEW value \in {"active", "barred"}, SetStatus(u, value) PROVE SocialIInv'
  BY <1>0, <1>17 DEF SetStatus, SocialIInv, SocialTypeOK, StateInv, CallOK, In, stateGhosts
<1> QED
  <2>1. \A provider \in Provider : /\ [provider |-> provider, linkUser |-> None] \in Data
                                   /\ \A u \in User : [provider |-> provider, linkUser |-> u] \in Data
    BY DEF Data
  <2>2. ASSUME NEW s \in State, NEW provider \in Provider, BeginLogin(s, provider) PROVE SocialIInv'
    BY <1>2, <2>1, <2>2 DEF BeginLogin
  <2>3. ASSUME NEW s \in State, NEW provider \in Provider, NEW u \in User, BeginLink(s, provider, u)
        PROVE SocialIInv'
    BY <1>2, <2>1, <2>3 DEF BeginLink
  <2>4. ASSUME NEW r \in SocialRequest, CallbackStep(r) PROVE SocialIInv'
    BY <1>6, <1>7, <1>8, <1>9, <1>11, <1>12, <1>13, <1>14, <1>15, <1>16, <2>4 DEF CallbackStep
  <2>5. CASE SocialNext
    BY <1>3, <1>4, <1>5, <1>13, <1>17, <2>2, <2>3, <2>4, <2>5 DEF SocialNext
  <2> QED
    BY <1>1, <2>5

(* SocialIInv holds in every reachable state. *)
THEOREM SocialInductive == SocialSpec => []SocialIInv
  BY SocialInitInv, SocialNextInv, PTL DEF SocialSpec

(* Every variable of SocialLogin stays in its type. *)
THEOREM SocialTypeCorrect == SocialSpec => []SocialTypeOK
<1>1. SocialIInv => SocialTypeOK
  BY DEF SocialIInv
<1> QED
  BY <1>1, SocialInductive, PTL

(* consume: one state parameter, one login or link, but for two callbacks  *)
(* that both read it or a failure of Redis.                                *)
THEOREM OneFlowPerState == SocialSpec => []StateStartsOneFlow
<1>1. SocialIInv => StateStartsOneFlow
  BY DEF SocialIInv, StateInv, StateStartsOneFlow
<1> QED
  BY <1>1, SocialInductive, PTL

(* loginOrSignup: a session is for the user of the address or of a row the *)
(* identity had while the callback ran.                                    *)
THEOREM SessionsForTheOwner == SocialSpec => []SessionsFollowLinks
<1>1. SocialIInv => SessionsFollowLinks
  BY DEF SocialIInv, CallOK, SessionsFollowLinks
<1> QED
  BY <1>1, SocialInductive, PTL
=============================================================================
