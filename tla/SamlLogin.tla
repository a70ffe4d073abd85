------------------------------ MODULE SamlLogin ------------------------------
(***************************************************************************)
(* SsoLoginService and JitProvisioningService: a login by SAML assertion   *)
(* of one user at one organization, while administrators write the         *)
(* configuration and change the user and the membership.                   *)
(*                                                                         *)
(* The relay state of an SP-initiated login, and the assertions seen, are  *)
(* keys in Redis: each is looked up in one call and deleted or set in the  *)
(* next, and any call may fail, because CacheService swallows the error.   *)
(*                                                                         *)
(* The signature, the audience and the time limits of an assertion are     *)
(* checked by the SAML library, which is trusted.  The roles that groups   *)
(* grant are left out, and with them what Memberships says of roles.       *)
(***************************************************************************)
EXTENDS Naturals

CONSTANTS
    Assertion,      \* valid assertions about the user
    Unnamed,        \* those whose profile has no id
    Relay,          \* relay states
    SamlRequest,    \* requests to the ACS that can be in flight at once
    Nil

Config == [allowIdpInitiated : BOOLEAN]

ASSUME SamlAssumption ==
    /\ Unnamed \subseteq Assertion
    /\ Nil \notin Assertion /\ Nil \notin Relay
    /\ \A config \in Config : config # Nil

VARIABLES
    ssoConfig,      \* the first enabled row of sso_configurations, Nil without
    relays,         \* relay states in Redis
    seen,           \* assertion ids in Redis
    samlUser,       \* the row of the user
    member,         \* the row of the membership; removed means deletedAt is set
    acs,            \* acs[r], what request r has read and where it stands
    created,        \* ghost: relay states ever created
    opened,         \* ghost: assertions that opened a session
    answered,       \* ghost: relay states known to a request that opened one
    racedAssertions, \* ghost: assertions two requests missed, or Redis forgot
    racedRelays      \* ghost: relay states two requests found, or Redis kept

rows == <<ssoConfig, samlUser, member>>
redis == <<relays, seen>>
samlGhosts == <<created, opened, answered, racedAssertions, racedRelays>>
samlVars == <<rows, redis, acs, samlGhosts>>

AcsPC == {"idle", "relay", "drop", "replay", "remember", "provision", "open"}

Waiting == [pc |-> "idle", assertion |-> Nil, relay |-> Nil, idp |-> FALSE, known |-> FALSE]

AcsState ==
    [pc : AcsPC, assertion : Assertion \cup {Nil}, relay : Relay \cup {Nil},
     idp : BOOLEAN, known : BOOLEAN]

SamlInit ==
    /\ ssoConfig = Nil
    /\ relays = {} /\ seen = {}
    /\ samlUser = "absent" /\ member = "absent"
    /\ acs = [r \in SamlRequest |-> Waiting]
    /\ created = {} /\ opened = {} /\ answered = {}
    /\ racedAssertions = {} /\ racedRelays = {}

On(r, pc) == acs[r].pc = pc
Reply(r) == acs' = [acs EXCEPT ![r] = Waiting]
Advance(r, pc) == acs' = [acs EXCEPT ![r] = [@ EXCEPT !.pc = pc]]

-----------------------------------------------------------------------------
(* Mutants.  The replay guard remembers nothing; an unknown relay state is *)
(* as good as a known one.                                                 *)

Remembered_Nothing(a) == seen
Admitted_Unknown(r, known) == acs[r].idp \/ acs[r].relay # Nil

-----------------------------------------------------------------------------
(* beginSpInitiatedLogin; up: Redis took the key. *)
BeginSpInitiatedLogin(t) ==
    /\ ssoConfig # Nil
    /\ t \notin created
    /\ created' = created \cup {t}
    /\ \E up \in BOOLEAN : relays' = IF up THEN relays \cup {t} ELSE relays
    /\ UNCHANGED <<rows, seen, acs, opened, answered, racedAssertions, racedRelays>>

-----------------------------------------------------------------------------
(* handleAssertion. *)

(* getEnabledConfigForOrgSlug; what follows uses this copy.                *)
HandleAssertion(r, a, t) ==
    /\ On(r, "idle")
    /\ ssoConfig # Nil
    /\ acs' = [acs EXCEPT ![r] = [Waiting EXCEPT
          !.pc = "relay", !.assertion = a, !.relay = t, !.idp = ssoConfig.allowIdpInitiated]]
    /\ UNCHANGED <<rows, redis, samlGhosts>>

(* The configuration lets IdP-initiated logins in, or this is not one. *)
Admitted(r, known) == acs[r].idp \/ known

(* isKnownRelayState, which is false when Redis fails, and the refusal. *)
CheckRelay(r) ==
    /\ On(r, "relay")
    /\ \E known \in {FALSE, acs[r].relay \in relays} :
          /\ Admitted(r, known)
          /\ acs' = [acs EXCEPT ![r] = [@ EXCEPT
                !.pc = IF acs[r].relay = Nil THEN "replay" ELSE "drop", !.known = known]]
          /\ racedRelays' =
                IF known /\ \E q \in SamlRequest : /\ On(q, "drop") /\ acs[q].known
                                                   /\ acs[q].relay = acs[r].relay
                THEN racedRelays \cup {acs[r].relay} ELSE racedRelays
    /\ UNCHANGED <<rows, redis, created, opened, answered, racedAssertions>>

(* The delete, which may fail unnoticed, then validateResponse.            *)
DropRelay(r) ==
    /\ On(r, "drop")
    /\ \/ relays' = relays \ {acs[r].relay} /\ UNCHANGED racedRelays
       \/ UNCHANGED relays /\ racedRelays' = racedRelays \cup {acs[r].relay}
    /\ Advance(r, "replay")
    /\ UNCHANGED <<rows, seen, created, opened, answered, racedAssertions>>

(* guardReplay: the exists.  Redis may fail to say that it has the id.     *)
CheckReplay(r) ==
    /\ On(r, "replay")
    /\ LET a == acs[r].assertion
           other == \E q \in SamlRequest : On(q, "remember") /\ acs[q].assertion = a
       IN  racedAssertions' =
              IF a \in seen \/ other THEN racedAssertions \cup {a} ELSE racedAssertions
    /\ Advance(r, "remember")
    /\ UNCHANGED <<rows, redis, created, opened, answered, racedRelays>>

RefuseReplay(r) ==
    /\ On(r, "replay")
    /\ acs[r].assertion \in seen
    /\ Reply(r)
    /\ UNCHANGED <<rows, redis, samlGhosts>>

Remembered(a) == seen \cup ({a} \ Unnamed)

(* The set; an assertion without an id passes unremembered.                *)
Remember(r) ==
    /\ On(r, "remember")
    /\ LET a == acs[r].assertion
       IN  \/ /\ seen' = Remembered(a)
              /\ racedAssertions' = racedAssertions \cup ({a} \cap Unnamed)
           \/ /\ UNCHANGED seen
              /\ racedAssertions' = racedAssertions \cup {a}
    /\ Advance(r, "provision")
    /\ UNCHANGED <<rows, relays, created, opened, answered, racedRelays>>

(* JitProvisioningService.provision, in one transaction.  The status of    *)
(* the membership is set, its deletedAt is not cleared.                    *)
Provision(r) ==
    /\ On(r, "provision")
    /\ samlUser' = IF samlUser = "deleted" THEN samlUser ELSE "ACTIVE"
    /\ member' = IF member = "removed" THEN member ELSE "ACTIVE"
    /\ Advance(r, "open")
    /\ UNCHANGED <<ssoConfig, redis, samlGhosts>>

(* createSession and the access token.                                     *)
OpenSamlSession(r) ==
    /\ On(r, "open")
    /\ opened' = opened \cup {acs[r].assertion}
    /\ answered' = IF acs[r].known THEN answered \cup {acs[r].relay} ELSE answered
    /\ Reply(r)
    /\ UNCHANGED <<rows, redis, created, racedAssertions, racedRelays>>

-----------------------------------------------------------------------------
(* ttlSeconds.  A replay entry may pass before the assertion does. *)

RelayExpires(t) ==
    /\ t \in relays
    /\ relays' = relays \ {t}
    /\ UNCHANGED <<rows, seen, acs, samlGhosts>>

ReplayEntryExpires(a) ==
    /\ a \in seen
    /\ seen' = seen \ {a}
    /\ racedAssertions' = racedAssertions \cup {a}
    /\ UNCHANGED <<rows, relays, acs, created, opened, answered, racedRelays>>

(* SsoConfigurationService. *)
Configure(config) ==
    /\ ssoConfig' = config
    /\ UNCHANGED <<samlUser, member, redis, acs, samlGhosts>>

(* Lockouts, suspensions, deletions and removals.  *)
Deactivate(user, membership) ==
    /\ samlUser # "absent" /\ member # "absent"
    /\ samlUser' = user /\ member' = membership
    /\ UNCHANGED <<ssoConfig, redis, acs, samlGhosts>>

(* The assertion has no address, a check fails, the request dies. *)
AbandonAcs(r) ==
    /\ ~On(r, "idle")
    /\ Reply(r)
    /\ UNCHANGED <<rows, redis, samlGhosts>>

AcsStep(r) ==
    \/ CheckRelay(r) \/ DropRelay(r)
    \/ CheckReplay(r) \/ RefuseReplay(r) \/ Remember(r)
    \/ Provision(r) \/ OpenSamlSession(r)

SamlNext ==
    \/ \E t \in Relay : BeginSpInitiatedLogin(t) \/ RelayExpires(t)
    \/ \E a \in Assertion : ReplayEntryExpires(a)
    \/ \E r \in SamlRequest :
          \/ \E a \in Assertion, t \in Relay \cup {Nil} : HandleAssertion(r, a, t)
          \/ AcsStep(r) \/ AbandonAcs(r)
    \/ \E config \in Config \cup {Nil} : Configure(config)
    \/ Deactivate("INACTIVE", "SUSPENDED") \/ Deactivate("deleted", "removed")

SamlSpec == SamlInit /\ [][SamlNext]_samlVars

-----------------------------------------------------------------------------
(* What must hold. *)

SamlTypeOK ==
    /\ ssoConfig \in {Nil} \cup Config
    /\ relays \subseteq Relay /\ seen \subseteq Assertion
    /\ samlUser \in {"absent", "ACTIVE", "INACTIVE", "deleted"}
    /\ member \in {"absent", "ACTIVE", "SUSPENDED", "removed"}
    /\ acs \in [SamlRequest -> AcsState]
    /\ created \subseteq Relay /\ answered \subseteq Relay /\ racedRelays \subseteq Relay
    /\ opened \subseteq Assertion /\ racedAssertions \subseteq Assertion

(* One assertion opens one session, unless two requests looked it up       *)
(* before either had stored it, it has no id, or Redis lost or withheld    *)
(* what it was told.                                                       *)
AssertionOpensOneSession ==
    \A r \in SamlRequest : On(r, "open") /\ acs[r].assertion \in opened =>
        acs[r].assertion \in racedAssertions

(* Without IdP-initiated logins every session answers a login that began   *)
(* here, and no two of them the same one, but for a race or a failure.     *)
EverySessionWasAskedFor ==
    \A r \in SamlRequest : On(r, "open") /\ ~acs[r].idp =>
        /\ acs[r].known /\ acs[r].relay \in created
        /\ acs[r].relay \in answered => acs[r].relay \in racedRelays

-----------------------------------------------------------------------------
(* Why: the inductive invariants. *)

Missed(r) == On(r, "remember")
Past(r) == acs[r].pc \in {"provision", "open"}

(* Who is past the replay guard has left the id in Redis, and who is in it *)
(* has not seen it there, but for a race; no two are at the same point.    *)
AssertionOK(r) ==
    /\ Past(r) => acs[r].assertion \in seen \cup racedAssertions
    /\ Missed(r) /\ acs[r].assertion \in seen \cup opened => acs[r].assertion \in racedAssertions
    /\ Past(r) /\ acs[r].assertion \in opened => acs[r].assertion \in racedAssertions

AssertionPairOK(r, q) ==
    /\ r # q /\ acs[r].assertion = acs[q].assertion
    /\ (Missed(r) /\ Missed(q)) \/ (Past(r) /\ Past(q))
    => acs[r].assertion \in racedAssertions

AssertionInv ==
    /\ opened \subseteq seen \cup racedAssertions
    /\ \A r \in SamlRequest : AssertionOK(r)
    /\ \A r, q \in SamlRequest : AssertionPairOK(r, q)

Checked(r) == acs[r].pc \in {"drop", "replay", "remember", "provision", "open"}
Knows(r) == acs[r].known /\ Checked(r)

(* A relay state that has been answered is gone from Redis, and so is one  *)
(* whose request has dropped it, but for a race or a failure.              *)
RelayOK(r) ==
    /\ Checked(r) => acs[r].idp \/ acs[r].known
    /\ On(r, "drop") => acs[r].relay # Nil
    /\ Knows(r) =>
          /\ acs[r].relay \in created
          /\ acs[r].relay \in answered => acs[r].relay \in racedRelays
          /\ ~On(r, "drop") /\ acs[r].relay \in relays => acs[r].relay \in racedRelays

RelayPairOK(r, q) ==
    r # q /\ Knows(r) /\ Knows(q) /\ acs[r].relay = acs[q].relay => acs[r].relay \in racedRelays

RelayInv ==
    /\ relays \subseteq created /\ answered \subseteq created
    /\ answered \cap relays \subseteq racedRelays
    /\ \A r \in SamlRequest : RelayOK(r)
    /\ \A r, q \in SamlRequest : RelayPairOK(r, q)

SamlIInv ==
    /\ SamlTypeOK
    /\ \A r \in SamlRequest : ~On(r, "idle") => acs[r].assertion \in Assertion
    /\ AssertionInv
    /\ RelayInv
=============================================================================
