--------------------------- MODULE MfaLoginProofs ---------------------------
(***************************************************************************)
(* Theorems about MfaLogin, for any number of users, challenges, factors   *)
(* and concurrent requests and any limit on the attempts.                  *)
(***************************************************************************)
EXTENDS MfaLogin, FiniteSetTheorems, TLAPS

(* The number of requests at once, as the arithmetic below needs it. *)
LEMMA Limits ==
    /\ IsFiniteSet(Request)
    /\ Cardinality(Request) \in Nat
    /\ MaxAttempts \in Nat
BY MfaAssumption, FS_CardinalityType

(* Sets of requests only shrink in cardinality when they shrink. *)
LEMMA Shrinks ==
    ASSUME NEW X \in SUBSET Request, NEW Y \in SUBSET X
    PROVE  /\ Cardinality(Y) \in Nat /\ Cardinality(X) \in Nat
           /\ Cardinality(Y) <= Cardinality(X)
           /\ Cardinality(X) <= Cardinality(Request)
<1>1. IsFiniteSet(X) /\ Cardinality(X) <= Cardinality(Request)
  BY Limits, FS_Subset
<1>2. IsFiniteSet(Y) /\ Cardinality(Y) <= Cardinality(X)
  BY <1>1, FS_Subset
<1>. QED
  BY <1>1, <1>2, FS_CardinalityType

(* A set that loses a request has one less. *)
LEMMA LosesOne ==
    ASSUME NEW X \in SUBSET Request, NEW r \in X
    PROVE  Cardinality(X \ {r}) = Cardinality(X) - 1
BY Limits, FS_Subset, FS_RemoveElement

(* The empty tables are in order. *)
LEMMA InitInv == Init => IInv
<1>. SUFFICES ASSUME Init PROVE IInv
  OBVIOUS
<1>1. TypeOK
  BY DEF Init, TypeOK, Idle, RequestState, PC
<1>2. FactorInv
  BY DEF Init, FactorInv
<1>3. ASSUME NEW r \in Request PROVE RequestOK(r)
  BY DEF Init, RequestOK, At, Idle, Verifying
<1>4. CountInv
  <2>1. ASSUME NEW c \in Challenge
        PROVE  AtChallenge(c) = {} /\ Uncounted(c) = {}
    BY MfaAssumption DEF Init, AtChallenge, Uncounted, Idle
  <2>2. ASSUME NEW b \in BackupCode PROVE Holding(b) = {}
    BY MfaAssumption DEF Init, Holding, Idle, Factor
  <2>3. Cardinality({}) = 0
    BY FS_EmptySet
  <2>4. MaxAttempts > 0
    BY MfaAssumption
  <2>5. ASSUME NEW c \in Challenge
        PROVE  /\ attempts[c] + Cardinality(Uncounted(c))
                      < MaxAttempts + Cardinality(Request)
               /\ challengeLogins[c] + Cardinality(AtChallenge(c))
                      <= Cardinality(Request)
               /\ ~(challengeLogins[c] > 0)
    <3>1. attempts[c] = 0 /\ challengeLogins[c] = 0
      BY DEF Init
    <3>. QED
      BY <2>1, <2>3, <2>4, <3>1, Limits
  <2>6. ASSUME NEW b \in BackupCode
        PROVE  /\ codeLogins[b] + Cardinality(Holding(b)) <= Cardinality(Request)
               /\ ~(codeLogins[b] > 0)
    <3>1. codeLogins[b] = 0
      BY DEF Init
    <3>. QED
      BY <2>2, <2>3, <3>1, Limits
  <2>. QED
    BY <2>5, <2>6 DEF CountInv
<1>. QED
  BY <1>1, <1>2, <1>3, <1>4 DEF IInv

-----------------------------------------------------------------------------
(* What every step does to the tables: a challenge keeps its user, a       *)
(* factor the user it was generated for; what is over stays over.          *)
Grows ==
    /\ \A c \in Challenge : challenged[c] # None => challenged'[c] = challenged[c]
    /\ \A f \in Factor : issuedTo[f] # None => issuedTo'[f] = issuedTo[f]
    /\ closed \subseteq closed'
    /\ used \subseteq used'

(* A request that does not move stays OK while the tables grow. *)
LEMMA StillOK ==
    ASSUME IInv, Grows, NEW q \in Request, req'[q] = req[q]
    PROVE  RequestOK(q)'
<1>. USE DEF At
<1>1. RequestOK(q)
  BY DEF IInv
<1>2. req[q].pc \in Verifying => challenged'[req[q].challenge] = req[q].user
  BY <1>1, MfaAssumption DEF RequestOK, Grows, Verifying
<1>3. req[q].pc \in {"use", "accept", "open"} =>
          issuedTo'[req[q].factor] = req[q].user
  BY <1>1, MfaAssumption DEF RequestOK, Grows
<1>. QED
  BY <1>1, <1>2, <1>3 DEF RequestOK, Grows

(* A request that has left is OK. *)
LEMMA IdleOK ==
    ASSUME NEW r \in Request, req'[r] = Idle
    PROVE  RequestOK(r)' /\ Idle \in RequestState
BY DEF RequestOK, At, Idle, Verifying, RequestState, PC

(* The counts hold while fewer requests are counted and nothing is added.  *)
LEMMA CountsShrink ==
    ASSUME IInv, closed \subseteq closed', used \subseteq used',
           UNCHANGED <<attempts, loginVars>>,
           \A c \in Challenge : /\ AtChallenge(c)' \subseteq AtChallenge(c)
                                /\ Uncounted(c)' \subseteq Uncounted(c),
           \A b \in BackupCode : Holding(b)' \subseteq Holding(b)
    PROVE  CountInv'
<1>1. ASSUME NEW c \in Challenge
      PROVE  /\ (attempts[c] + Cardinality(Uncounted(c))
                    < MaxAttempts + Cardinality(Request))'
             /\ (challengeLogins[c] + Cardinality(AtChallenge(c))
                    <= Cardinality(Request))'
             /\ (challengeLogins[c] > 0 => c \in closed)'
  <2>1. /\ Cardinality(Uncounted(c)') <= Cardinality(Uncounted(c))
        /\ Cardinality(Uncounted(c)') \in Nat /\ Cardinality(Uncounted(c)) \in Nat
    BY Shrinks DEF Uncounted, AtChallenge
  <2>2. /\ Cardinality(AtChallenge(c)') <= Cardinality(AtChallenge(c))
        /\ Cardinality(AtChallenge(c)') \in Nat /\ Cardinality(AtChallenge(c)) \in Nat
    BY Shrinks DEF AtChallenge
  <2>3. /\ attempts'[c] = attempts[c] /\ attempts[c] \in Nat
        /\ challengeLogins'[c] = challengeLogins[c] /\ challengeLogins[c] \in Nat
    BY DEF IInv, TypeOK, loginVars
  <2>. QED
    BY <2>1, <2>2, <2>3, Limits DEF IInv, CountInv
<1>2. ASSUME NEW b \in BackupCode
      PROVE  /\ (codeLogins[b] + Cardinality(Holding(b)) <= Cardinality(Request))'
             /\ (codeLogins[b] > 0 => b \in used)'
  <2>1. /\ Cardinality(Holding(b)') <= Cardinality(Holding(b))
        /\ Cardinality(Holding(b)') \in Nat /\ Cardinality(Holding(b)) \in Nat
    BY Shrinks DEF Holding
  <2>2. codeLogins'[b] = codeLogins[b] /\ codeLogins[b] \in Nat
    BY DEF IInv, TypeOK, loginVars
  <2>. QED
    BY <2>1, <2>2, Limits DEF IInv, CountInv
<1>. QED
  BY <1>1, <1>2 DEF CountInv

(* When one request moves and keeps or drops its challenge and its factor, *)
(* fewer requests are counted.                                             *)
LEMMA MoveShrinks ==
    ASSUME IInv, NEW r \in Request, NEW v \in RequestState,
           req' = [req EXCEPT ![r] = v],
           v.challenge \in {None, req[r].challenge},
           v.factor \in BackupCode => v.factor = req[r].factor,
           At(r, "open") => v.challenge = None
    PROVE  /\ \A c \in Challenge : /\ AtChallenge(c)' \subseteq AtChallenge(c)
                                   /\ Uncounted(c)' \subseteq Uncounted(c)
           /\ \A b \in BackupCode : Holding(b)' \subseteq Holding(b)
<1>1. /\ req'[r] = v
      /\ \A q \in Request \ {r} : req'[q] = req[q]
  BY DEF IInv, TypeOK
<1>. QED
  BY <1>1, MfaAssumption DEF AtChallenge, Uncounted, Holding, At

(* A step that touches no table but moves a request: it keeps or drops its *)
(* challenge and factor, enters an open challenge, or presents a code that *)
(* has not been used.                                                      *)
LEMMA RequestStep ==
    ASSUME IInv, NEW r \in Request, NEW v \in RequestState,
           UNCHANGED <<factorVars, used, challengeVars, loginVars>>,
           req' = [req EXCEPT ![r] = v], RequestOK(r)',
           \/ v.challenge \in {None, req[r].challenge}
           \/ v.challenge \in Challenge /\ ChallengeOpen(v.challenge),
           \/ v.factor \in BackupCode => v.factor = req[r].factor
           \/ v.factor \notin used,
           At(r, "open") => v.challenge = None
    PROVE  IInv'
<1>. USE DEF factorVars, challengeVars, loginVars
<1>1. /\ req'[r] = v
      /\ \A q \in Request \ {r} : req'[q] = req[q]
  BY DEF IInv, TypeOK
<1>2. TypeOK' /\ FactorInv'
  BY DEF IInv, TypeOK, FactorInv
<1>3. ASSUME NEW q \in Request PROVE RequestOK(q)'
  <2>1. Grows
    BY DEF Grows
  <2>. QED
    BY <1>1, <2>1, StillOK
<1>4. ASSUME NEW c \in Challenge
      PROVE  /\ (attempts[c] + Cardinality(Uncounted(c))
                    < MaxAttempts + Cardinality(Request))'
             /\ (challengeLogins[c] + Cardinality(AtChallenge(c))
                    <= Cardinality(Request))'
             /\ (challengeLogins[c] > 0 => c \in closed)'
  <2>. USE DEF At
  <2>1. attempts[c] \in Nat /\ challengeLogins[c] \in Nat
    BY DEF IInv, TypeOK
  <2>2. CASE ChallengeOpen(c)
    <3>1. challengeLogins[c] = 0 /\ attempts[c] < MaxAttempts
      BY <2>1, <2>2 DEF ChallengeOpen, IInv, CountInv
    <3>2. /\ Cardinality(Uncounted(c)') \in Nat
          /\ Cardinality(Uncounted(c)') <= Cardinality(Request)
          /\ Cardinality(AtChallenge(c)') \in Nat
          /\ Cardinality(AtChallenge(c)') <= Cardinality(Request)
      BY Shrinks DEF Uncounted, AtChallenge
    <3>. QED
      BY <2>1, <3>1, <3>2, Limits
  <2>3. CASE ~ChallengeOpen(c)
    <3>1. AtChallenge(c)' \subseteq AtChallenge(c)
      BY <1>1, <2>3, MfaAssumption DEF AtChallenge
    <3>2. Uncounted(c)' \subseteq Uncounted(c)
      BY <1>1, <3>1, <2>3, MfaAssumption DEF AtChallenge, Uncounted
    <3>3. /\ Cardinality(Uncounted(c)') <= Cardinality(Uncounted(c))
          /\ Cardinality(Uncounted(c)') \in Nat /\ Cardinality(Uncounted(c)) \in Nat
      BY <3>2, Shrinks DEF Uncounted, AtChallenge
    <3>4. /\ Cardinality(AtChallenge(c)') <= Cardinality(AtChallenge(c))
          /\ Cardinality(AtChallenge(c)') \in Nat
          /\ Cardinality(AtChallenge(c)) \in Nat
      BY <3>1, Shrinks DEF AtChallenge
    <3>. QED
      BY <2>1, <3>3, <3>4, Limits DEF IInv, CountInv
  <2>. QED
    BY <2>2, <2>3
<1>5. ASSUME NEW b \in BackupCode
      PROVE  /\ (codeLogins[b] + Cardinality(Holding(b)) <= Cardinality(Request))'
             /\ (codeLogins[b] > 0 => b \in used)'
  <2>1. codeLogins[b] \in Nat
    BY DEF IInv, TypeOK
  <2>2. CASE b \in used
    <3>1. Holding(b)' \subseteq Holding(b)
      BY <1>1, <2>2 DEF Holding
    <3>2. /\ Cardinality(Holding(b)') <= Cardinality(Holding(b))
          /\ Cardinality(Holding(b)') \in Nat /\ Cardinality(Holding(b)) \in Nat
      BY <3>1, Shrinks DEF Holding
    <3>. QED
      BY <2>1, <3>2, Limits DEF IInv, CountInv
  <2>3. CASE b \notin used
    <3>1. codeLogins[b] = 0
      BY <2>1, <2>3 DEF IInv, CountInv
    <3>2. /\ Cardinality(Holding(b)') \in Nat
          /\ Cardinality(Holding(b)') <= Cardinality(Request)
      BY Shrinks DEF Holding
    <3>. QED
      BY <3>1, <3>2, Limits
  <2>. QED
    BY <2>2, <2>3
<1>. QED
  BY <1>2, <1>3, <1>4, <1>5 DEF IInv, CountInv

-----------------------------------------------------------------------------
(* A request that arrives for a user holds no challenge and no factor. *)
LEMMA ArrivalInv ==
    ASSUME IInv, NEW r \in Request, NEW u \in User,
           NEW pc \in {"issue", "saveSecret", "enrol", "renew", "remove"},
           Arrive(r, pc, u),
           UNCHANGED <<factorVars, used, challengeVars, loginVars>>
    PROVE  IInv'
<1>. DEFINE v == [Idle EXCEPT !.pc = pc, !.user = u]
<1>1. /\ v \in RequestState /\ v.pc = pc /\ v.user = u
      /\ v.challenge = None /\ v.factor = None
  BY DEF Idle, RequestState, PC
<1>2. req' = [req EXCEPT ![r] = v] /\ At(r, "idle")
  BY DEF Arrive
<1>3. req'[r] = v
  BY <1>2 DEF IInv, TypeOK
<1>. HIDE DEF v
<1>4. RequestOK(r)'
  BY <1>1, <1>3 DEF RequestOK, At, Verifying
<1>5. v.factor \notin BackupCode
  BY <1>1, MfaAssumption DEF Factor
<1>. QED
  BY <1>1, <1>2, <1>4, <1>5, RequestStep DEF At

(* A verification takes the user of an open challenge. *)
LEMMA ReadChallengeInv ==
    ASSUME IInv, NEW r \in Request, NEW c \in Challenge, ReadChallenge(r, c)
    PROVE  IInv'
<1>. DEFINE v == [Idle EXCEPT !.pc = "verify", !.user = challenged[c],
                              !.challenge = c]
<1>1. challenged[c] \in User
  BY DEF ReadChallenge, ChallengeOpen, IInv, TypeOK
<1>2. /\ v \in RequestState /\ v.pc = "verify" /\ v.user = challenged[c]
      /\ v.challenge = c /\ v.factor = None
  BY <1>1 DEF Idle, RequestState, PC
<1>3. req' = [req EXCEPT ![r] = v] /\ At(r, "idle") /\ ChallengeOpen(c)
      /\ UNCHANGED <<factorVars, used, challengeVars, loginVars>>
  BY DEF ReadChallenge
<1>4. req'[r] = v
  BY <1>3 DEF IInv, TypeOK
<1>. HIDE DEF v
<1>5. RequestOK(r)'
  BY <1>1, <1>2, <1>3, <1>4 DEF RequestOK, At, Verifying, challengeVars
<1>6. v.factor \notin BackupCode
  BY <1>2, MfaAssumption DEF Factor
<1>. QED
  BY <1>2, <1>3, <1>5, <1>6, RequestStep DEF At

(* A code that was right was computed from, or is, a factor of the user;   *)
(* a wrong one is forgotten.                                               *)
LEMMA PresentInv ==
    ASSUME IInv, NEW r \in Request, At(r, "verify"),
           NEW f \in Factor, f \notin used, issuedTo[f] = req[r].user,
           Present(r, f),
           UNCHANGED <<factorVars, used, challengeVars, loginVars>>
    PROVE  IInv'
<1>. DEFINE v == [req[r] EXCEPT !.pc = "use", !.factor = f]
<1>1. req[r] \in RequestState /\ RequestOK(r)
  BY DEF IInv, TypeOK
<1>2. /\ v \in RequestState /\ v.pc = "use" /\ v.user = req[r].user
      /\ v.challenge = req[r].challenge /\ v.factor = f
  BY <1>1 DEF RequestState, PC
<1>3. req' = [req EXCEPT ![r] = v]
  BY DEF Present
<1>4. req'[r] = v
  BY <1>3 DEF IInv, TypeOK
<1>. HIDE DEF v
<1>5. RequestOK(r)'
  BY <1>1, <1>2, <1>4, MfaAssumption
     DEF RequestOK, At, Verifying, challengeVars, factorVars
<1>. QED
  BY <1>2, <1>3, <1>5, RequestStep DEF At

(* A request on its way to recording a failure. *)
LEMMA RejectInv ==
    ASSUME IInv, NEW r \in Request, At(r, "verify"), Goto(r, "reject"),
           UNCHANGED <<factorVars, used, challengeVars, loginVars>>
    PROVE  IInv'
<1>. DEFINE v == [req[r] EXCEPT !.pc = "reject"]
<1>1. req[r] \in RequestState /\ RequestOK(r)
  BY DEF IInv, TypeOK
<1>2. /\ v \in RequestState /\ v.pc = "reject" /\ v.user = req[r].user
      /\ v.challenge = req[r].challenge /\ v.factor = req[r].factor
  BY <1>1 DEF RequestState, PC
<1>3. req' = [req EXCEPT ![r] = v]
  BY DEF Goto
<1>4. req'[r] = v
  BY <1>3 DEF IInv, TypeOK
<1>. HIDE DEF v
<1>5. RequestOK(r)'
  BY <1>1, <1>2, <1>4 DEF RequestOK, At, Verifying, challengeVars
<1>. QED
  BY <1>2, <1>3, <1>5, RequestStep DEF At

(* Both ways to check a code. *)
LEMMA CheckInv ==
    ASSUME IInv, NEW r \in Request,
           \/ \E x \in Secret : CheckTotp(r, x)
           \/ \E b \in BackupCode : CheckBackupCode(r, b)
    PROVE  IInv'
<1>1. ASSUME NEW x \in Secret, CheckTotp(r, x) PROVE IInv'
  <2>1. RequestOK(r) /\ At(r, "verify")
        /\ UNCHANGED <<factorVars, used, challengeVars, loginVars>>
    BY <1>1 DEF CheckTotp, IInv
  <2>2. CASE Goto(r, "reject")
    BY <2>1, <2>2, RejectInv
  <2>3. CASE secret[req[r].user] = x /\ Present(r, x)
    <3>1. issuedTo[x] = req[r].user /\ x \notin used
      BY <2>1, <2>3, MfaAssumption
         DEF RequestOK, At, IInv, TypeOK, FactorInv, Factor
    <3>. QED
      BY <2>1, <2>3, <3>1, PresentInv DEF Factor
  <2>. QED
    BY <1>1, <2>2, <2>3 DEF CheckTotp
<1>2. ASSUME NEW b \in BackupCode, CheckBackupCode(r, b) PROVE IInv'
  <2>1. RequestOK(r) /\ At(r, "verify")
        /\ UNCHANGED <<factorVars, used, challengeVars, loginVars>>
    BY <1>2 DEF CheckBackupCode, IInv
  <2>2. CASE Goto(r, "reject")
    BY <2>1, <2>2, RejectInv
  <2>3. CASE AcceptsCode(req[r].user, b) /\ Present(r, b)
    <3>1. issuedTo[b] = req[r].user /\ b \notin used
      BY <2>1, <2>3, MfaAssumption
         DEF AcceptsCode, RequestOK, At, IInv, FactorInv
    <3>. QED
      BY <2>1, <2>3, <3>1, PresentInv DEF Factor
  <2>. QED
    BY <1>2, <2>2, <2>3 DEF CheckBackupCode
<1>. QED
  BY <1>1, <1>2

(* Leaving without a write. *)
LEMMA LeaveInv ==
    ASSUME IInv, NEW r \in Request, Leave(r),
           UNCHANGED <<factorVars, used, challengeVars, loginVars>>
    PROVE  IInv'
<1>1. req' = [req EXCEPT ![r] = Idle] /\ req'[r] = Idle
  BY DEF Leave, IInv, TypeOK
<1>2. Idle.challenge = None /\ Idle.factor = None
  BY DEF Idle
<1>3. Idle.factor \notin BackupCode
  BY <1>2, MfaAssumption DEF Factor
<1>. QED
  BY <1>1, <1>2, <1>3, IdleOK, RequestStep

-----------------------------------------------------------------------------
(* A step that writes tables other than the counters, while its request    *)
(* keeps or drops its challenge and factor.                                *)
LEMMA WriteStep ==
    ASSUME IInv, NEW r \in Request, NEW v \in RequestState,
           req' = [req EXCEPT ![r] = v],
           v.challenge \in {None, req[r].challenge},
           v.factor \in {None, req[r].factor},
           At(r, "open") => v.challenge = None,
           Grows, TypeOK', FactorInv', RequestOK(r)',
           UNCHANGED <<attempts, loginVars>>
    PROVE  IInv'
<1>1. v.factor \in BackupCode => v.factor = req[r].factor
  BY MfaAssumption DEF Factor
<1>2. CountInv'
  BY <1>1, MoveShrinks, CountsShrink DEF Grows
<1>3. ASSUME NEW q \in Request PROVE RequestOK(q)'
  <2>1. CASE q = r
    BY <2>1
  <2>2. CASE q # r
    <3>1. req'[q] = req[q]
      BY <2>2 DEF IInv, TypeOK
    <3>. QED
      BY <3>1, StillOK
  <2>. QED
    BY <2>1, <2>2
<1>. QED
  BY <1>2, <1>3 DEF IInv

(* The same when the request leaves. *)
LEMMA WriteAndLeave ==
    ASSUME IInv, NEW r \in Request, Leave(r),
           Grows, TypeOK', FactorInv', UNCHANGED <<attempts, loginVars>>
    PROVE  IInv'
<1>1. req' = [req EXCEPT ![r] = Idle] /\ req'[r] = Idle
  BY DEF Leave, IInv, TypeOK
<1>2. Idle.challenge = None /\ Idle.factor = None
  BY DEF Idle
<1>. QED
  BY <1>1, <1>2, IdleOK, WriteStep

(* req keeps its type when a request leaves. *)
LEMMA LeaveType ==
    ASSUME IInv, NEW r \in Request, Leave(r)
    PROVE  req' \in [Request -> RequestState]
BY DEF Leave, IInv, TypeOK, Idle, RequestState, PC

(* A new challenge is of the user who gave the password. *)
LEMMA IssueChallengeInv ==
    ASSUME IInv, NEW r \in Request, NEW c \in Challenge, IssueChallenge(r, c)
    PROVE  IInv'
<1>1. req[r].user \in User
  BY DEF IssueChallenge, IInv, RequestOK, At
<1>2. challenged' \in [Challenge -> User \cup {None}]
  BY <1>1 DEF IssueChallenge, IInv, TypeOK
<1>3. TypeOK'
  BY <1>2, LeaveType DEF IssueChallenge, IInv, TypeOK, factorVars, loginVars
<1>4. FactorInv'
  BY DEF IssueChallenge, IInv, FactorInv, factorVars
<1>5. Grows
  BY DEF IssueChallenge, IInv, TypeOK, Grows, factorVars
<1>. QED
  BY <1>3, <1>4, <1>5, WriteAndLeave DEF IssueChallenge

(* A factor is marked used only if its row exists; the request goes on. *)
LEMMA UseFactorInv ==
    ASSUME IInv, NEW r \in Request, UseFactor(r)
    PROVE  IInv'
<1>. DEFINE v == [req[r] EXCEPT !.pc = "accept"]
<1>1. /\ req[r] \in RequestState /\ RequestOK(r) /\ At(r, "use")
      /\ UNCHANGED <<factorVars, challengeVars, loginVars>>
  BY DEF UseFactor, IInv, TypeOK
<1>2. /\ v \in RequestState /\ v.pc = "accept" /\ v.user = req[r].user
      /\ v.challenge = req[r].challenge /\ v.factor = req[r].factor
  BY <1>1 DEF RequestState, PC
<1>3. CASE Leave(r) /\ UNCHANGED used
  BY <1>1, <1>3, LeaveInv
<1>4. CASE Goto(r, "accept") /\ used' = used \cup ({req[r].factor} \cap BackupCode)
  <2>1. req' = [req EXCEPT ![r] = v]
    BY <1>4 DEF Goto
  <2>2. req'[r] = v
    BY <2>1 DEF IInv, TypeOK
  <2>. HIDE DEF v
  <2>4. TypeOK'
    BY <1>1, <1>2, <1>4, <2>1
       DEF IInv, TypeOK, factorVars, challengeVars, loginVars
  <2>5. FactorInv'
    BY <1>1 DEF IInv, FactorInv, factorVars
  <2>6. Grows
    BY <1>1, <1>4 DEF Grows, factorVars, challengeVars
  <2>7. RequestOK(r)'
    BY <1>1, <1>2, <1>4, <2>2
       DEF RequestOK, At, Verifying, challengeVars, factorVars
  <2>. QED
    BY <1>1, <1>2, <2>1, <2>4, <2>5, <2>6, <2>7, WriteStep
       DEF At, challengeVars, loginVars
<1>. QED
  BY <1>3, <1>4 DEF UseFactor

(* A generated secret is its user's; the old one is dropped. *)
LEMMA SaveSecretInv ==
    ASSUME IInv, NEW r \in Request, NEW x \in Secret, SaveSecret(r, x)
    PROVE  IInv'
<1>. DEFINE u == req[r].user
<1>1. u \in User /\ x \in Factor /\ issuedTo[x] = None
  BY DEF SaveSecret, IInv, RequestOK, At, Factor
<1>2. /\ secret' = [secret EXCEPT ![u] = x]
      /\ issuedTo' = [issuedTo EXCEPT ![x] = u]
      /\ enabled' = enabled \ {u}
      /\ Leave(r) /\ UNCHANGED <<codeOwner, used, challengeVars, loginVars>>
  BY DEF SaveSecret
<1>. HIDE DEF u
<1>3. /\ secret' \in [User -> Secret \cup {None}]
      /\ issuedTo' \in [Factor -> User \cup {None}]
  BY <1>1, <1>2 DEF IInv, TypeOK
<1>4. TypeOK'
  BY <1>2, <1>3, LeaveType DEF IInv, TypeOK, challengeVars, loginVars
<1>5. FactorInv'
  <2>1. ASSUME NEW w \in User, secret'[w] # None PROVE issuedTo'[secret'[w]] = w
    <3>1. CASE w = u
      BY <1>1, <1>2, <3>1 DEF IInv, TypeOK
    <3>2. CASE w # u
      <4>1. secret'[w] = secret[w] /\ issuedTo[secret[w]] = w
        BY <2>1, <1>2, <3>2 DEF IInv, TypeOK, FactorInv
      <4>2. secret[w] \in Factor /\ secret[w] # x
        BY <4>1, <2>1, <1>1, MfaAssumption DEF IInv, TypeOK, Factor
      <4>. QED
        BY <4>1, <4>2, <1>2 DEF IInv, TypeOK
    <3>. QED
      BY <3>1, <3>2
  <2>2. ASSUME NEW b \in BackupCode, codeOwner'[b] # None
        PROVE  issuedTo'[b] = codeOwner'[b]
    <3>1. codeOwner'[b] = codeOwner[b] /\ issuedTo[b] = codeOwner[b] /\ b \in Factor
      BY <1>2, <2>2 DEF IInv, FactorInv, Factor
    <3>2. b # x
      BY MfaAssumption
    <3>. QED
      BY <3>1, <3>2, <1>2 DEF IInv, TypeOK
  <2>. QED
    BY <2>1, <2>2 DEF FactorInv
<1>6. Grows
  BY <1>1, <1>2 DEF IInv, TypeOK, Grows, challengeVars
<1>. QED
  BY <1>2, <1>4, <1>5, <1>6, WriteAndLeave DEF challengeVars

(* A request that has seen the codes it is going to delete. *)
LEMMA FindBackupCodesInv ==
    ASSUME IInv, NEW r \in Request,
           NEW from \in {"enrol", "renew", "remove"},
           NEW to \in {"enrolCodes", "renewCodes", "removeAll"},
           FindBackupCodes(r, from, to)
    PROVE  IInv'
<1>. DEFINE v == [req[r] EXCEPT !.pc = to,
                !.found = {b \in BackupCode : codeOwner[b] = req[r].user}]
<1>1. req[r] \in RequestState /\ RequestOK(r)
  BY DEF IInv, TypeOK
<1>2. /\ v \in RequestState /\ v.pc = to /\ v.user = req[r].user
      /\ v.challenge = req[r].challenge /\ v.factor = req[r].factor
  BY <1>1 DEF RequestState, PC
<1>3. /\ req' = [req EXCEPT ![r] = v] /\ At(r, from)
      /\ UNCHANGED <<factorVars, used, challengeVars, loginVars>>
  BY DEF FindBackupCodes
<1>. HIDE DEF v
<1>4. req'[r] = v
  BY <1>3 DEF IInv, TypeOK
<1>5. RequestOK(r)'
  BY <1>1, <1>2, <1>3, <1>4 DEF RequestOK, At, Verifying
<1>. QED
  BY <1>2, <1>3, <1>5, RequestStep DEF At

(* A generated backup code is its user's; old ones are deleted. *)
LEMMA ReplaceBackupCodesInv ==
    ASSUME IInv, NEW r \in Request, NEW b \in BackupCode, ReplaceBackupCodes(r, b)
    PROVE  IInv'
<1>. DEFINE u == req[r].user
            v == [req[r] EXCEPT !.pc = "enable", !.found = {}]
<1>1. /\ u \in User /\ b \in Factor /\ issuedTo[b] = None
      /\ req[r] \in RequestState /\ RequestOK(r)
  BY DEF ReplaceBackupCodes, IInv, TypeOK, RequestOK, At, Factor
<1>2. /\ codeOwner' = [CodesWithout(req[r].found) EXCEPT ![b] = u]
      /\ issuedTo' = [issuedTo EXCEPT ![b] = u]
      /\ UNCHANGED <<secret, enabled, used, challengeVars, loginVars>>
  BY DEF ReplaceBackupCodes
<1>3. /\ v \in RequestState /\ v.pc = "enable" /\ v.user = u
      /\ v.challenge = req[r].challenge /\ v.factor = req[r].factor
  BY <1>1 DEF RequestState, PC
<1>. HIDE DEF u, v
<1>4. /\ codeOwner' \in [BackupCode -> User \cup {None}]
      /\ issuedTo' \in [Factor -> User \cup {None}]
  BY <1>1, <1>2 DEF IInv, TypeOK, CodesWithout
<1>5. FactorInv'
  <2>1. ASSUME NEW w \in User, secret'[w] # None PROVE issuedTo'[secret'[w]] = w
    <3>1. secret'[w] = secret[w] /\ issuedTo[secret[w]] = w
      BY <1>2, <2>1 DEF IInv, FactorInv
    <3>2. secret[w] \in Factor /\ secret[w] # b
      BY <3>1, <2>1, MfaAssumption DEF IInv, TypeOK, Factor
    <3>. QED
      BY <3>1, <3>2, <1>2 DEF IInv, TypeOK
  <2>2. ASSUME NEW d \in BackupCode, codeOwner'[d] # None
        PROVE  issuedTo'[d] = codeOwner'[d]
    <3>1. CASE d = b
      BY <3>1, <1>1, <1>2 DEF IInv, TypeOK, CodesWithout
    <3>2. CASE d # b
      <4>1. codeOwner'[d] = codeOwner[d] /\ issuedTo[d] = codeOwner[d]
        BY <3>2, <2>2, <1>2 DEF IInv, FactorInv, CodesWithout
      <4>. QED
        BY <4>1, <3>2, <1>2 DEF IInv, TypeOK, Factor
    <3>. QED
      BY <3>1, <3>2
  <2>. QED
    BY <2>1, <2>2 DEF FactorInv
<1>6. Grows
  BY <1>1, <1>2 DEF IInv, TypeOK, Grows, challengeVars
<1>7. CASE Leave(r)
  <2>1. TypeOK'
    BY <1>2, <1>4, <1>7, LeaveType DEF IInv, TypeOK, challengeVars, loginVars
  <2>. QED
    BY <1>2, <1>5, <1>6, <1>7, <2>1, WriteAndLeave DEF challengeVars
<1>8. CASE /\ At(r, "enrolCodes")
           /\ req' = [req EXCEPT ![r].pc = "enable", ![r].found = {}]
  <2>1. req' = [req EXCEPT ![r] = v]
    BY <1>8 DEF v
  <2>2. req'[r] = v
    BY <2>1 DEF IInv, TypeOK
  <2>3. TypeOK'
    BY <1>2, <1>3, <1>4, <2>1 DEF IInv, TypeOK, challengeVars, loginVars
  <2>4. RequestOK(r)'
    BY <1>1, <1>3, <1>8, <2>2 DEF RequestOK, At, Verifying
  <2>. QED
    BY <1>2, <1>3, <1>5, <1>6, <1>8, <2>1, <2>3, <2>4, WriteStep
       DEF At, challengeVars
<1>. QED
  BY <1>7, <1>8 DEF ReplaceBackupCodes

(* Enabling and removal name no new factor. *)
LEMMA EnableOrRemoveInv ==
    ASSUME IInv, NEW r \in Request, Enable(r) \/ RemoveFactors(r)
    PROVE  IInv'
<1>1. req[r].user \in User
  BY DEF Enable, RemoveFactors, IInv, RequestOK, At
<1>2. /\ Leave(r) /\ UNCHANGED <<issuedTo, used, challengeVars, loginVars>>
      /\ enabled' \subseteq User
  BY <1>1 DEF Enable, RemoveFactors, IInv, TypeOK
<1>3. /\ secret' \in [User -> Secret \cup {None}]
      /\ \A u \in User : secret'[u] # None => secret'[u] = secret[u]
  BY DEF Enable, RemoveFactors, IInv, TypeOK
<1>4. /\ codeOwner' \in [BackupCode -> User \cup {None}]
      /\ \A b \in BackupCode : codeOwner'[b] # None => codeOwner'[b] = codeOwner[b]
  BY DEF Enable, RemoveFactors, CodesWithout, IInv, TypeOK
<1>5. TypeOK'
  BY <1>2, <1>3, <1>4, LeaveType DEF IInv, TypeOK, challengeVars, loginVars
<1>6. FactorInv'
  BY <1>2, <1>3, <1>4 DEF IInv, FactorInv
<1>7. Grows
  BY <1>2 DEF Grows, challengeVars
<1>. QED
  BY <1>2, <1>5, <1>6, <1>7, WriteAndLeave DEF challengeVars

-----------------------------------------------------------------------------
(* The steps that count. *)

(* An attempt is counted once: the request that counts it was uncounted    *)
(* and is not any more.                                                    *)
LEMMA CountedOnce ==
    ASSUME IInv, NEW r \in Request, NEW v \in RequestState,
           r \in Uncounted(req[r].challenge), req[r].challenge \in Challenge,
           CountAttempt(req[r].challenge),
           req' = [req EXCEPT ![r] = v],
           v.challenge \in {None, req[r].challenge},
           v.challenge # None => v.pc = "open",
           v.factor \in {None, req[r].factor},
           closed \subseteq closed', UNCHANGED <<used, loginVars>>
    PROVE  CountInv'
<1>1. /\ req'[r] = v
      /\ \A q \in Request \ {r} : req'[q] = req[q]
  BY DEF IInv, TypeOK
<1>2. ASSUME NEW c \in Challenge
      PROVE  /\ (attempts[c] + Cardinality(Uncounted(c))
                    < MaxAttempts + Cardinality(Request))'
             /\ (challengeLogins[c] + Cardinality(AtChallenge(c))
                    <= Cardinality(Request))'
             /\ (challengeLogins[c] > 0 => c \in closed)'
  <2>1. attempts[c] \in Nat /\ challengeLogins[c] \in Nat
        /\ challengeLogins'[c] = challengeLogins[c]
    BY DEF IInv, TypeOK, loginVars
  <2>2. AtChallenge(c)' \subseteq AtChallenge(c)
    BY <1>1, MfaAssumption DEF AtChallenge
  <2>3. /\ Cardinality(AtChallenge(c)') <= Cardinality(AtChallenge(c))
        /\ Cardinality(AtChallenge(c)') \in Nat /\ Cardinality(AtChallenge(c)) \in Nat
    BY <2>2, Shrinks DEF AtChallenge
  <2>4. /\ Cardinality(Uncounted(c)) \in Nat
        /\ attempts'[c] + Cardinality(Uncounted(c)')
              <= attempts[c] + Cardinality(Uncounted(c))
        /\ attempts'[c] + Cardinality(Uncounted(c)') \in Nat
    <3>1. CASE c = req[r].challenge
      <4>1. attempts'[c] = attempts[c] + 1
        BY <3>1 DEF CountAttempt, IInv, TypeOK
      <4>2. Uncounted(c)' \subseteq Uncounted(c) \ {r}
        BY <1>1, <2>2, MfaAssumption DEF Uncounted, AtChallenge, At
      <4>3. Cardinality(Uncounted(c) \ {r}) = Cardinality(Uncounted(c)) - 1
        BY <3>1, LosesOne DEF Uncounted, AtChallenge
      <4>4. /\ Cardinality(Uncounted(c)') <= Cardinality(Uncounted(c) \ {r})
            /\ Cardinality(Uncounted(c)') \in Nat
        BY <4>2, Shrinks DEF Uncounted, AtChallenge
      <4>5. Cardinality(Uncounted(c)) \in Nat
        BY Shrinks DEF Uncounted, AtChallenge
      <4>. QED
        BY <2>1, <4>1, <4>3, <4>4, <4>5
    <3>2. CASE c # req[r].challenge
      <4>1. attempts'[c] = attempts[c]
        BY <3>2 DEF CountAttempt, IInv, TypeOK
      <4>2. Uncounted(c)' \subseteq Uncounted(c)
        BY <1>1, <3>2, MfaAssumption DEF Uncounted, AtChallenge, At
      <4>3. /\ Cardinality(Uncounted(c)') <= Cardinality(Uncounted(c))
            /\ Cardinality(Uncounted(c)') \in Nat /\ Cardinality(Uncounted(c)) \in Nat
        BY <4>2, Shrinks DEF Uncounted, AtChallenge
      <4>. QED
        BY <2>1, <4>1, <4>3
    <3>. QED
      BY <3>1, <3>2
  <2>. QED
    BY <2>1, <2>3, <2>4, Limits DEF IInv, CountInv
<1>3. ASSUME NEW b \in BackupCode
      PROVE  /\ (codeLogins[b] + Cardinality(Holding(b)) <= Cardinality(Request))'
             /\ (codeLogins[b] > 0 => b \in used)'
  <2>1. Holding(b)' \subseteq Holding(b)
    BY <1>1, MfaAssumption DEF Holding, Factor
  <2>2. /\ Cardinality(Holding(b)') <= Cardinality(Holding(b))
        /\ Cardinality(Holding(b)') \in Nat /\ Cardinality(Holding(b)) \in Nat
    BY <2>1, Shrinks DEF Holding
  <2>3. codeLogins'[b] = codeLogins[b] /\ codeLogins[b] \in Nat
    BY DEF IInv, TypeOK, loginVars
  <2>. QED
    BY <2>2, <2>3, Limits DEF IInv, CountInv
<1>. QED
  BY <1>2, <1>3 DEF CountInv

(* attempts keeps its type. *)
LEMMA CountType ==
    ASSUME IInv, NEW c \in Challenge, CountAttempt(c)
    PROVE  attempts' \in [Challenge -> Nat]
BY DEF CountAttempt, IInv, TypeOK

(* A failure is counted by the request that saw it. *)
LEMMA RecordFailureInv ==
    ASSUME IInv, NEW r \in Request, RecordFailure(r)
    PROVE  IInv'
<1>1. /\ At(r, "reject") /\ RequestOK(r) /\ CountAttempt(req[r].challenge) /\ Leave(r)
      /\ UNCHANGED <<factorVars, used, challenged, closed, loginVars>>
  BY DEF RecordFailure, IInv
<1>2. req[r].challenge \in Challenge
  BY <1>1 DEF RequestOK, At, Verifying
<1>3. r \in Uncounted(req[r].challenge)
  BY <1>1 DEF Uncounted, AtChallenge, At
<1>4. /\ req' = [req EXCEPT ![r] = Idle] /\ req'[r] = Idle
      /\ Idle.challenge = None /\ Idle.factor = None /\ Idle \in RequestState
  BY <1>1, IdleOK DEF Leave, IInv, TypeOK, Idle
<1>5. CountInv'
  BY <1>1, <1>2, <1>3, <1>4, CountedOnce
<1>6. TypeOK'
  BY <1>1, <1>2, CountType, LeaveType DEF IInv, TypeOK, factorVars, loginVars
<1>7. FactorInv'
  BY <1>1 DEF IInv, FactorInv, factorVars
<1>8. Grows
  BY <1>1 DEF Grows, factorVars
<1>9. ASSUME NEW q \in Request PROVE RequestOK(q)'
  <2>1. CASE q = r
    BY <2>1, <1>4, IdleOK
  <2>2. CASE q # r
    <3>1. req'[q] = req[q]
      BY <1>4, <2>2 DEF IInv, TypeOK
    <3>. QED
      BY <1>8, <3>1, StillOK
  <2>. QED
    BY <2>1, <2>2
<1>. QED
  BY <1>5, <1>6, <1>7, <1>9 DEF IInv

(* A success is counted and closes the challenge; the request goes on. *)
LEMMA RecordSuccessInv ==
    ASSUME IInv, NEW r \in Request, RecordSuccess(r)
    PROVE  IInv'
<1>. DEFINE v == [req[r] EXCEPT !.pc = "open"]
<1>1. /\ At(r, "accept") /\ RequestOK(r) /\ CountAttempt(req[r].challenge)
      /\ req[r] \in RequestState
      /\ closed' = closed \cup {req[r].challenge}
      /\ UNCHANGED <<factorVars, used, challenged, loginVars>>
  BY DEF RecordSuccess, IInv, TypeOK
<1>2. req[r].challenge \in Challenge
  BY <1>1 DEF RequestOK, At, Verifying
<1>3. r \in Uncounted(req[r].challenge)
  BY <1>1 DEF Uncounted, AtChallenge, At
<1>4. /\ v \in RequestState /\ v.pc = "open" /\ v.user = req[r].user
      /\ v.challenge = req[r].challenge /\ v.factor = req[r].factor
  BY <1>1 DEF RequestState, PC
<1>5. req' = [req EXCEPT ![r] = v]
  BY DEF RecordSuccess, Goto
<1>. HIDE DEF v
<1>6. req'[r] = v /\ \A q \in Request \ {r} : req'[q] = req[q]
  BY <1>5 DEF IInv, TypeOK
<1>7. CountInv'
  BY <1>1, <1>2, <1>3, <1>4, <1>5, CountedOnce
<1>8. TypeOK'
  BY <1>1, <1>2, <1>4, <1>5, CountType DEF IInv, TypeOK, factorVars, loginVars
<1>9. FactorInv'
  BY <1>1 DEF IInv, FactorInv, factorVars
<1>10. RequestOK(r)'
  BY <1>1, <1>4, <1>6 DEF RequestOK, At, Verifying, factorVars
<1>11. Grows
  BY <1>1 DEF Grows, factorVars
<1>12. ASSUME NEW q \in Request PROVE RequestOK(q)'
  BY <1>6, <1>10, <1>11, StillOK
<1>. QED
  BY <1>7, <1>8, <1>9, <1>12 DEF IInv

(* The request that opens a session leaves its challenge and its factor,   *)
(* which are closed and used: whoever comes later does not get in.         *)
LEMMA OpenSessionInv ==
    ASSUME IInv, NEW r \in Request, OpenSession(r)
    PROVE  IInv'
<1>1. /\ At(r, "open") /\ RequestOK(r) /\ Leave(r)
      /\ challengeLogins' = [challengeLogins EXCEPT ![req[r].challenge] = @ + 1]
      /\ codeLogins' = [b \in BackupCode |->
                          codeLogins[b] + IF b = req[r].factor THEN 1 ELSE 0]
      /\ UNCHANGED <<factorVars, used, challengeVars>>
  BY DEF OpenSession, IInv
<1>2. req[r].challenge \in closed
  BY <1>1 DEF RequestOK
<1>3. req[r].factor \in BackupCode => req[r].factor \in used
  BY <1>1 DEF RequestOK, At
<1>4. req' = [req EXCEPT ![r] = Idle] /\ req'[r] = Idle
      /\ \A q \in Request \ {r} : req'[q] = req[q]
  BY <1>1 DEF Leave, IInv, TypeOK
<1>5. Idle.challenge = None /\ Idle.factor = None
  BY DEF Idle
<1>6. /\ challengeLogins' \in [Challenge -> Nat]
      /\ codeLogins' \in [BackupCode -> Nat]
  <2>1. challengeLogins' \in [Challenge -> Nat]
    <3>1. req[r].challenge \in Challenge
      BY <1>2 DEF IInv, TypeOK
    <3>. QED
      BY <1>1, <3>1 DEF IInv, TypeOK
  <2>2. ASSUME NEW b \in BackupCode
        PROVE  codeLogins[b] + (IF b = req[r].factor THEN 1 ELSE 0) \in Nat
    <3>1. codeLogins[b] \in Nat
      BY DEF IInv, TypeOK
    <3>2. CASE b = req[r].factor
      BY <3>1, <3>2
    <3>3. CASE b # req[r].factor
      BY <3>1, <3>3
    <3>. QED
      BY <3>2, <3>3
  <2>. QED
    BY <1>1, <2>1, <2>2
<1>7. TypeOK'
  BY <1>1, <1>6, LeaveType DEF IInv, TypeOK, factorVars, challengeVars
<1>8. FactorInv'
  BY <1>1 DEF IInv, FactorInv, factorVars
<1>9. Grows
  BY <1>1 DEF Grows, factorVars, challengeVars
<1>10. ASSUME NEW q \in Request PROVE RequestOK(q)'
  BY <1>4, <1>9, IdleOK, StillOK
<1>11. ASSUME NEW c \in Challenge
       PROVE  /\ (attempts[c] + Cardinality(Uncounted(c))
                     < MaxAttempts + Cardinality(Request))'
              /\ (challengeLogins[c] + Cardinality(AtChallenge(c))
                     <= Cardinality(Request))'
              /\ (challengeLogins[c] > 0 => c \in closed)'
  <2>1. /\ attempts[c] \in Nat /\ attempts'[c] = attempts[c]
        /\ challengeLogins[c] \in Nat /\ closed' = closed
    BY <1>1 DEF IInv, TypeOK, challengeVars
  <2>2. Uncounted(c)' \subseteq Uncounted(c)
    BY <1>4, <1>5, MfaAssumption DEF Uncounted, AtChallenge, At
  <2>3. /\ Cardinality(Uncounted(c)') <= Cardinality(Uncounted(c))
        /\ Cardinality(Uncounted(c)') \in Nat /\ Cardinality(Uncounted(c)) \in Nat
    BY <2>2, Shrinks DEF Uncounted, AtChallenge
  <2>4. Cardinality(AtChallenge(c)) \in Nat
    BY Shrinks DEF AtChallenge
  <2>5. CASE c = req[r].challenge
    <3>1. challengeLogins'[c] = challengeLogins[c] + 1
      BY <1>1, <2>5 DEF IInv, TypeOK
    <3>2. AtChallenge(c)' = AtChallenge(c) \ {r}
      BY <1>4, <1>5, MfaAssumption DEF AtChallenge
    <3>3. Cardinality(AtChallenge(c)') = Cardinality(AtChallenge(c)) - 1
      BY <2>5, <3>2, LosesOne DEF AtChallenge
    <3>. QED
      BY <1>2, <2>1, <2>3, <2>4, <2>5, <3>1, <3>3, Limits DEF IInv, CountInv
  <2>6. CASE c # req[r].challenge
    <3>1. challengeLogins'[c] = challengeLogins[c]
      BY <1>1, <2>6 DEF IInv, TypeOK
    <3>2. AtChallenge(c)' = AtChallenge(c)
      BY <1>4, <1>5, <2>6, MfaAssumption DEF AtChallenge
    <3>. QED
      BY <2>1, <2>3, <2>4, <3>1, <3>2, Limits DEF IInv, CountInv
  <2>. QED
    BY <2>5, <2>6
<1>12. ASSUME NEW b \in BackupCode
       PROVE  /\ (codeLogins[b] + Cardinality(Holding(b)) <= Cardinality(Request))'
              /\ (codeLogins[b] > 0 => b \in used)'
  <2>1. codeLogins[b] \in Nat /\ used' = used /\ b # None
    BY <1>1, MfaAssumption DEF IInv, TypeOK, Factor
  <2>2. Cardinality(Holding(b)) \in Nat
    BY Shrinks DEF Holding
  <2>3. CASE b = req[r].factor
    <3>1. codeLogins'[b] = codeLogins[b] + 1
      BY <1>1, <2>3
    <3>2. Holding(b)' = Holding(b) \ {r}
      BY <1>4, <1>5, <2>1 DEF Holding
    <3>3. Cardinality(Holding(b)') = Cardinality(Holding(b)) - 1
      BY <2>3, <3>2, LosesOne DEF Holding
    <3>. QED
      BY <1>3, <2>1, <2>2, <2>3, <3>1, <3>3, Limits DEF IInv, CountInv
  <2>4. CASE b # req[r].factor
    <3>1. codeLogins'[b] = codeLogins[b]
      BY <1>1, <2>1, <2>4
    <3>2. Holding(b)' = Holding(b)
      BY <1>4, <1>5, <2>1, <2>4 DEF Holding
    <3>. QED
      BY <2>1, <2>2, <3>1, <3>2, Limits DEF IInv, CountInv
  <2>. QED
    BY <2>3, <2>4
<1>. QED
  BY <1>7, <1>8, <1>10, <1>11, <1>12 DEF IInv, CountInv

(* A challenge that expires lets nobody new in. *)
LEMMA ChallengeExpiresInv ==
    ASSUME IInv, NEW c \in Challenge, ChallengeExpires(c)
    PROVE  IInv'
<1>1. /\ closed' = closed \cup {c}
      /\ UNCHANGED <<factorVars, used, challenged, attempts, req, loginVars>>
  BY DEF ChallengeExpires
<1>2. TypeOK' /\ FactorInv'
  BY <1>1 DEF IInv, TypeOK, FactorInv, factorVars, loginVars
<1>3. Grows
  BY <1>1 DEF Grows, factorVars
<1>4. ASSUME NEW q \in Request PROVE RequestOK(q)'
  BY <1>1, <1>3, StillOK
<1>5. CountInv'
  <2>1. /\ \A d \in Challenge : /\ AtChallenge(d)' \subseteq AtChallenge(d)
                                /\ Uncounted(d)' \subseteq Uncounted(d)
        /\ \A b \in BackupCode : Holding(b)' \subseteq Holding(b)
    BY <1>1 DEF AtChallenge, Uncounted, Holding, At
  <2>. QED
    BY <1>1, <1>3, <2>1, CountsShrink DEF Grows
<1>. QED
  BY <1>2, <1>4, <1>5 DEF IInv

(* Every step keeps the invariant. *)
LEMMA NextInv == IInv /\ [Next]_vars => IInv'
<1>. SUFFICES ASSUME IInv, [Next]_vars PROVE IInv'
  OBVIOUS
<1>1. ASSUME NEW r \in Request, RequestArrives(r) PROVE IInv'
  <2>1. ASSUME NEW c \in Challenge, ReadChallenge(r, c) PROVE IInv'
    BY <2>1, ReadChallengeInv
  <2>2. ASSUME NEW u \in User,
               \/ RequireSecondFactor(r, u) \/ Setup(r, u) \/ VerifySetup(r, u)
               \/ RegenerateBackupCodes(r, u) \/ Disable(r, u)
        PROVE  IInv'
    <3>1. /\ \E pc \in {"issue", "saveSecret", "enrol", "renew", "remove"} :
               Arrive(r, pc, u)
          /\ UNCHANGED <<factorVars, used, challengeVars, loginVars>>
      BY <2>2 DEF RequireSecondFactor, Setup, VerifySetup,
                  RegenerateBackupCodes, Disable
    <3>. QED
      BY <3>1, ArrivalInv
  <2>. QED
    BY <1>1, <2>1, <2>2 DEF RequestArrives
<1>2. ASSUME NEW r \in Request, VerifyStep(r) PROVE IInv'
  BY <1>2, CheckInv, UseFactorInv, RecordFailureInv, RecordSuccessInv,
     OpenSessionInv DEF VerifyStep
<1>3. ASSUME NEW r \in Request, EnrolmentStep(r) PROVE IInv'
  BY <1>3, SaveSecretInv, FindBackupCodesInv, ReplaceBackupCodesInv,
     EnableOrRemoveInv
     DEF EnrolmentStep
<1>4. ASSUME NEW r \in Request, Die(r) PROVE IInv'
  BY <1>4, LeaveInv DEF Die
<1>5. ASSUME NEW r \in Request, NEW c \in Challenge, IssueChallenge(r, c) PROVE IInv'
  BY <1>5, IssueChallengeInv
<1>6. ASSUME NEW c \in Challenge, ChallengeExpires(c) PROVE IInv'
  BY <1>6, ChallengeExpiresInv
<1>7. CASE UNCHANGED vars
  <2>1. /\ UNCHANGED <<secret, enabled, codeOwner, issuedTo, used, challenged>>
        /\ UNCHANGED <<attempts, closed, req, challengeLogins, codeLogins>>
    BY <1>7 DEF vars, factorVars, challengeVars, loginVars
  <2>2. TypeOK' /\ FactorInv'
    BY <2>1 DEF IInv, TypeOK, FactorInv
  <2>3. ASSUME NEW q \in Request PROVE RequestOK(q)'
    BY <2>1, StillOK DEF Grows
  <2>4. CountInv'
    BY <2>1 DEF IInv, CountInv, AtChallenge, Uncounted, Holding, At
  <2>. QED
    BY <2>2, <2>3, <2>4 DEF IInv
<1>. QED
  BY <1>1, <1>2, <1>3, <1>4, <1>5, <1>6, <1>7 DEF Next

-----------------------------------------------------------------------------
(* The invariant holds in every reachable state. *)
THEOREM Inductive == Spec => []IInv
BY InitInv, NextInv, PTL DEF Spec

(* Every column and every request keeps its type. *)
THEOREM TypeCorrect == Spec => []TypeOK
<1>1. IInv => TypeOK
  BY DEF IInv
<1>. QED
  BY <1>1, Inductive, PTL

(* The session that verifyAndCompleteLogin opens is one for which the user *)
(* of the challenge presented a factor of their own.                       *)
THEOREM OwnFactor == Spec => []SessionNeedsOwnFactor
<1>1. IInv => SessionNeedsOwnFactor
  BY DEF IInv, RequestOK, SessionNeedsOwnFactor, At, Verifying
<1>. QED
  BY <1>1, Inductive, PTL

(* The limit on the attempts is passed by less than the number of requests *)
(* that can verify a challenge at once.                                    *)
THEOREM AttemptsLimited == Spec => []AttemptsBounded
<1>1. ASSUME IInv, NEW c \in Challenge
      PROVE  attempts[c] < MaxAttempts + Cardinality(Request)
  <2>1. Cardinality(Uncounted(c)) \in Nat
    BY Shrinks DEF Uncounted, AtChallenge
  <2>2. attempts[c] \in Nat
    BY <1>1 DEF IInv, TypeOK
  <2>. QED
    BY <1>1, <2>1, <2>2, Limits DEF IInv, CountInv
<1>2. IInv => AttemptsBounded
  BY <1>1 DEF AttemptsBounded
<1>. QED
  BY <1>2, Inductive, PTL

(* A challenge lets in no more logins than requests that raced the first. *)
THEOREM ChallengeLoginsLimited == Spec => []ChallengeLoginsBounded
<1>1. ASSUME IInv, NEW c \in Challenge
      PROVE  challengeLogins[c] <= Cardinality(Request)
  <2>1. Cardinality(AtChallenge(c)) \in Nat
    BY Shrinks DEF AtChallenge
  <2>2. challengeLogins[c] \in Nat
    BY <1>1 DEF IInv, TypeOK
  <2>. QED
    BY <1>1, <2>1, <2>2, Limits DEF IInv, CountInv
<1>2. IInv => ChallengeLoginsBounded
  BY <1>1 DEF ChallengeLoginsBounded
<1>. QED
  BY <1>2, Inductive, PTL

(* So does a backup code. *)
THEOREM CodeLoginsLimited == Spec => []CodeLoginsBounded
<1>1. ASSUME IInv, NEW b \in BackupCode
      PROVE  codeLogins[b] <= Cardinality(Request)
  <2>1. Cardinality(Holding(b)) \in Nat
    BY Shrinks DEF Holding
  <2>2. codeLogins[b] \in Nat
    BY <1>1 DEF IInv, TypeOK
  <2>. QED
    BY <1>1, <2>1, <2>2, Limits DEF IInv, CountInv
<1>2. IInv => CodeLoginsBounded
  BY <1>1 DEF CodeLoginsBounded
<1>. QED
  BY <1>2, Inductive, PTL

-----------------------------------------------------------------------------
(* A request that moves, to somewhere else than the set-up or the removal  *)
(* of u, leaves u enrolled when isEnabled stays set.                       *)
LEMMA StaysEnrolled ==
    ASSUME TypeOK, NEW u \in User, Enrolled(u), u \in enabled',
           NEW r \in Request, NEW v, req' = [req EXCEPT ![r] = v],
           v.pc \in {"saveSecret", "remove", "removeAll"} => v.user # u
    PROVE  Enrolled(u)'
<1>1. req'[r] = v /\ \A q \in Request \ {r} : req'[q] = req[q]
  BY DEF TypeOK
<1>. QED
  BY <1>1 DEF Enrolled, EnrolmentPending

(* An enrolled user is enrolled after every step but a request to disable. *)
LEMMA EnrolledStep ==
    ASSUME TypeOK, [Next]_vars, NEW u \in User, Enrolled(u),
           ~ \E r \in Request : Disable(r, u)
    PROVE  Enrolled(u)'
<1>. USE DEF factorVars
<1>1. u \in enabled /\ ~EnrolmentPending(u)
  BY DEF Enrolled
<1>2. ASSUME NEW r \in Request, NEW w \in User, NEW pc,
             Arrive(r, pc, w),
             pc \in {"saveSecret", "remove", "removeAll"} => w # u,
             UNCHANGED enabled
      PROVE  Enrolled(u)'
  <2>. DEFINE v == [Idle EXCEPT !.pc = pc, !.user = w]
  <2>1. req' = [req EXCEPT ![r] = v] /\ v.pc = pc /\ v.user = w
    BY <1>2 DEF Arrive, Idle
  <2>. HIDE DEF v
  <2>. QED
    BY <1>1, <1>2, <2>1, StaysEnrolled
<1>3. ASSUME NEW r \in Request, Leave(r), u \in enabled' PROVE Enrolled(u)'
  <2>1. req' = [req EXCEPT ![r] = Idle] /\ Idle.pc = "idle"
    BY <1>3 DEF Leave, Idle
  <2>. QED
    BY <1>3, <2>1, StaysEnrolled
<1>4. ASSUME NEW r \in Request, NEW pc \in {"accept", "reject", "open"},
             Goto(r, pc), UNCHANGED enabled
      PROVE  Enrolled(u)'
  <2>. DEFINE v == [req[r] EXCEPT !.pc = pc]
  <2>1. req' = [req EXCEPT ![r] = v] /\ v.pc = pc
    BY <1>4 DEF Goto, TypeOK, RequestState
  <2>. HIDE DEF v
  <2>. QED
    BY <1>1, <1>4, <2>1, StaysEnrolled
<1>5. ASSUME NEW r \in Request, NEW f, Present(r, f), UNCHANGED enabled
      PROVE  Enrolled(u)'
  <2>. DEFINE v == [req[r] EXCEPT !.pc = "use", !.factor = f]
  <2>1. req' = [req EXCEPT ![r] = v] /\ v.pc = "use"
    BY <1>5 DEF Present, TypeOK, RequestState
  <2>. HIDE DEF v
  <2>. QED
    BY <1>1, <1>5, <2>1, StaysEnrolled
<1>6. ASSUME NEW r \in Request, RequestArrives(r) PROVE Enrolled(u)'
  <2>1. ASSUME NEW c \in Challenge, ReadChallenge(r, c) PROVE Enrolled(u)'
    <3>. DEFINE v == [Idle EXCEPT !.pc = "verify", !.user = challenged[c],
                                  !.challenge = c]
    <3>1. req' = [req EXCEPT ![r] = v] /\ v.pc = "verify" /\ UNCHANGED enabled
      BY <2>1 DEF ReadChallenge, Idle
    <3>. HIDE DEF v
    <3>. QED
      BY <1>1, <3>1, StaysEnrolled
  <2>2. ASSUME NEW w \in User, RequireSecondFactor(r, w) PROVE Enrolled(u)'
    BY <2>2, <1>2 DEF RequireSecondFactor
  <2>3. ASSUME NEW w \in User, Setup(r, w) PROVE Enrolled(u)'
    BY <2>3, <1>1, <1>2 DEF Setup, MaySetUp
  <2>4. ASSUME NEW w \in User, VerifySetup(r, w) PROVE Enrolled(u)'
    BY <2>4, <1>2 DEF VerifySetup
  <2>5. ASSUME NEW w \in User, RegenerateBackupCodes(r, w) PROVE Enrolled(u)'
    BY <2>5, <1>2 DEF RegenerateBackupCodes
  <2>6. ASSUME NEW w \in User, Disable(r, w) PROVE Enrolled(u)'
    BY <2>6, <1>2 DEF Disable
  <2>. QED
    BY <1>6, <2>1, <2>2, <2>3, <2>4, <2>5, <2>6 DEF RequestArrives
<1>7. ASSUME NEW r \in Request, VerifyStep(r) PROVE Enrolled(u)'
  <2>1. ASSUME NEW x \in Secret, CheckTotp(r, x) PROVE Enrolled(u)'
    BY <2>1, <1>4, <1>5 DEF CheckTotp
  <2>2. ASSUME NEW b \in BackupCode, CheckBackupCode(r, b) PROVE Enrolled(u)'
    BY <2>2, <1>4, <1>5 DEF CheckBackupCode
  <2>3. CASE UseFactor(r)
    BY <2>3, <1>1, <1>3, <1>4 DEF UseFactor
  <2>4. CASE RecordFailure(r)
    BY <2>4, <1>1, <1>3 DEF RecordFailure
  <2>5. CASE RecordSuccess(r)
    BY <2>5, <1>4 DEF RecordSuccess
  <2>6. CASE OpenSession(r)
    BY <2>6, <1>1, <1>3 DEF OpenSession
  <2>. QED
    BY <1>7, <2>1, <2>2, <2>3, <2>4, <2>5, <2>6 DEF VerifyStep
<1>8. ASSUME NEW r \in Request, EnrolmentStep(r) PROVE Enrolled(u)'
  <2>1. ASSUME NEW x \in Secret, SaveSecret(r, x) PROVE Enrolled(u)'
    <3>1. req[r].user # u /\ Leave(r)
      BY <2>1, <1>1 DEF SaveSecret, EnrolmentPending, At
    <3>. QED
      BY <2>1, <3>1, <1>1, <1>3 DEF SaveSecret
  <2>2. ASSUME NEW b \in BackupCode, ReplaceBackupCodes(r, b) PROVE Enrolled(u)'
    <3>1. CASE Leave(r)
      BY <2>2, <3>1, <1>1, <1>3 DEF ReplaceBackupCodes
    <3>2. CASE req' = [req EXCEPT ![r].pc = "enable", ![r].found = {}]
      <4>. DEFINE v == [req[r] EXCEPT !.pc = "enable", !.found = {}]
      <4>1. req' = [req EXCEPT ![r] = v] /\ v.pc = "enable"
        BY <3>2 DEF TypeOK, RequestState
      <4>. HIDE DEF v
      <4>. QED
        BY <2>2, <4>1, <1>1, StaysEnrolled DEF ReplaceBackupCodes
    <3>. QED
      BY <2>2, <3>1, <3>2 DEF ReplaceBackupCodes
  <2>3. CASE Enable(r)
    BY <2>3, <1>1, <1>3 DEF Enable
  <2>4. CASE RemoveFactors(r)
    <3>1. req[r].user # u /\ Leave(r)
      BY <2>4, <1>1 DEF RemoveFactors, EnrolmentPending, At
    <3>. QED
      BY <2>4, <3>1, <1>1, <1>3 DEF RemoveFactors
  <2>5. ASSUME NEW from, NEW to, FindBackupCodes(r, from, to),
               to = "removeAll" => from = "remove",
               to # "saveSecret" /\ to # "remove"
        PROVE  Enrolled(u)'
    <3>. DEFINE v == [req[r] EXCEPT !.pc = to,
                    !.found = {b \in BackupCode : codeOwner[b] = req[r].user}]
    <3>1. /\ req' = [req EXCEPT ![r] = v] /\ v.pc = to
          /\ v.user = req[r].user /\ UNCHANGED enabled
      BY <2>5 DEF FindBackupCodes, TypeOK, RequestState
    <3>. HIDE DEF v
    <3>2. from = "remove" => req[r].user # u
      BY <2>5, <1>1 DEF FindBackupCodes, EnrolmentPending, At
    <3>. QED
      BY <2>5, <3>1, <3>2, <1>1, StaysEnrolled
  <2>. QED
    BY <1>8, <2>1, <2>2, <2>3, <2>4, <2>5 DEF EnrolmentStep
<1>9. ASSUME NEW r \in Request, Die(r) PROVE Enrolled(u)'
  BY <1>9, <1>1, <1>3 DEF Die
<1>10. ASSUME NEW r \in Request, NEW c \in Challenge, IssueChallenge(r, c)
       PROVE  Enrolled(u)'
  BY <1>10, <1>1, <1>3 DEF IssueChallenge
<1>11. ASSUME NEW c \in Challenge, ChallengeExpires(c) PROVE Enrolled(u)'
  BY <1>11, <1>1 DEF ChallengeExpires, Enrolled, EnrolmentPending
<1>12. CASE UNCHANGED vars
  BY <1>12, <1>1 DEF vars, Enrolled, EnrolmentPending
<1>. QED
  BY <1>6, <1>7, <1>8, <1>9, <1>10, <1>11, <1>12 DEF Next

(* Once set up, MFA goes off by a request to disable it alone. *)
THEOREM EnrolmentHolds == Spec => EnrolmentSettles
<1>1. TypeOK /\ [Next]_vars =>
         [\A u \in User :
            Enrolled(u) => Enrolled(u)' \/ \E r \in Request : Disable(r, u)]_vars
  BY EnrolledStep
<1>. QED
  BY <1>1, TypeCorrect, PTL DEF Spec, EnrolmentSettles
=============================================================================
