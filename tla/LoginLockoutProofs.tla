------------------------ MODULE LoginLockoutProofs ------------------------
(***************************************************************************)
(* Proofs about LoginLockout, for any set of requests and any MaxAttempts. *)
(***************************************************************************)
EXTENDS LoginLockout, TLAPS

(* The limit as the arithmetic below needs it. *)
LEMMA Limit == MaxAttempts \in Nat /\ MaxAttempts > 0
BY AttemptsAssumption

(* At the start nobody has guessed and nothing is counted. *)
LEMMA InitInv == Init => IInv
<1>. SUFFICES ASSUME Init PROVE IInv
  OBVIOUS
<1>1. TypeOK
  <2>1. wrong \in 0 .. MaxAttempts /\ attempts \in Nat
    BY Limit DEF Init
  <2>2. req \in [Request -> [pc : {"idle", "fail", "succeed", "reactivate", "challenge"},
                             attempts : Nat, status : Status]]
    BY DEF Init, Idle, Status
  <2>. QED
    BY <2>1, <2>2 DEF Init, TypeOK, Status
<1>2. CountInv /\ NoLockWithoutFailures
  BY DEF Init, CountInv, NoLockWithoutFailures, Idle, At
<1>. QED
  BY <1>1, <1>2 DEF IInv

(* A request that arrives holds the count and the status of this moment;   *)
(* it counts its own wrong password before it stores anything.             *)
LEMMA ArrivalInv ==
    ASSUME IInv, NEW r \in Request, RequestArrives(r)
    PROVE  IInv'
<1>. USE DEF At
<1>1. PICK pc \in {"fail", "succeed", "reactivate", "challenge"} :
          Arrive(r, pc) /\ (pc = "fail" => GuessWrong(r))
  BY DEF RequestArrives, GuessWrong, EnterPassword, CompleteMfa, OAuthLogin,
     ReissueChallenge, SsoLogin
<1>2. UNCHANGED userVars
  BY DEF RequestArrives, GuessWrong, EnterPassword, CompleteMfa, OAuthLogin,
     ReissueChallenge, SsoLogin
<1>3. /\ wrong' \in 0 .. MaxAttempts
      /\ wrong' = wrong \/ (wrong < MaxAttempts /\ wrong' = wrong + 1)
      /\ pc = "fail" => wrong = MaxAttempts \/ wrong' = wrong + 1
  BY <1>1, Limit DEF RequestArrives, GuessWrong, EnterPassword,
     CompleteMfa, OAuthLogin, ReissueChallenge, SsoLogin, IInv, TypeOK
<1>4. /\ req'[r] = Read(pc)
      /\ \A q \in Request \ {r} : req'[q] = req[q]
  BY <1>1 DEF Arrive, IInv, TypeOK
<1>5. TypeOK'
  BY <1>1, <1>2, <1>3 DEF IInv, TypeOK, Arrive, Read, userVars, Status
<1>6. CountInv'
  <2>1. attempts' <= wrong' \/ wrong' = MaxAttempts
    BY <1>2, <1>3 DEF IInv, TypeOK, CountInv, userVars
  <2>2. ASSUME NEW q \in Request \ {r}, At(q, "fail")'
        PROVE  /\ req'[q].attempts + 1 <= wrong' \/ wrong' = MaxAttempts
               /\ req'[q].status = "ACTIVE"
    BY <2>2, <1>3, <1>4 DEF IInv, TypeOK, CountInv
  <2>3. ASSUME At(r, "fail")'
        PROVE  /\ req'[r].attempts + 1 <= wrong' \/ wrong' = MaxAttempts
               /\ req'[r].status = "ACTIVE"
    <3>1. pc = "fail" /\ req'[r].attempts = attempts /\ req'[r].status = status
      BY <2>3, <1>4 DEF Read
    <3>2. status = "ACTIVE"
      BY <3>1, <1>1 DEF GuessWrong, RefusedAsLocked, IInv, TypeOK, Status
    <3>. QED
      BY <3>1, <3>2, <1>3 DEF IInv, TypeOK, CountInv
  <2>. QED
    BY <2>1, <2>2, <2>3 DEF CountInv
<1>7. NoLockWithoutFailures'
  BY <1>2, <1>3, Limit DEF IInv, TypeOK, NoLockWithoutFailures, userVars
<1>. QED
  BY <1>5, <1>6, <1>7 DEF IInv

(* What a failed login stores is at most the number of wrong passwords, so *)
(* it locks only when there have been MaxAttempts of them.                 *)
LEMMA FailureInv ==
    ASSUME IInv, NEW r \in Request, HandleFailedLogin(r)
    PROVE  IInv'
<1>. USE DEF At
<1>1. /\ req[r].attempts \in Nat
      /\ req[r].attempts + 1 <= wrong \/ wrong = MaxAttempts
      /\ wrong \in 0 .. MaxAttempts
  BY DEF HandleFailedLogin, IInv, TypeOK, CountInv
<1>2. req' = [req EXCEPT ![r] = Idle] /\ wrong' = wrong
  BY DEF HandleFailedLogin, Leave
<1>3. attempts' = req[r].attempts + 1 /\ req[r].status \in Status
  BY DEF HandleFailedLogin, NewAttempts, IInv, TypeOK
<1>4. TypeOK'
  <2>1. req' \in [Request -> [pc : {"idle", "fail", "succeed", "reactivate", "challenge"},
                              attempts : Nat, status : Status]]
    BY <1>2 DEF IInv, TypeOK, Idle, Status
  <2>2. /\ status' \in Status /\ lockUntil' \in {"past", "future"}
    BY <1>3 DEF HandleFailedLogin, IInv, TypeOK, Status
  <2>. QED
    BY <1>1, <1>2, <1>3, <2>1, <2>2 DEF TypeOK
<1>5. CountInv'
  BY <1>1, <1>2, <1>3 DEF IInv, TypeOK, CountInv, Idle
<1>6. NoLockWithoutFailures'
  <2>1. CASE ShouldLock(req[r].attempts + 1)
    BY <2>1, <1>1, <1>2, Limit DEF ShouldLock, NoLockWithoutFailures
  <2>2. CASE ~ShouldLock(req[r].attempts + 1)
    BY <2>2 DEF HandleFailedLogin, IInv, CountInv, NoLockWithoutFailures
  <2>. QED
    BY <2>1, <2>2
<1>. QED
  BY <1>4, <1>5, <1>6 DEF IInv

(* Every other step only lowers the count, makes the user ACTIVE or ends   *)
(* a request.                                                              *)
LEMMA OtherInv ==
    ASSUME IInv,
           \/ \E r \in Request :
                 ResetCounters(r) \/ Reactivate(r) \/ AnswerChallenge(r) \/ Die(r)
           \/ LockPasses
           \/ UNCHANGED vars
    PROVE  IInv'
<1>. USE DEF At, IInv, TypeOK, CountInv, NoLockWithoutFailures, userVars, Status
<1>1. ASSUME NEW r \in Request, ResetCounters(r) PROVE IInv'
  <2>1. 0 <= wrong
    BY Limit DEF IInv, TypeOK
  <2>. QED
    BY <1>1, <2>1 DEF ResetCounters, Leave, Idle
<1>2. ASSUME NEW r \in Request, Reactivate(r) PROVE IInv'
  BY <1>2 DEF Reactivate, Leave, Idle
<1>3. ASSUME NEW r \in Request, Die(r) PROVE IInv'
  BY <1>3 DEF Die, Leave, Idle
<1>4. ASSUME NEW r \in Request, AnswerChallenge(r) PROVE IInv'
  BY <1>4 DEF AnswerChallenge, Leave, Idle
<1>5. CASE LockPasses
  BY <1>5 DEF LockPasses
<1>6. CASE UNCHANGED vars
  BY <1>6 DEF vars
<1>. QED
  BY <1>1, <1>2, <1>3, <1>4, <1>5, <1>6

(* Every step preserves the invariant. *)
LEMMA NextInv == IInv /\ [Next]_vars => IInv'
<1>. SUFFICES ASSUME IInv, [Next]_vars PROVE IInv'
  OBVIOUS
<1>1. ASSUME NEW r \in Request, RequestArrives(r) PROVE IInv'
  BY <1>1, ArrivalInv
<1>2. ASSUME NEW r \in Request, Step(r) PROVE IInv'
  BY <1>2, FailureInv, OtherInv DEF Step
<1>3. ASSUME NEW r \in Request, Die(r) PROVE IInv'
  BY <1>3, OtherInv
<1>. QED
  BY <1>1, <1>2, <1>3, OtherInv DEF Next

(* The invariant holds in every reachable state. *)
THEOREM Inductive == Spec => []IInv
BY InitInv, NextInv, PTL DEF Spec

(* Every variable stays in its type. *)
THEOREM TypeCorrect == Spec => []TypeOK
<1>1. IInv => TypeOK
  BY DEF IInv
<1>. QED
  BY <1>1, Inductive, PTL

(* Nobody is locked out who was not the object of MaxAttempts wrong        *)
(* passwords, for any MaxAttempts and any number of overlapping logins.    *)
THEOREM LocksAreEarned == Spec => []NoLockWithoutFailures
<1>1. IInv => NoLockWithoutFailures
  BY DEF IInv
<1>. QED
  BY <1>1, Inductive, PTL

-----------------------------------------------------------------------------
(* A step that is not a successful login keeps every count reached for     *)
(* good: a failed login stores a count of at least n, and a login that     *)
(* arrives reads one.                                                      *)
LEMMA RewindStep ==
    ASSUME IInv, [Next]_vars, NEW n \in 1 .. MaxAttempts, AtLeast(n),
           ~ \E r \in Request : ResetCounters(r)
    PROVE  AtLeast(n)'
<1>. USE DEF At
<1>1. ASSUME NEW r \in Request, RequestArrives(r) PROVE AtLeast(n)'
  <2>1. PICK pc : Arrive(r, pc)
    BY <1>1 DEF RequestArrives, GuessWrong, EnterPassword, CompleteMfa, OAuthLogin,
                ReissueChallenge, SsoLogin
  <2>2. attempts' = attempts
    BY <1>1 DEF RequestArrives, GuessWrong, EnterPassword, CompleteMfa, OAuthLogin,
                ReissueChallenge, SsoLogin, userVars
  <2>3. /\ req'[r].attempts = attempts
        /\ \A q \in Request \ {r} : req'[q] = req[q]
    BY <2>1 DEF Arrive, Read, IInv, TypeOK
  <2>4. attempts \in Nat
    BY DEF IInv, TypeOK
  <2>. QED
    BY <2>2, <2>3, <2>4 DEF AtLeast
<1>2. ASSUME NEW r \in Request, HandleFailedLogin(r) PROVE AtLeast(n)'
  <2>1. attempts' = req[r].attempts + 1 /\ req[r].attempts + 1 >= n
    BY <1>2 DEF HandleFailedLogin, NewAttempts, AtLeast
  <2>2. req' = [req EXCEPT ![r] = Idle]
    BY <1>2 DEF HandleFailedLogin, Leave
  <2>. QED
    BY <2>1, <2>2 DEF AtLeast, Idle, IInv, TypeOK
<1>3. ASSUME NEW r \in Request, Reactivate(r) \/ AnswerChallenge(r) \/ Die(r)
      PROVE  AtLeast(n)'
  BY <1>3 DEF Reactivate, AnswerChallenge, Die, Leave, AtLeast, Idle, IInv, TypeOK, userVars
<1>4. CASE LockPasses \/ UNCHANGED vars
  BY <1>4 DEF LockPasses, vars, userVars, AtLeast
<1>. QED
  BY <1>1, <1>2, <1>3, <1>4 DEF Next, Step

(* The count the user has reached for good never falls back but by a       *)
(* successful login: the argument why guessing by logging in ends, for any *)
(* number of concurrent logins that overwrite each other.                  *)
THEOREM CountsAreKept == Spec => OnlySuccessRewinds
<1>1. IInv /\ [Next]_vars =>
        [\A n \in 1 .. MaxAttempts :
            AtLeast(n) => AtLeast(n)' \/ \E r \in Request : ResetCounters(r)]_vars
  BY RewindStep
<1>. QED
  BY <1>1, Inductive, PTL DEF Spec, OnlySuccessRewinds

(* A login that arrives reads a count of at least n, so it is not behind;  *)
(* a failed login that ends leaves those behind or stores more than n.     *)
LEMMA AheadStep ==
    ASSUME IInv, [Next]_vars, NEW n \in 0 .. MaxAttempts, AtLeast(n),
           ~ \E r \in Request : ResetCounters(r)
    PROVE  GetsAhead(n)
<1>. USE DEF At
<1>1. ASSUME NEW r \in Request, HandleFailedLogin(r)
      PROVE  /\ Behind(n)' \subseteq Behind(n)
             /\ Behind(n)' # Behind(n) \/ attempts' > n
             /\ n = MaxAttempts => status' = "LOCKED"
  <2>1. /\ attempts' = req[r].attempts + 1
        /\ req[r].pc = "fail" /\ req[r].attempts \in Nat
        /\ req' = [req EXCEPT ![r] = Idle]
    BY <1>1 DEF HandleFailedLogin, NewAttempts, Leave, IInv, TypeOK
  <2>2. /\ req'[r].pc = "idle"
        /\ \A q \in Request \ {r} : req'[q] = req[q]
    BY <2>1 DEF Idle, IInv, TypeOK
  <2>3. Behind(n)' \subseteq Behind(n) /\ r \notin Behind(n)'
    BY <2>2 DEF Behind
  <2>4. r \in Behind(n) \/ attempts' > n
    BY <2>1, Limit DEF Behind
  <2>5. ASSUME n = MaxAttempts PROVE status' = "LOCKED"
    BY <1>1, <2>1, <2>5 DEF HandleFailedLogin, ShouldLock, AtLeast
  <2>. QED
    BY <2>3, <2>4, <2>5
<1>2. Behind(n)' \subseteq Behind(n)
  <2>1. ASSUME NEW r \in Request, RequestArrives(r) PROVE Behind(n)' \subseteq Behind(n)
    <3>1. PICK pc : Arrive(r, pc)
      BY <2>1 DEF RequestArrives, GuessWrong, EnterPassword, CompleteMfa, OAuthLogin,
                  ReissueChallenge, SsoLogin
    <3>2. /\ req'[r].attempts = attempts
          /\ \A q \in Request \ {r} : req'[q] = req[q]
      BY <3>1 DEF Arrive, Read, IInv, TypeOK
    <3>3. attempts \in Nat /\ attempts >= n
      BY DEF AtLeast, IInv, TypeOK
    <3>4. r \notin Behind(n)'
      BY <3>2, <3>3, Limit DEF Behind
    <3>. QED
      BY <3>2, <3>4 DEF Behind
  <2>2. ASSUME NEW r \in Request, Reactivate(r) \/ AnswerChallenge(r) \/ Die(r)
      PROVE  Behind(n)' \subseteq Behind(n)
    BY <2>2 DEF Reactivate, AnswerChallenge, Die, Leave, Behind, Idle, IInv, TypeOK
  <2>3. CASE LockPasses \/ UNCHANGED vars
    BY <2>3 DEF LockPasses, vars, Behind
  <2>. QED
    BY <1>1, <2>1, <2>2, <2>3 DEF Next, Step
<1>. QED
  BY <1>1, <1>2 DEF GetsAhead

(* And it moves on from every n below MaxAttempts: with CountsAreKept, the *)
(* safety that LoginGuessesEnd rests on besides the premise that failed       *)
(* logins end.                                                             *)
THEOREM CountsMoveOn == Spec => GuessesGetAhead
<1>1. IInv /\ [Next]_vars =>
        [\A n \in 0 .. MaxAttempts :
            AtLeast(n) => GetsAhead(n) \/ \E r \in Request : ResetCounters(r)]_vars
  BY AheadStep
<1>. QED
  BY <1>1, Inductive, PTL DEF Spec, GuessesGetAhead
=============================================================================
