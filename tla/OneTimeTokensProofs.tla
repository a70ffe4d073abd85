------------------------- MODULE OneTimeTokensProofs -------------------------
(* OneTimeTokens for any number of tokens, passwords, requests, any limit. *)
EXTENDS OneTimeTokens, TLAPS

-----------------------------------------------------------------------------
(* Histories. *)

LEMMA PushedSequence ==
    ASSUME NEW new \in Password, NEW rows \in Seq(Password)
    PROVE  /\ <<new>> \o rows \in Seq(Password)
           /\ Len(<<new>> \o rows) = Len(rows) + 1
           /\ (<<new>> \o rows)[1] = new
           /\ \A i \in 1..Len(rows) : (<<new>> \o rows)[i + 1] = rows[i]
  OBVIOUS

LEMMA NewestOfPushed ==
    ASSUME NEW new \in Password, NEW rows \in Seq(Password), NEW k \in Nat
    PROVE  Newest(<<new>> \o rows, k + 1) = {new} \cup Newest(rows, k)
<1> DEFINE pushed == <<new>> \o rows
<1>1. /\ Len(pushed) = Len(rows) + 1 /\ Len(rows) \in Nat
      /\ DOMAIN pushed = 1..Len(pushed) /\ DOMAIN rows = 1..Len(rows)
      /\ pushed[1] = new
      /\ \A i \in 1..Len(rows) : pushed[i + 1] = rows[i]
  BY PushedSequence
<1> HIDE DEF pushed
<1>2. ASSUME NEW x \in Newest(pushed, k + 1) PROVE x \in {new} \cup Newest(rows, k)
  <2>1. PICK i \in DOMAIN pushed : i <= k + 1 /\ x = pushed[i]
    BY <1>2 DEF Newest
  <2>2. CASE i = 1
    BY <2>1, <2>2, <1>1
  <2>3. CASE i # 1
    <3>1. i - 1 \in 1..Len(rows) /\ i - 1 <= k /\ pushed[(i - 1) + 1] = rows[i - 1]
      BY <2>1, <2>3, <1>1
    <3>2. (i - 1) + 1 = i
      BY <2>1, <1>1
    <3> QED
      BY <2>1, <3>1, <3>2, <1>1 DEF Newest
  <2> QED
    BY <2>2, <2>3
<1>3. ASSUME NEW x \in {new} \cup Newest(rows, k) PROVE x \in Newest(pushed, k + 1)
  <2>1. CASE x = new
    <3>1. 1 \in DOMAIN pushed /\ 1 <= k + 1
      BY <1>1
    <3> QED
      BY <2>1, <3>1, <1>1 DEF Newest
  <2>2. CASE x \in Newest(rows, k)
    <3>1. PICK i \in DOMAIN rows : i <= k /\ x = rows[i]
      BY <2>2 DEF Newest
    <3>2. i + 1 \in DOMAIN pushed /\ i + 1 <= k + 1 /\ pushed[i + 1] = x
      BY <3>1, <1>1
    <3> QED
      BY <3>2 DEF Newest
  <2> QED
    BY <1>3, <2>1, <2>2
<1> QED
  BY <1>2, <1>3 DEF pushed

LEMMA NewestOfNone == ASSUME NEW rows \in Seq(Password) PROVE Newest(rows, 0) = {}
  BY DEF Newest

LEMMA TrimmedSequence ==
    ASSUME NEW rows \in Seq(Password)
    PROVE  /\ Trim(rows) \in Seq(Password)
           /\ \A k \in 0..Limit : Newest(Trim(rows), k) = Newest(rows, k)
<1>1. CASE Limit = 0 \/ Len(rows) <= Limit
  BY <1>1 DEF Trim
<1>2. CASE ~(Limit = 0 \/ Len(rows) <= Limit)
  <2>1. Limit \in 1..Len(rows) /\ Trim(rows) = SubSeq(rows, 1, Limit)
    BY <1>2, TokenAssumption DEF Trim
  <2>2. /\ Trim(rows) \in Seq(Password)
        /\ DOMAIN Trim(rows) = 1..Limit
        /\ \A i \in 1..Limit : Trim(rows)[i] = rows[i]
    BY <2>1
  <2>3. DOMAIN rows = 1..Len(rows)
    OBVIOUS
  <2> QED
    BY <2>1, <2>2, <2>3 DEF Newest
<1> QED
  BY <1>1, <1>2

(* What is pushed on both leaves them alike. *)
LEMMA PushedAlike ==
    ASSUME TypeOK, NEW new \in Password,
           \A k \in 0..Limit : Newest(history, k) = Newest(past, k)
    PROVE  \A k \in 0..Limit :
              Newest(Trim(<<new>> \o history), k) = Newest(<<new>> \o past, k)
<1> TAKE k \in 0..Limit
<1> DEFINE pushed == <<new>> \o history
<1>1. pushed \in Seq(Password) /\ <<new>> \o past \in Seq(Password)
  BY PushedSequence DEF TypeOK
<1>2. Newest(Trim(pushed), k) = Newest(pushed, k)
  BY <1>1, TrimmedSequence
<1>3. CASE k = 0
  BY <1>1, <1>2, <1>3, NewestOfNone
<1>4. CASE k # 0
  <2>1. k - 1 \in 0..Limit /\ k - 1 \in Nat /\ (k - 1) + 1 = k
    BY <1>4, TokenAssumption
  <2>2. Newest(history, k - 1) = Newest(past, k - 1)
    BY <2>1
  <2>3. /\ Newest(<<new>> \o history, (k - 1) + 1) = {new} \cup Newest(history, k - 1)
        /\ Newest(<<new>> \o past, (k - 1) + 1) = {new} \cup Newest(past, k - 1)
    BY <2>1, NewestOfPushed DEF TypeOK
  <2> QED
    BY <1>2, <2>1, <2>2, <2>3
<1> QED
  BY <1>3, <1>4

-----------------------------------------------------------------------------
(* Types. *)

LEMMA IdleType == Idle \in RequestState /\ Idle.pc = "idle" /\ Idle.seen = 0 /\ Idle.token = None
  BY DEF Idle, RequestState, PC

LEMMA RowsType ==
    ASSUME TypeOK, NEW t \in Token
    PROVE  /\ \A purpose \in Purpose, marked \in SUBSET Token :
                 Inserted(t, purpose, marked) \in [Token -> {None} \cup Row]
           /\ Issued(t) => /\ token[t] \in Row
                           /\ Taken(t) \in [Token -> {None} \cup Row]
<1>1. \A x \in Token : Issued(x) => /\ token[x] \in Row
                                    /\ [token[x] EXCEPT !.used = TRUE] \in Row
  BY DEF TypeOK, Issued, Row
<1>2. \A purpose \in Purpose : [purpose |-> purpose, used |-> FALSE, expired |-> FALSE] \in Row
  BY DEF Row
<1> QED
  BY <1>1, <1>2 DEF TypeOK, Inserted, Taken

(* The step of a request that goes on to state. *)
LEMMA Updated ==
    ASSUME TypeOK, NEW r \in Request, NEW state \in RequestState,
           req' = [req EXCEPT ![r] = state]
    PROVE  /\ req' \in [Request -> RequestState]
           /\ req'[r] = state
           /\ \A q \in Request \ {r} : req'[q] = req[q]
  BY DEF TypeOK

(* What each action makes of the request that takes it. *)
Goes(r, state) == state \in RequestState /\ req' = [req EXCEPT ![r] = state]

LEMMA MarkedType == UnusedResets \in SUBSET Token
  BY DEF UnusedResets

(* The types of the variables a password is set in. *)
LEMMA PasswordTypes ==
    ASSUME TypeOK, NEW new \in Password, BecomesPassword(new)
    PROVE  /\ password' = new /\ password' # None
           /\ past' = <<new>> \o past /\ past' \in Seq(Password)
           /\ Len(past') = Len(past) + 1
           /\ Trim(<<new>> \o history) \in Seq(Password)
           /\ <<new>> \in Seq(Password)
<1>1. <<new>> \o history \in Seq(Password)
  BY PushedSequence DEF TypeOK
<1>2. past \in Seq(Password)
  BY DEF TypeOK
<1>3. /\ <<new>> \o past \in Seq(Password)
      /\ Len(<<new>> \o past) = Len(past) + 1
  BY <1>2, PushedSequence
<1>4. Trim(<<new>> \o history) \in Seq(Password)
  BY <1>1, TrimmedSequence
<1>5. new # None
  BY TokenAssumption
<1> QED
  BY <1>3, <1>4, <1>5 DEF BecomesPassword

-----------------------------------------------------------------------------
(* A step that writes no token leaves what the other requests know alone. *)

Quiet ==
    /\ UNCHANGED <<token, consumed, beside>>
    /\ contested \subseteq contested' /\ redeemed' \subseteq consumed

LEMMA QuietRequests ==
    ASSUME IInv, Quiet, NEW r \in Request, NEW state \in RequestState,
           req' = [req EXCEPT ![r] = state],
           RequestOK(r)', \A q \in Request \ {r} : PairOK(r, q)' /\ PairOK(q, r)',
           \A q \in Request \ {r} : Took(q) /\ req[q].token \in redeemed' =>
              req[q].token \in contested'
    PROVE  /\ \A q \in Request : RequestOK(q)'
           /\ \A q1, q2 \in Request : PairOK(q1, q2)'
           /\ \A t \in consumed' : Issued(t)' /\ token'[t].used
           /\ redeemed' \subseteq consumed'
           /\ LiveLinksWereIssuedTogether'
<1>1. \A q \in Request \ {r} : req'[q] = req[q]
  BY DEF IInv, TypeOK
<1>2. ASSUME NEW q \in Request \ {r} PROVE RequestOK(q)'
  <2>1. RequestOK(q) /\ req'[q] = req[q]
    BY <1>1 DEF IInv
  <2>2. UnusedResets' = UnusedResets /\ \A t \in Token : Issued(t)' = Issued(t)
    BY DEF Quiet, UnusedResets, Unused, Issued
  <2> QED
    BY <2>1, <2>2 DEF RequestOK, At, Took, Quiet
<1>3. ASSUME NEW q1 \in Request, NEW q2 \in Request PROVE PairOK(q1, q2)'
  <2>1. CASE q1 = r \/ q2 = r
    BY <2>1, <1>3 DEF PairOK
  <2>2. CASE q1 # r /\ q2 # r
    <3>1. req'[q1] = req[q1] /\ req'[q2] = req[q2] /\ PairOK(q1, q2)
      BY <2>2, <1>1 DEF IInv
    <3> QED
      BY <3>1 DEF PairOK, At, Took, Quiet
  <2> QED
    BY <2>1, <2>2
<1>4. LiveLinksWereIssuedTogether'
  BY DEF IInv, Quiet, LiveLinksWereIssuedTogether, UnusedResets, Unused, Issued
<1> QED
  BY <1>2, <1>3, <1>4 DEF IInv, Quiet, Issued

LEMMA QuietHistory ==
    ASSUME IInv, UNCHANGED passwordVars, NEW r \in Request, NEW state \in RequestState,
           \/ state.seen = 0 /\ state.pc # "set"
           \/ state.seen = Len(past) /\ ~RecentlyUsed(state.new),
           \A q \in Request \ {r} : /\ req'[q].pc = req[q].pc /\ req'[q].seen = req[q].seen
                                    /\ req'[q].new = req[q].new,
           req'[r] = state
    PROVE  HistoryOK' /\ RecentPasswordsAreRefused'
<1>1. Len(past) \in Nat /\ Newest(history, Limit) = Newest(past, Limit)
  BY TokenAssumption DEF IInv, TypeOK, HistoryOK
<1>2. UNCHANGED <<password, history, past>>
  BY DEF passwordVars
<1>3. \A q \in Request : req'[q].seen <= Len(past)
  BY <1>1 DEF IInv, HistoryOK
<1>4. HistoryOK'
  BY <1>2, <1>3 DEF IInv, HistoryOK
<1>5. ASSUME NEW q \in Request, req'[q].pc = "set", req'[q].seen = Len(past)
      PROVE  req'[q].new \notin Newest(past, Limit)
  BY <1>1, <1>5 DEF IInv, RecentPasswordsAreRefused, At, RecentlyUsed
<1>6. RecentPasswordsAreRefused'
  BY <1>2, <1>5 DEF RecentPasswordsAreRefused, At, Newest
<1> QED
  BY <1>4, <1>6

(* The two together, for a step that sets no password. *)
LEMMA QuietStep ==
    ASSUME IInv, Quiet, redeemed' = redeemed, contested' \subseteq Token,
           UNCHANGED passwordVars, mailed' \subseteq Token, isEmailVerified' \in BOOLEAN,
           NEW r \in Request, NEW state \in RequestState,
           req' = [req EXCEPT ![r] = state],
           \/ state.seen = 0 /\ state.pc # "set"
           \/ state.seen = Len(past) /\ ~RecentlyUsed(state.new),
           RequestOK(r)', \A q \in Request \ {r} : PairOK(r, q)' /\ PairOK(q, r)'
    PROVE  IInv'
<1>1. /\ req' \in [Request -> RequestState] /\ req'[r] = state
      /\ \A q \in Request \ {r} : req'[q] = req[q]
  BY DEF IInv, TypeOK
<1>2. TypeOK'
  BY <1>1 DEF IInv, TypeOK, Quiet, passwordVars
<1>3. \A q \in Request \ {r} : Took(q) /\ req[q].token \in redeemed' => req[q].token \in contested'
  BY DEF IInv, RequestOK, Quiet
<1>4. HistoryOK' /\ RecentPasswordsAreRefused'
  BY <1>1, QuietHistory
<1> QED
  BY <1>2, <1>3, <1>4, QuietRequests DEF IInv

LEMMA IdleOK ==
    ASSUME NEW r \in Request, req'[r].pc = "idle"
    PROVE  RequestOK(r)' /\ \A q \in Request \ {r} : PairOK(r, q)' /\ PairOK(q, r)'
  BY DEF RequestOK, PairOK, At, Took

LEMMA RegisterInv ==
    ASSUME IInv, NEW r \in Request, NEW new \in Password, Register(r, new) \/ ChangePassword(r, new)
    PROVE  IInv'
<1> DEFINE state(pc) == [Idle EXCEPT !.pc = pc, !.new = new]
<1>1. PICK pc \in {"register", "history"} : req' = [req EXCEPT ![r] = state(pc)]
  BY DEF Register, ChangePassword
<1>2. /\ state(pc) \in RequestState /\ state(pc).pc = pc /\ state(pc).token = None
      /\ state(pc).seen = 0 /\ state(pc).new = new
  BY DEF Idle, RequestState, PC
<1> HIDE DEF state
<1>3. req'[r] = state(pc)
  BY <1>1, <1>2 DEF IInv, TypeOK
<1>4. RequestOK(r)' /\ \A q \in Request \ {r} : PairOK(r, q)' /\ PairOK(q, r)'
  BY <1>2, <1>3 DEF RequestOK, PairOK, At, Took
<1>5. /\ Quiet /\ redeemed' = redeemed /\ contested' \subseteq Token
      /\ UNCHANGED passwordVars /\ mailed' \subseteq Token /\ isEmailVerified' \in BOOLEAN
  BY DEF Register, ChangePassword, IInv, TypeOK, Quiet, tokenVars, ghostVars
<1>6. state(pc).pc # "set"
  BY <1>2
<1> QED
  BY <1>1, <1>2, <1>4, <1>5, <1>6, QuietStep

LEMMA RequestResetInv ==
    ASSUME IInv, NEW r \in Request, RequestPasswordReset(r)
    PROVE  IInv'
<1> DEFINE state == [Idle EXCEPT !.pc = "issue", !.marked = UnusedResets]
<1>1. req' = [req EXCEPT ![r] = state]
  BY DEF RequestPasswordReset
<1>2. /\ state \in RequestState /\ state.pc = "issue" /\ state.token = None
      /\ state.seen = 0 /\ state.marked = UnusedResets
  BY MarkedType DEF Idle, RequestState, PC
<1> HIDE DEF state
<1>3. req'[r] = state
  BY <1>1, <1>2 DEF IInv, TypeOK
<1>4. /\ Quiet /\ redeemed' = redeemed /\ contested' \subseteq Token
      /\ UNCHANGED passwordVars /\ mailed' \subseteq Token /\ isEmailVerified' \in BOOLEAN
  BY DEF RequestPasswordReset, IInv, TypeOK, Quiet, tokenVars, ghostVars
<1>5. UnusedResets' = UnusedResets
  BY <1>4 DEF Quiet, UnusedResets, Unused, Issued
<1>6. RequestOK(r)' /\ \A q \in Request \ {r} : PairOK(r, q)' /\ PairOK(q, r)'
  BY <1>2, <1>3, <1>5 DEF RequestOK, PairOK, At, Took
<1> QED
  BY <1>1, <1>2, <1>4, <1>6, QuietStep

LEMMA LeavingInv ==
    ASSUME IInv, NEW r \in Request, Mail(r) \/ Die(r)
    PROVE  IInv'
<1>1. req' = [req EXCEPT ![r] = Idle] /\ req'[r] = Idle
  BY DEF Mail, Die, Leave, IInv, TypeOK
<1>2. /\ Quiet /\ redeemed' = redeemed /\ contested' \subseteq Token
      /\ UNCHANGED passwordVars /\ isEmailVerified' \in BOOLEAN
  BY DEF Mail, Die, IInv, TypeOK, Quiet, tokenVars, ghostVars
<1>3. mailed' \subseteq Token
  BY DEF Mail, Die, IInv, TypeOK, RequestOK, At, tokenVars
<1> QED
  BY <1>1, <1>2, <1>3, IdleType, IdleOK, QuietStep

LEMMA FindInv ==
    ASSUME IInv, NEW r \in Request, NEW t \in Token,
           FindVerification(r, t) \/ \E new \in Password : FindReset(r, t, new)
    PROVE  IInv'
<1>1. PICK purpose \in Purpose, pc \in {"verify", "take"}, new \in Password \cup {None} :
        /\ Find(r, t, purpose, pc, new)
        /\ pc = "take" => purpose = "reset" /\ new \in Password
        /\ pc = "verify" => purpose = "verify"
  BY DEF FindVerification, FindReset, Purpose
<1> DEFINE state == [Idle EXCEPT !.pc = pc, !.token = t, !.new = new]
<1>2. req' = [req EXCEPT ![r] = state]
  BY <1>1 DEF Find
<1>3. /\ state \in RequestState /\ state.pc = pc /\ state.token = t
      /\ state.seen = 0 /\ state.new = new
  BY DEF Idle, RequestState, PC
<1> HIDE DEF state
<1>4. req'[r] = state /\ \A q \in Request \ {r} : req'[q] = req[q]
  BY <1>2, <1>3 DEF IInv, TypeOK
<1>5. /\ Quiet /\ redeemed' = redeemed /\ contested' \subseteq Token
      /\ UNCHANGED passwordVars /\ mailed' \subseteq Token /\ isEmailVerified' \in BOOLEAN
  BY <1>1 DEF Find, IInv, TypeOK, Quiet, tokenVars
<1>6. Issued(t) /\ ~token[t].used /\ token[t].purpose = purpose /\ t \notin consumed
  BY <1>1 DEF Find, Valid, Unused, IInv
<1>7. RequestOK(r)'
  BY <1>1, <1>3, <1>4, <1>5, <1>6 DEF RequestOK, At, Took, Issued, Quiet
<1>8. ASSUME NEW q \in Request \ {r} PROVE PairOK(r, q)' /\ PairOK(q, r)'
  <2>1. CASE At(q, pc) /\ req[q].token = t
    BY <1>1, <1>3, <1>4, <2>1 DEF Find, PairOK
  <2>2. CASE ~(At(q, pc) /\ req[q].token = t)
    BY <1>1, <1>3, <1>4, <2>2 DEF PairOK, At, Took
  <2> QED
    BY <2>1, <2>2
<1>9. state.pc # "set"
  BY <1>3
<1> QED
  BY <1>2, <1>3, <1>5, <1>7, <1>8, <1>9, QuietStep

LEMMA EnsureInv ==
    ASSUME IInv, NEW r \in Request, EnsureNotRecentlyUsed(r)
    PROVE  IInv'
<1>1. /\ Quiet /\ redeemed' = redeemed /\ contested' \subseteq Token
      /\ UNCHANGED passwordVars /\ mailed' \subseteq Token /\ isEmailVerified' \in BOOLEAN
  BY DEF EnsureNotRecentlyUsed, IInv, TypeOK, Quiet, tokenVars, ghostVars
<1>2. CASE RecentlyUsed(req[r].new)
  <2>1. req' = [req EXCEPT ![r] = Idle] /\ req'[r] = Idle
    BY <1>2 DEF EnsureNotRecentlyUsed, IInv, TypeOK
  <2> QED
    BY <1>1, <2>1, IdleType, IdleOK, QuietStep
<1>3. CASE ~RecentlyUsed(req[r].new)
  <2> DEFINE state == [req[r] EXCEPT !.pc = "set", !.seen = Len(past)]
  <2>1. req' = [req EXCEPT ![r] = state]
    BY <1>3 DEF EnsureNotRecentlyUsed
  <2>2. /\ state \in RequestState /\ state.pc = "set" /\ state.token = req[r].token
        /\ state.seen = Len(past) /\ state.new = req[r].new
    <3>1. req[r] \in RequestState /\ Len(past) \in Nat
      BY DEF IInv, TypeOK
    <3> QED
      BY <3>1 DEF RequestState, PC
  <2> HIDE DEF state
  <2>3. req'[r] = state /\ \A q \in Request \ {r} : req'[q] = req[q]
    BY <2>1, <2>2 DEF IInv, TypeOK
  <2>4. Took(r)' = Took(r) /\ At(r, "history") /\ RequestOK(r)
    BY <2>2, <2>3 DEF EnsureNotRecentlyUsed, Took, At, IInv
  <2>5. RequestOK(r)'
    BY <2>2, <2>3, <2>4, <1>1 DEF RequestOK, At, Quiet
  <2>6. ASSUME NEW q \in Request \ {r} PROVE PairOK(r, q)' /\ PairOK(q, r)'
    <3>1. PairOK(r, q) /\ PairOK(q, r) /\ Took(q)' = Took(q)
      BY <2>3 DEF IInv, Took
    <3> QED
      BY <1>1, <2>2, <2>3, <2>4, <3>1 DEF PairOK, At, Quiet
  <2> QED
    BY <1>1, <1>3, <2>1, <2>2, <2>5, <2>6, QuietStep
<1> QED
  BY <1>2, <1>3

-----------------------------------------------------------------------------
(* The steps that write tokens keep what is known of them. *)

Kept == \A x \in Token : Issued(x) =>
            /\ Issued(x)' /\ token'[x].purpose = token[x].purpose
            /\ token[x].used => token'[x].used

LEMMA TakenKeeps ==
    ASSUME TypeOK, NEW t \in Token, Issued(t), token' = Taken(t)
    PROVE  Kept /\ token'[t].used /\ UnusedResets' \subseteq UnusedResets /\ t \notin UnusedResets'
<1>1. /\ token' = [token EXCEPT ![t] = [token[t] EXCEPT !.used = TRUE]]
      /\ token[t] \in Row /\ [token[t] EXCEPT !.used = TRUE] \in Row
  BY RowsType DEF Taken, Row
<1>2. /\ token'[t] # None /\ token'[t].used /\ token'[t].purpose = token[t].purpose
      /\ \A x \in Token \ {t} : token'[x] = token[x]
  BY <1>1, RowAssumption, ZenonT(60) DEF TypeOK, Row
<1> QED
  BY <1>2 DEF Kept, UnusedResets, Unused, Issued

LEMMA InsertedKeeps ==
    ASSUME TypeOK, NEW t \in Token, ~Issued(t), NEW purpose \in Purpose,
           NEW marked \in SUBSET Token, token' = Inserted(t, purpose, marked)
    PROVE  /\ Kept /\ Issued(t)' /\ token'[t].purpose = purpose
           /\ UnusedResets' \subseteq
                 (UnusedResets \ marked) \cup (IF purpose = "reset" THEN {t} ELSE {})
           /\ purpose = "reset" => t \in UnusedResets'
<1>1. /\ token'[t] = [purpose |-> purpose, used |-> FALSE, expired |-> FALSE]
      /\ \A x \in Token \ {t} : token'[x] =
            IF x \in marked /\ Issued(x) THEN [token[x] EXCEPT !.used = TRUE] ELSE token[x]
  BY DEF Inserted
<1>2. token'[t] \in Row
  BY <1>1 DEF Row
<1>3. ASSUME NEW x \in Token \ {t}, x \in marked, Issued(x)
      PROVE  token'[x] # None /\ token'[x].purpose = token[x].purpose /\ token'[x].used
  <2>1. token[x] \in Row
    BY <1>3 DEF TypeOK, Issued
  <2>2. [token[x] EXCEPT !.used = TRUE] \in Row
    BY <2>1 DEF Row
  <2> QED
    BY <1>1, <1>3, <2>1, <2>2, RowAssumption DEF Row
<1>4. ASSUME NEW x \in Token \ {t}, ~(x \in marked /\ Issued(x)) PROVE token'[x] = token[x]
  BY <1>1, <1>4
<1>5. Kept
  BY <1>3, <1>4 DEF Kept, Issued
<1>6. UnusedResets' \subseteq
                 (UnusedResets \ marked) \cup (IF purpose = "reset" THEN {t} ELSE {})
  BY <1>1, <1>3, <1>4 DEF UnusedResets, Unused, Issued
<1>7. token'[t] # None /\ ~token'[t].used /\ token'[t].purpose = purpose
  <2>1. token'[t] # None
    BY <1>2, RowAssumption
  <2>2. ~token'[t].used /\ token'[t].purpose = purpose
    BY <1>1
  <2> QED
    BY <2>1, <2>2
<1> QED
  BY <1>5, <1>6, <1>7 DEF UnusedResets, Unused, Issued

(* What a request that does not move still knows. *)
LEMMA OtherOK ==
    ASSUME IInv, NEW q \in Request, Kept, consumed \subseteq consumed',
           UNCHANGED <<redeemed, contested>>,
           /\ req'[q].pc = req[q].pc /\ req'[q].token = req[q].token
           /\ req'[q].new = req[q].new,
           At(q, "take") /\ req[q].token \in consumed' => req[q].token \in contested,
           At(q, "issue") => UnusedResets' \subseteq req'[q].marked \cup req'[q].beside
    PROVE  RequestOK(q)'
<1>1. RequestOK(q)
  BY DEF IInv
<1>2. req[q].pc \in {"mail", "verify", "take"} =>
        /\ Issued(req[q].token)' 
        /\ token'[req[q].token].purpose = token[req[q].token].purpose
  BY <1>1 DEF RequestOK, Kept
<1> QED
  BY <1>1, <1>2 DEF RequestOK, At, Took

LEMMA TakeInv ==
    ASSUME IInv, NEW r \in Request, VerifyEmail(r) \/ TakeReset(r)
    PROVE  IInv'
<1> DEFINE t == req[r].token
<1>1. RequestOK(r) /\ t \in Token /\ Issued(t)
  BY DEF VerifyEmail, TakeReset, At, IInv, RequestOK
<1>2. /\ token' = Taken(t) /\ consumed' = consumed \cup {t}
      /\ UNCHANGED <<mailed, passwordVars, redeemed, contested, beside>>
  BY DEF VerifyEmail, TakeReset, Take
<1>3. Kept /\ token'[t].used /\ UnusedResets' \subseteq UnusedResets
  BY <1>1, <1>2, TakenKeeps DEF IInv
<1>4. PICK state \in RequestState :
        /\ req' = [req EXCEPT ![r] = state]
        /\ state.seen = 0 \/ state.seen = req[r].seen
        /\ \/ state = Idle /\ At(r, "verify")
           \/ /\ state.pc = "history" /\ state.token = t /\ state.new = req[r].new
              /\ At(r, "take")
  <2>1. CASE VerifyEmail(r)
    BY <2>1, IdleType DEF VerifyEmail, Leave
  <2>2. CASE TakeReset(r)
    <3> DEFINE state == [req[r] EXCEPT !.pc = "history"]
    <3>1. req[r] \in RequestState
      BY DEF IInv, TypeOK
    <3>2. /\ state \in RequestState /\ state.pc = "history" /\ state.token = t
          /\ state.new = req[r].new /\ state.seen = req[r].seen
      BY <3>1 DEF RequestState, PC
    <3> QED
      BY <2>2, <3>2 DEF TakeReset
  <2> QED
    BY <2>1, <2>2
<1>5. req'[r] = state /\ \A q \in Request \ {r} : req'[q] = req[q]
  BY <1>4 DEF IInv, TypeOK
<1>6. TypeOK'
  <2>1. token' \in [Token -> {None} \cup Row] /\ req' \in [Request -> RequestState]
    BY <1>1, <1>2, <1>4, RowsType DEF IInv, TypeOK
  <2>2. isEmailVerified' \in BOOLEAN
    BY DEF VerifyEmail, TakeReset, IInv, TypeOK
  <2> QED
    BY <1>1, <1>2, <2>1, <2>2 DEF IInv, TypeOK, passwordVars
<1>7. \A x \in consumed' : Issued(x)' /\ token'[x].used
  BY <1>1, <1>2, <1>3 DEF IInv, TypeOK, Kept
<1>8. redeemed' \subseteq consumed'
  BY <1>2 DEF IInv
<1>9. ASSUME NEW q \in Request PROVE RequestOK(q)'
  <2>1. CASE q = r
    BY <1>1, <1>2, <1>4, <1>5, <2>1, IdleType DEF RequestOK, At, Took, IInv
  <2>2. CASE q # r
    <3>1. RequestOK(q) /\ PairOK(r, q) /\ req'[q] = req[q]
      BY <1>5, <2>2 DEF IInv
    <3>2. At(q, "take") /\ req[q].token \in consumed' => req[q].token \in contested
      BY <1>1, <1>2, <1>4, <2>2, <3>1 DEF RequestOK, PairOK, At
    <3>3. At(q, "issue") => UnusedResets' \subseteq req'[q].marked \cup req'[q].beside
      BY <1>3, <3>1 DEF RequestOK
    <3> QED
      BY <1>2, <1>3, <3>1, <3>2, <3>3, OtherOK
  <2> QED
    BY <2>1, <2>2
<1>10. ASSUME NEW q1 \in Request, NEW q2 \in Request PROVE PairOK(q1, q2)'
  <2>1. CASE q1 # r /\ q2 # r
    <3>1. req'[q1] = req[q1] /\ req'[q2] = req[q2] /\ PairOK(q1, q2)
      BY <2>1, <1>5 DEF IInv
    <3> QED
      BY <1>2, <3>1 DEF PairOK, At, Took
  <2>2. CASE q1 = r \/ q2 = r
    <3>1. ASSUME NEW q \in Request \ {r}, Took(q), req[q].token = t, At(r, "take")
          PROVE  t \in contested
      BY <3>1, <1>1 DEF IInv, RequestOK
    <3> QED
      BY <1>2, <1>4, <1>5, <2>2, <3>1, IdleType DEF PairOK, At, Took
  <2> QED
    BY <2>1, <2>2
<1>11. HistoryOK' /\ RecentPasswordsAreRefused'
  <2>1. \A q \in Request : /\ req'[q].seen <= Len(past)
                           /\ req'[q].pc = "set" => req'[q] = req[q]
    BY <1>4, <1>5, IdleType DEF IInv, HistoryOK, TypeOK
  <2> QED
    BY <1>2, <2>1 DEF IInv, HistoryOK, RecentPasswordsAreRefused, At, passwordVars
<1>12. LiveLinksWereIssuedTogether'
  BY <1>2, <1>3 DEF IInv, LiveLinksWereIssuedTogether
<1> QED
  BY <1>6, <1>7, <1>8, <1>9, <1>10, <1>11, <1>12 DEF IInv

(* A link that is new and those issued beside it. *)
LEMMA IssueInv ==
    ASSUME IInv, NEW r \in Request, NEW t \in Token, Issue(r, t)
    PROVE  IInv'
<1> DEFINE state == [Idle EXCEPT !.pc = "mail", !.token = t]
           others == [q \in Request |-> [req[q] EXCEPT !.beside = req[q].beside \cup {t}]]
<1>1. /\ ~Issued(t) /\ token' = Inserted(t, "reset", req[r].marked)
      /\ beside' = [beside EXCEPT ![t] = req[r].beside] /\ At(r, "issue")
      /\ UNCHANGED <<mailed, isEmailVerified, passwordVars, consumed, redeemed, contested>>
  BY DEF Issue
<1>2. req[r] \in RequestState /\ req[r].marked \in SUBSET Token /\ req[r].beside \in SUBSET Token
  BY DEF IInv, TypeOK, RequestState
<1>3. /\ Kept /\ Issued(t)'
      /\ UnusedResets' \subseteq (UnusedResets \ req[r].marked) \cup {t}
  BY <1>1, <1>2, InsertedKeeps DEF IInv, Purpose
<1>4. UnusedResets' \subseteq req[r].beside \cup {t}
  BY <1>1, <1>3 DEF IInv, RequestOK
<1>5. /\ state \in RequestState /\ state.pc = "mail" /\ state.token = t /\ state.seen = 0
  BY DEF Idle, RequestState, PC
<1>6. ASSUME NEW q \in Request
      PROVE  /\ others[q] \in RequestState /\ others[q].pc = req[q].pc
             /\ others[q].token = req[q].token /\ others[q].new = req[q].new
             /\ others[q].seen = req[q].seen /\ others[q].marked = req[q].marked
             /\ others[q].beside = req[q].beside \cup {t}
  <2>1. req[q] \in RequestState
    BY DEF IInv, TypeOK
  <2> QED
    BY <2>1 DEF RequestState
<1> HIDE DEF state, others
<1>7. /\ req'[r] = state
      /\ \A q \in Request \ {r} : req'[q] = IF At(q, "issue") THEN others[q] ELSE req[q]
      /\ req' \in [Request -> RequestState]
  <2>1. req' = [x \in Request |-> IF x = r THEN state
                                 ELSE IF At(x, "issue") THEN others[x] ELSE req[x]]
    BY DEF Issue, state, others
  <2> QED
    BY <2>1, <1>5, <1>6 DEF IInv, TypeOK
<1>8. ASSUME NEW q \in Request \ {r}
      PROVE  /\ req'[q].pc = req[q].pc /\ req'[q].token = req[q].token
             /\ req'[q].new = req[q].new /\ req'[q].seen = req[q].seen
             /\ At(q, "issue") =>
                   req'[q].marked = req[q].marked /\ req'[q].beside = req[q].beside \cup {t}
  BY <1>6, <1>7
<1>9. TypeOK'
  <2>1. token' \in [Token -> {None} \cup Row]
    BY <1>1, <1>2, RowsType DEF IInv, Purpose
  <2>2. beside' \in [Token -> SUBSET Token]
    BY <1>1, <1>2 DEF IInv, TypeOK
  <2> QED
    BY <1>1, <1>7, <2>1, <2>2 DEF IInv, TypeOK, passwordVars
<1>10. \A x \in consumed' : Issued(x)' /\ token'[x].used
  BY <1>1, <1>3 DEF IInv, TypeOK, Kept
<1>11. ASSUME NEW q \in Request PROVE RequestOK(q)'
  <2>1. CASE q = r
    BY <1>3, <1>5, <1>7, <2>1 DEF RequestOK, At, Took
  <2>2. CASE q # r
    <3>1. RequestOK(q)
      BY DEF IInv
    <3>2. At(q, "issue") => UnusedResets' \subseteq req'[q].marked \cup req'[q].beside
      BY <1>3, <1>8, <2>2, <3>1 DEF RequestOK
    <3> QED
      BY <1>1, <1>3, <1>8, <2>2, <3>1, <3>2, OtherOK DEF RequestOK
  <2> QED
    BY <2>1, <2>2
<1>12. ASSUME NEW q1 \in Request, NEW q2 \in Request PROVE PairOK(q1, q2)'
  <2>1. CASE q1 # r /\ q2 # r
    <3>1. PairOK(q1, q2)
      BY DEF IInv
    <3> QED
      BY <1>1, <1>8, <2>1, <3>1 DEF PairOK, At, Took
  <2>2. CASE q1 = r \/ q2 = r
    BY <1>5, <1>7, <2>2 DEF PairOK, At, Took
  <2> QED
    BY <2>1, <2>2
<1>13. HistoryOK' /\ RecentPasswordsAreRefused'
  <2>1. state.pc # "set"
    BY <1>5
  <2> QED
    BY <1>1, <1>5, <1>7, <1>8, <2>1, QuietHistory
<1>14. LiveLinksWereIssuedTogether'
  <2> SUFFICES ASSUME NEW t1 \in UnusedResets', NEW t2 \in UnusedResets', t1 # t2
               PROVE  t1 \in beside'[t2] \/ t2 \in beside'[t1]
    BY DEF LiveLinksWereIssuedTogether
  <2>1. t1 \in Token /\ t2 \in Token /\ beside'[t] = req[r].beside
    BY <1>1 DEF UnusedResets, IInv, TypeOK
  <2>2. CASE t1 = t \/ t2 = t
    BY <1>4, <2>1, <2>2
  <2>3. CASE t1 # t /\ t2 # t
    <3>1. t1 \in UnusedResets /\ t2 \in UnusedResets
      BY <1>3, <2>3
    <3>2. beside'[t1] = beside[t1] /\ beside'[t2] = beside[t2]
      BY <1>1, <2>1, <2>3 DEF IInv, TypeOK
    <3> QED
      BY <3>1, <3>2 DEF IInv, LiveLinksWereIssuedTogether
  <2> QED
    BY <2>2, <2>3
<1> QED
  BY <1>1, <1>9, <1>10, <1>11, <1>12, <1>13, <1>14 DEF IInv

(* The first password of the user, and a token to verify the address. *)
LEMMA CreateUserInv ==
    ASSUME IInv, NEW r \in Request, NEW t \in Token, CreateUser(r, t)
    PROVE  IInv'
<1> DEFINE state == [Idle EXCEPT !.pc = "mail", !.token = t]
           new == req[r].new
<1>1. /\ ~Issued(t) /\ password = None /\ At(r, "register") /\ BecomesPassword(new)
      /\ history' = <<new>> /\ token' = Inserted(t, "verify", {})
      /\ req' = [req EXCEPT ![r] = state]
      /\ UNCHANGED <<mailed, isEmailVerified, ghostVars>>
  BY DEF CreateUser
<1>2. new \in Password /\ history = <<>> /\ past = <<>>
  BY <1>1 DEF IInv, RequestOK, HistoryOK, At
<1>3. Kept /\ Issued(t)' /\ UnusedResets' \subseteq UnusedResets
  BY <1>1, InsertedKeeps DEF IInv, Purpose
<1>4. /\ state \in RequestState /\ state.pc = "mail" /\ state.token = t /\ state.seen = 0
  BY DEF Idle, RequestState, PC
<1> HIDE DEF state
<1>5. /\ req'[r] = state /\ req' \in [Request -> RequestState]
      /\ \A q \in Request \ {r} : req'[q] = req[q]
  BY <1>1, <1>4 DEF IInv, TypeOK
<1>6. /\ password' = new /\ password' # None /\ past' \in Seq(Password)
      /\ past' = <<new>> \o past /\ Len(past') = Len(past) + 1 /\ <<new>> \in Seq(Password)
  BY <1>1, <1>2, PasswordTypes DEF IInv
<1>7. TypeOK'
  <2>1. token' \in [Token -> {None} \cup Row]
    BY <1>1, RowsType DEF IInv, Purpose
  <2> QED
    BY <1>1, <1>2, <1>5, <1>6, <2>1 DEF IInv, TypeOK, ghostVars
<1>8. \A x \in consumed' : Issued(x)' /\ token'[x].used
  BY <1>1, <1>3 DEF IInv, TypeOK, Kept, ghostVars
<1>9. ASSUME NEW q \in Request PROVE RequestOK(q)'
  <2>1. CASE q = r
    BY <1>3, <1>4, <1>5, <2>1 DEF RequestOK, At, Took
  <2>2. CASE q # r
    <3>1. RequestOK(q) /\ req'[q] = req[q]
      BY <1>5, <2>2 DEF IInv
    <3>2. At(q, "issue") => UnusedResets' \subseteq req'[q].marked \cup req'[q].beside
      BY <1>3, <3>1 DEF RequestOK
    <3> QED
      BY <1>1, <1>3, <3>1, <3>2, OtherOK DEF RequestOK, ghostVars
  <2> QED
    BY <2>1, <2>2
<1>10. ASSUME NEW q1 \in Request, NEW q2 \in Request PROVE PairOK(q1, q2)'
  <2>1. CASE q1 # r /\ q2 # r
    <3>1. req'[q1] = req[q1] /\ req'[q2] = req[q2] /\ PairOK(q1, q2)
      BY <2>1, <1>5 DEF IInv
    <3> QED
      BY <1>1, <3>1 DEF PairOK, At, Took, ghostVars
  <2>2. CASE q1 = r \/ q2 = r
    BY <1>4, <1>5, <2>2 DEF PairOK, At, Took
  <2> QED
    BY <2>1, <2>2
<1>11. HistoryOK' /\ RecentPasswordsAreRefused'
  <2>1. <<new>> \o past = <<new>>
    BY <1>2
  <2>2. \A q \in Request : req'[q].seen <= Len(past) /\ Len(past) = 0
    BY <1>2, <1>4, <1>5 DEF IInv, HistoryOK
  <2>3. \A q \in Request : req'[q].seen \in Nat /\ req'[q].seen <= Len(past') /\ req'[q].seen # Len(past')
    BY <1>5, <1>6, <2>2 DEF RequestState
  <2> QED
    BY <1>1, <1>6, <2>1, <2>3 DEF HistoryOK, RecentPasswordsAreRefused
<1>12. LiveLinksWereIssuedTogether'
  BY <1>1, <1>3 DEF IInv, LiveLinksWereIssuedTogether, ghostVars
<1> QED
  BY <1>1, <1>7, <1>8, <1>9, <1>10, <1>11, <1>12 DEF IInv, ghostVars

LEMMA ExpireInv == ASSUME IInv, NEW t \in Token, Expire(t) PROVE IInv'
<1>1. /\ Unused(t) /\ token' = [token EXCEPT ![t] = [token[t] EXCEPT !.expired = TRUE]]
      /\ UNCHANGED <<mailed, isEmailVerified, passwordVars, req, ghostVars>>
  BY DEF Expire
<1>2. token[t] \in Row /\ [token[t] EXCEPT !.expired = TRUE] \in Row
  BY <1>1 DEF IInv, TypeOK, Row, Unused, Issued
<1>3. /\ token'[t] # None /\ token'[t].used = token[t].used
      /\ token'[t].purpose = token[t].purpose
      /\ \A x \in Token \ {t} : token'[x] = token[x]
  BY <1>1, <1>2, RowAssumption DEF IInv, TypeOK, Row
<1>4. Kept /\ UnusedResets' = UnusedResets
  BY <1>1, <1>3 DEF Kept, UnusedResets, Unused, Issued
<1>5. TypeOK'
  BY <1>1, <1>2 DEF IInv, TypeOK, passwordVars, ghostVars
<1>6. \A x \in consumed' : Issued(x)' /\ token'[x].used
  BY <1>1, <1>4 DEF IInv, TypeOK, Kept, ghostVars
<1>7. ASSUME NEW q \in Request PROVE RequestOK(q)'
  <2>1. RequestOK(q) /\ req'[q] = req[q]
    BY <1>1 DEF IInv
  <2> QED
    BY <1>1, <1>4, <2>1, OtherOK DEF RequestOK, ghostVars
<1>8. ASSUME NEW q1 \in Request, NEW q2 \in Request PROVE PairOK(q1, q2)'
  BY <1>1 DEF IInv, PairOK, At, Took, ghostVars
<1>9. HistoryOK' /\ RecentPasswordsAreRefused'
  BY <1>1 DEF IInv, HistoryOK, RecentPasswordsAreRefused, At, passwordVars
<1>10. LiveLinksWereIssuedTogether'
  BY <1>1, <1>4 DEF IInv, LiveLinksWereIssuedTogether, ghostVars
<1> QED
  BY <1>1, <1>5, <1>6, <1>7, <1>8, <1>9, <1>10 DEF IInv, ghostVars

LEMMA SetPasswordInv == ASSUME IInv, NEW r \in Request, SetPassword(r) PROVE IInv'
<1> DEFINE new == req[r].new
           pushed == <<new>> \o history
<1>1. /\ At(r, "set") /\ BecomesPassword(new) /\ history' = Trim(pushed)
      /\ redeemed' = redeemed \cup ({req[r].token} \ {None})
      /\ req' = [req EXCEPT ![r] = Idle]
      /\ UNCHANGED <<tokenVars, consumed, contested, beside>>
  BY DEF SetPassword, Leave
<1>2. RequestOK(r) /\ new \in Password
  BY <1>1 DEF IInv, RequestOK, At
<1>3. /\ password' = new /\ password' # None /\ past' \in Seq(Password)
      /\ past' = <<new>> \o past /\ Len(past') = Len(past) + 1
      /\ history' \in Seq(Password)
  BY <1>1, <1>2, PasswordTypes DEF IInv
<1>4. /\ req'[r] = Idle /\ req' \in [Request -> RequestState]
      /\ \A q \in Request \ {r} : req'[q] = req[q]
  BY <1>1, IdleType DEF IInv, TypeOK
<1>5. redeemed' \subseteq consumed
  BY <1>1, <1>2 DEF IInv, RequestOK, Took, At
<1>6. Quiet
  BY <1>1, <1>5 DEF Quiet, tokenVars
<1>7. TypeOK'
  BY <1>1, <1>3, <1>4, <1>5 DEF IInv, TypeOK, tokenVars
<1>8. ASSUME NEW q \in Request \ {r}, Took(q), req[q].token \in redeemed'
      PROVE  req[q].token \in contested'
  <2>1. CASE req[q].token \in redeemed
    BY <1>1, <1>8, <2>1 DEF IInv, RequestOK
  <2>2. CASE req[q].token \notin redeemed
    <3>1. req[q].token = req[r].token /\ Took(r) /\ PairOK(q, r)
      BY <1>1, <1>8, <2>2 DEF IInv, Took, At
    <3> QED
      BY <1>1, <1>8, <3>1 DEF PairOK
  <2> QED
    BY <2>1, <2>2
<1>9. /\ \A q \in Request : RequestOK(q)'
      /\ \A q1, q2 \in Request : PairOK(q1, q2)'
      /\ \A t \in consumed' : Issued(t)' /\ token'[t].used
      /\ redeemed' \subseteq consumed'
      /\ LiveLinksWereIssuedTogether'
  BY <1>1, <1>4, <1>6, <1>8, IdleType, IdleOK, QuietRequests
<1>10. \A k \in 0..Limit : Newest(history', k) = Newest(past', k)
  BY <1>1, <1>2, <1>3, PushedAlike DEF IInv, HistoryOK
<1>11. \A q \in Request : req'[q].seen <= Len(past') /\ req'[q].seen # Len(past')
  <2>1. Len(past) \in Nat /\ \A q \in Request : req'[q].seen \in Nat /\ req'[q].seen <= Len(past)
    BY <1>4, IdleType DEF IInv, TypeOK, HistoryOK, RequestState
  <2> QED
    BY <1>3, <2>1
<1>12. HistoryOK' /\ RecentPasswordsAreRefused'
  BY <1>3, <1>10, <1>11 DEF HistoryOK, RecentPasswordsAreRefused
<1> QED
  BY <1>7, <1>9, <1>12 DEF IInv

-----------------------------------------------------------------------------
(* The invariant. *)

LEMMA InitInv == Init => IInv
<1> SUFFICES ASSUME Init PROVE IInv
  OBVIOUS
<1>0. <<>> \in Seq(Password)
  OBVIOUS
<1>1. TypeOK /\ \A r \in Request : req[r] = Idle
  BY <1>0, IdleType DEF Init, TypeOK
<1>2. ~(\E t \in Token : Issued(t)) /\ UnusedResets = {}
  BY DEF Init, Issued, UnusedResets, Unused
<1>3. HistoryOK
  BY <1>1, IdleType DEF Init, HistoryOK
<1>4. /\ \A r \in Request : RequestOK(r) /\ req[r].pc = "idle"
      /\ \A r, q \in Request : PairOK(r, q)
  BY <1>1, <1>2, IdleType DEF RequestOK, PairOK, At, Took
<1> QED
  BY <1>1, <1>2, <1>3, <1>4
     DEF Init, IInv, LiveLinksWereIssuedTogether, RecentPasswordsAreRefused, At

LEMMA NextInv == IInv /\ [Next]_vars => IInv'
<1> SUFFICES ASSUME IInv, [Next]_vars PROVE IInv'
  OBVIOUS
<1>1. CASE UNCHANGED vars
  <2> USE <1>1 DEF vars, tokenVars, passwordVars, ghostVars
  <2>1. TypeOK' /\ HistoryOK'
    BY DEF IInv, TypeOK, HistoryOK
  <2>2. UnusedResets' = UnusedResets /\ \A t \in Token : Issued(t)' = Issued(t)
    BY DEF UnusedResets, Unused, Issued
  <2>3. \A r \in Request : RequestOK(r)'
    BY <2>2 DEF IInv, RequestOK, At, Took, Issued
  <2>4. \A r, q \in Request : PairOK(r, q)'
    BY DEF IInv, PairOK, At, Took
  <2>5. LiveLinksWereIssuedTogether' /\ RecentPasswordsAreRefused'
    BY <2>2 DEF IInv, LiveLinksWereIssuedTogether, RecentPasswordsAreRefused, At
  <2>6. \A t \in consumed' : Issued(t)' /\ token'[t].used
    BY DEF IInv, Issued
  <2> QED
    BY <2>1, <2>3, <2>4, <2>5, <2>6 DEF IInv
<1>2. CASE \E t \in Token : Expire(t)
  BY <1>2, ExpireInv
<1>3. ASSUME NEW r \in Request, RequestArrives(r) PROVE IInv'
  BY <1>3, RegisterInv, RequestResetInv, FindInv DEF RequestArrives
<1>4. ASSUME NEW r \in Request, Step(r) PROVE IInv'
  BY <1>4, CreateUserInv, IssueInv, LeavingInv, TakeInv, EnsureInv, SetPasswordInv DEF Step
<1>5. ASSUME NEW r \in Request, Die(r) PROVE IInv'
  BY <1>5, LeavingInv
<1> QED
  BY <1>1, <1>2, <1>3, <1>4, <1>5 DEF Next

(* IInv of OneTimeTokens holds in every reachable state. *)
THEOREM Inductive == Spec => []IInv
  BY InitInv, NextInv, PTL DEF Spec

(* Every variable stays in its type. *)
THEOREM TypeCorrect == Spec => []TypeOK
<1>1. IInv => TypeOK
  BY DEF IInv
<1> QED
  BY <1>1, Inductive, PTL

(* consumePasswordResetToken: one link, one password, but for a race. *)
THEOREM OnePasswordPerLink == Spec => []LinkSetsOnePassword
<1>1. IInv => LinkSetsOnePassword
  <2> SUFFICES ASSUME IInv, NEW r \in Request, At(r, "set"), req[r].token \in redeemed
               PROVE  req[r].token \in contested
    BY DEF LinkSetsOnePassword
  <2>1. Took(r)
    BY TokenAssumption DEF Took, At, IInv, TypeOK
  <2> QED
    BY <2>1 DEF IInv, RequestOK
<1> QED
  BY <1>1, Inductive, PTL

(* issuePasswordResetToken: a new link ends the ones before it. *)
THEOREM NewLinkEndsOthers == Spec => []LiveLinksWereIssuedTogether
<1>1. IInv => LiveLinksWereIssuedTogether
  BY DEF IInv
<1> QED
  BY <1>1, Inductive, PTL

(* ensureNotRecentlyUsed with trimPasswordHistory: the last Limit passwords *)
(* are refused, but for a race.                                             *)
THEOREM RecentRefused == Spec => []RecentPasswordsAreRefused
<1>1. IInv => RecentPasswordsAreRefused
  BY DEF IInv
<1> QED
  BY <1>1, Inductive, PTL
=============================================================================
