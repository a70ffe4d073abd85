-------------------------- MODULE MCAuthSessions --------------------------
(* AuthSessions on small instances. *)
EXTENDS AuthSessions, FiniteSets, TLC

CONSTANT u2     \* the second user of the safety run

(* That run goes where u2 does nothing and at most one session expires,    *)
(* while nobody is locked; and where both users act but only two refresh   *)
(* tokens are issued, and no one is locked, expires or sets a password.    *)
OneActs ==
    /\ Cardinality(expired) <= 1 /\ (expired # {} => \A u \in User : status[u] = "ACTIVE")
    /\ \A r \in Request : req[r].user # u2
    /\ \A s \in Session : owner[s] # u2
    /\ status[u2] = "ACTIVE" /\ tokenVersion[u2] = 0

TwoActWithLess ==
    /\ expired = {}
    /\ \A u \in User : password[u] = 0 /\ status[u] = "ACTIVE"
    /\ Cardinality({t \in Token : sessionOf[t] # None}) <= 2

SmallSpec == Init /\ [][Next /\ (OneActs' \/ TwoActWithLess')]_vars

(* Without crashes: Node.js runs every pending continuation, so a request  *)
(* that can take its next step eventually does.  The liveness run leaves   *)
(* locks and expiry out: a revocation that has begun looks at neither.     *)
CalmSpec ==
    /\ Init /\ [][CrashFreeNext /\ UNCHANGED <<status, expired>>]_vars
    /\ \A r \in Request : WF_vars(Step(r))

Symmetry == Permutations(Session) \cup Permutations(Token) \cup Permutations(Request)
=============================================================================
