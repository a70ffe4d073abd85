----------------------------- MODULE MCMfaLogin -----------------------------
(* MfaLogin on small instances. *)
EXTENDS MfaLogin, TLC

Symmetry == Permutations(User) \cup Permutations(Challenge) \cup Permutations(Secret)
                \cup Permutations(BackupCode) \cup Permutations(Request)
=============================================================================
