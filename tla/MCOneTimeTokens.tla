--------------------------- MODULE MCOneTimeTokens ---------------------------
(* OneTimeTokens with interchangeable tokens, passwords and requests. *)
EXTENDS OneTimeTokens, TLC

Symmetry == Permutations(Token) \cup Permutations(Password) \cup Permutations(Request)
=============================================================================
