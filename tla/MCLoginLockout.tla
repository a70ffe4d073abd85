-------------------------- MODULE MCLoginLockout --------------------------
(* LoginLockout on small instances. *)
EXTENDS LoginLockout, TLC

Symmetry == Permutations(Request)
=============================================================================
