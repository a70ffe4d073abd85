-------------------------- MODULE MCPermissionCache --------------------------
(* PermissionCache on a small instance. *)
EXTENDS PermissionCache
=============================================================================
