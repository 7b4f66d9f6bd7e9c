---------------------------- MODULE MCDiskGuard ----------------------------
(* Values for the constants of DiskGuard. *)
EXTENDS DiskGuard

CONSTANTS u1, u2
=============================================================================
