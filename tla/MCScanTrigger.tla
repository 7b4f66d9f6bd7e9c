---------------------------- MODULE MCScanTrigger ----------------------------
(* Folders for TLC. *)
EXTENDS ScanTrigger

CONSTANTS f1, f2, f3
=============================================================================
