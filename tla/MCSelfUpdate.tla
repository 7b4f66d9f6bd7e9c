---------------------------- MODULE MCSelfUpdate ----------------------------
(* Values for the constants of SelfUpdate. *)
EXTENDS SelfUpdate

CONSTANTS v1, v2, v3

AnyCall == DOMAIN OnFailure
BeforeTidying == DOMAIN OnFailure \ {"tidying", "reporting"}
=============================================================================
