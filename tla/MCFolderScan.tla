---------------------------- MODULE MCFolderScan ----------------------------
(* Two files, one in each of two directories.                              *)
EXTENDS FolderScan, TLC

CONSTANTS p1, p2, top, sub

TwoDirs == p1 :> top @@ p2 :> sub
=============================================================================
