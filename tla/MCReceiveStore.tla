--------------------------- MODULE MCReceiveStore ---------------------------
(* Three contents of three blocks that share some of them; inodes.         *)
EXTENDS ReceiveStore

CONSTANTS n1, n2, n3, n4

Old == <<1, 1, 1>>
New == <<2, 1, 2>>
Newer == <<2, 2, 3>>
ThreeContents == {Old, New, Newer}
=============================================================================
