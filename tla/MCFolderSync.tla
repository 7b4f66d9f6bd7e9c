---------------------------- MODULE MCFolderSync ----------------------------
(* Values for the function-valued constants of FolderSync. *)
EXTENDS FolderSync

CONSTANT d1     \* one of the devices

KeepBoth == [d \in Device |-> "keep-both"]
MixedPolicies == [d \in Device |-> IF d = d1 THEN "newest-wins" ELSE "keep-both"]

(* Every content has a time of its own; contents 2 and 3 have the same time. *)
Exact  == [c \in 0..MaxContent |-> c]
Coarse == [c \in 0..MaxContent |-> c \div 2]

AllLinks == {{d, e} : d \in Device, e \in Device} \ {{d} : d \in Device}
=============================================================================
