----------------------------- MODULE Replication -----------------------------
(***************************************************************************)
(* What syncx promises of one path that one device edits: a register with  *)
(* a copy on every replica. The author stamps each change; every other     *)
(* replica only ever moves on to a later change, some of which it may      *)
(* skip, and never makes a value up. FolderSync is shown to implement it   *)
(* (module FolderSyncReplication).                                         *)
(***************************************************************************)
EXTENDS Naturals

CONSTANTS
    Replica,
    Author,     \* the replica that makes the changes
    Value       \* what a change can set the path to

VARIABLES
    copy,       \* copy[r]: the copy replica r holds
    afloat      \* the copies that some replica or message still carries

vars == <<copy, afloat>>

Blank == [stamp |-> 0, value |-> 0]
Stamped == [stamp : Nat \ {0}, value : Value]

Held == {copy[r] : r \in Replica} \ {Blank}

Init ==
    /\ copy = [r \in Replica |-> Blank]
    /\ afloat = {}

(* Copies sink when the messages that carry them are handled or lost, never *)
(* one that a replica holds.                                                *)
Carry(copies) ==
    /\ afloat' \subseteq copies
    /\ Held' \subseteq afloat'

Publish ==
    \E v \in Value :
        LET change == [stamp |-> copy[Author].stamp + 1, value |-> v]
        IN  /\ copy' = [copy EXCEPT ![Author] = change]
            /\ Carry(afloat \cup {change})

Adopt(r) ==
    \E c \in afloat :
        /\ c.stamp > copy[r].stamp
        /\ copy' = [copy EXCEPT ![r] = c]
        /\ Carry(afloat)

Forget == UNCHANGED copy /\ Carry(afloat)

Next == Publish \/ Forget \/ \E r \in Replica : Adopt(r)

Spec == Init /\ [][Next]_vars
----------------------------------------------------------------------------
TypeOK ==
    /\ copy \in [Replica -> Stamped \cup {Blank}]
    /\ afloat \subseteq Stamped

(* The author is never behind, so that the next stamp is new.              *)
AuthorLeads ==
    /\ Held \subseteq afloat
    /\ \A c \in afloat : c.stamp <= copy[Author].stamp

(* One stamp, one value: what drift would break (ADR-0022).                *)
StampsIdentify == \A b, c \in afloat : b.stamp = c.stamp => b = c

=============================================================================
