------------------------- MODULE ReplicationProofs -------------------------
(***************************************************************************)
(* What every implementation of Replication inherits.                      *)
(***************************************************************************)
EXTENDS Replication, TLAPS

Inv == TypeOK /\ AuthorLeads /\ StampsIdentify

LEMMA InitInv == Init => Inv
  BY DEF Init, Inv, TypeOK, AuthorLeads, StampsIdentify, Held, Blank

(* What Carry leaves afloat was there before. *)
LEMMA CarryKeeps ==
    ASSUME NEW copies \in SUBSET Stamped, Carry(copies),
           copy' \in [Replica -> Stamped \cup {Blank}]
    PROVE  TypeOK'
  BY DEF Carry, TypeOK

LEMMA PublishInv ==
    ASSUME Author \in Replica, Inv, Publish
    PROVE  Inv'
  <1>1. PICK v \in Value :
          LET change == [stamp |-> copy[Author].stamp + 1, value |-> v]
          IN  copy' = [copy EXCEPT ![Author] = change] /\ Carry(afloat \cup {change})
    BY DEF Publish
  <1> DEFINE change == [stamp |-> copy[Author].stamp + 1, value |-> v]
  <1>2. copy' = [copy EXCEPT ![Author] = change] /\ Carry(afloat \cup {change})
    BY <1>1
  <1>3. copy[Author].stamp \in Nat /\ change \in Stamped
    BY DEF Inv, TypeOK, Stamped, Blank
  <1>4. copy'[Author].stamp = copy[Author].stamp + 1
    BY <1>2 DEF Inv, TypeOK
  <1>5. TypeOK'
    <2>1. afloat \cup {change} \subseteq Stamped  BY <1>3 DEF Inv, TypeOK
    <2>2. copy' \in [Replica -> Stamped \cup {Blank}]  BY <1>2, <1>3 DEF Inv, TypeOK
    <2> QED  BY <1>2, <2>1, <2>2, CarryKeeps
  <1>6. \A c \in afloat : c.stamp \in Nat /\ c.stamp <= copy[Author].stamp
    BY DEF Inv, TypeOK, AuthorLeads, Stamped
  <1>7. \A c \in afloat' : c = change \/ c \in afloat
    BY <1>2 DEF Carry
  <1>8. AuthorLeads'
    <2>1. Held' \subseteq afloat'  BY <1>2 DEF Carry
    <2>2. \A c \in afloat' : c.stamp <= copy'[Author].stamp
      BY <1>3, <1>4, <1>6, <1>7
    <2> QED  BY <2>1, <2>2 DEF AuthorLeads
  <1>9. StampsIdentify'
    BY <1>3, <1>6, <1>7 DEF StampsIdentify, Inv
  <1> QED  BY <1>5, <1>8, <1>9 DEF Inv

(* Adopting is for the other replicas: nothing afloat is ahead of the author. *)
LEMMA AdoptInv ==
    ASSUME Author \in Replica, Inv, NEW r \in Replica, Adopt(r)
    PROVE  Inv' /\ r # Author
  <1>1. PICK c \in afloat : /\ c.stamp > copy[r].stamp
                            /\ copy' = [copy EXCEPT ![r] = c]
                            /\ Carry(afloat)
    BY DEF Adopt
  <1>2. c.stamp \in Nat /\ copy[r].stamp \in Nat /\ c.stamp <= copy[Author].stamp
    BY DEF Inv, TypeOK, AuthorLeads, Stamped, Blank
  <1>3. r # Author
    BY <1>1, <1>2
  <1>4. copy'[Author] = copy[Author]
    BY <1>1, <1>3 DEF Inv, TypeOK
  <1>5. TypeOK'
    BY <1>1, CarryKeeps DEF Inv, TypeOK
  <1>6. afloat' \subseteq afloat /\ Held' \subseteq afloat'
    BY <1>1 DEF Carry
  <1>7. AuthorLeads' /\ StampsIdentify'
    BY <1>4, <1>6 DEF AuthorLeads, StampsIdentify, Inv
  <1> QED  BY <1>3, <1>5, <1>7 DEF Inv

LEMMA StepInv ==
    ASSUME Author \in Replica, Inv, [Next]_vars
    PROVE  Inv'
  <1>1. CASE Publish
    BY <1>1, PublishInv
  <1>2. CASE \E r \in Replica : Adopt(r)
    BY <1>2, AdoptInv
  <1>3. CASE Forget
    <2>1. copy' = copy /\ afloat' \subseteq afloat /\ Held' \subseteq afloat'
      BY <1>3 DEF Forget, Carry
    <2> QED  BY <2>1 DEF Inv, TypeOK, AuthorLeads, StampsIdentify
  <1>4. CASE UNCHANGED vars
    BY <1>4 DEF vars, Inv, TypeOK, AuthorLeads, StampsIdentify, Held
  <1> QED  BY <1>1, <1>2, <1>3, <1>4 DEF Next

LEMMA InvHolds == ASSUME Author \in Replica PROVE Spec => []Inv
  BY InitInv, StepInv, PTL DEF Spec

(* Two replicas that hold the same version of the path hold the same        *)
(* content, whatever was lost or overtaken (ADR-0022: no silent drift), and *)
(* the author's copy is the newest.                                         *)
THEOREM CopiesAgree ==
    ASSUME Author \in Replica
    PROVE  Spec => [](/\ \A r, s \in Replica : copy[r].stamp = copy[s].stamp => copy[r] = copy[s]
                      /\ \A r \in Replica : copy[r].stamp <= copy[Author].stamp)
  <1> DEFINE Agree ==
        /\ \A r, s \in Replica : copy[r].stamp = copy[s].stamp => copy[r] = copy[s]
        /\ \A r \in Replica : copy[r].stamp <= copy[Author].stamp
  <1>1. Inv => Agree
    <2> SUFFICES ASSUME Inv  PROVE Agree
      OBVIOUS
    <2>1. \A r \in Replica : \/ copy[r] = Blank
                             \/ copy[r] \in afloat /\ copy[r].stamp \in Nat \ {0}
      BY DEF Inv, TypeOK, AuthorLeads, Held, Stamped
    <2>2. Blank.stamp = 0 /\ copy[Author].stamp \in Nat
      BY <2>1 DEF Blank
    <2>3. \A r, s \in Replica : copy[r].stamp = copy[s].stamp => copy[r] = copy[s]
      BY <2>1, <2>2 DEF Inv, StampsIdentify
    <2>4. ASSUME NEW r \in Replica  PROVE copy[r].stamp <= copy[Author].stamp
      <3>1. CASE copy[r] = Blank
        BY <2>2, <3>1
      <3>2. CASE copy[r] \in afloat
        BY <3>2 DEF Inv, AuthorLeads
      <3> QED  BY <2>1, <3>1, <3>2
    <2> QED  BY <2>3, <2>4
  <1> QED  BY <1>1, InvHolds, PTL

(* No replica goes back to a state of the path that it has left. *)
THEOREM NeverBack ==
    ASSUME Author \in Replica
    PROVE  Spec => [][\A r \in Replica : copy'[r].stamp >= copy[r].stamp]_vars
  <1> DEFINE Forward == \A r \in Replica : copy'[r].stamp >= copy[r].stamp
  <1>1. ASSUME Inv, Next  PROVE Forward
    <2>1. \A r \in Replica : copy[r].stamp \in Nat
      BY <1>1 DEF Inv, TypeOK, Stamped, Blank
    <2>2. CASE Publish
      BY <2>1, <2>2, <1>1 DEF Publish, Inv, TypeOK
    <2>3. CASE \E r \in Replica : Adopt(r)
      BY <2>1, <2>3, <1>1 DEF Adopt, Inv, TypeOK, Stamped
    <2>4. CASE Forget
      BY <2>1, <2>4 DEF Forget
    <2> QED  BY <1>1, <2>2, <2>3, <2>4 DEF Next
  <1>2. Inv /\ [Next]_vars => [Forward]_vars
    BY <1>1
  <1> QED  BY <1>2, InvHolds, PTL DEF Spec
=============================================================================
