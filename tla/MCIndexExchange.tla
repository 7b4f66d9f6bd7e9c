-------------------------- MODULE MCIndexExchange --------------------------
(* Values for the function-valued constants of IndexExchange. *)
EXTENDS IndexExchange, FiniteSets

CONSTANTS u1, u2, u3, u4

AuthorOf == [u \in Update |-> IF u = u1 THEN Left ELSE Right]

Pairs == {S \in SUBSET Update : Cardinality(S) > 1}
=============================================================================
