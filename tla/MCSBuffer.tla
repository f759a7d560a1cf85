----------------------------- MODULE MCSBuffer ------------------------------
(* An instance of SBuffer for TLC: the threads of the program, in which one *)
(* thread inserts and two remove, and a reader, which it does not have.     *)
EXTENDS SBuffer

CONSTANTS p1, c1, c2, r1, n1, n2

OneProducer  == {p1}
TwoConsumers == {c1, c2}
OneReader    == {r1}
TwoNodes     == {n1, n2}
=============================================================================
