------------------------------ MODULE MCDPList ------------------------------
(* Instances of DPList for TLC. *)
EXTENDS DPList

CONSTANTS n1, n2, n3, n4

ThreeNodes == {n1, n2, n3}
FourNodes  == {n1, n2, n3, n4}

OneToTwo   == 1 .. 2
OneToThree == 1 .. 3
=============================================================================
