------------------------------ MODULE MCTcpSock -----------------------------
(* Instances of TcpSock for TLC. *)
EXTENDS TcpSock, TLC

CONSTANTS k1, k2, k3, b1, b2

ThreeSocks == {k1, k2, k3}
TwoBlocks  == {b1, b2}
ThreeToFive == 3 .. 5

\* One below the range, the first and the last of it.
BoundaryPorts == {1023, 1024, 65536}

Addresses == Permutations(ThreeSocks) \cup Permutations(TwoBlocks)
=============================================================================
