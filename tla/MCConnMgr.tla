------------------------------ MODULE MCConnMgr -----------------------------
(* Instances of ConnMgr for TLC. *)
EXTENDS ConnMgr, TLC

CONSTANTS s1, s2

TwoSensors == {s1, s2}

\* Two readings, so that one recv can take the end of one and the start of
\* the next; the other sensor node connects and hangs up.
TwoAndNone == (s1 :> 2) @@ (s2 :> 0)

\* With 5 for the listening socket, it is between the descriptors of the two
\* connections.
FourToSix == 4 .. 6
=============================================================================
