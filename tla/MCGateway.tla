----------------------------- MODULE MCGateway ------------------------------
(* Instances of Gateway for TLC. *)
EXTENDS Gateway, TLC

TwoSensors == {1, 2}

\* Enough readings of one sensor to push a value out of its window, two of the
\* same second and then one from a clock set back, and one of another sensor,
\* whose place among them is open.
ThreeAndOne == (1 :> <<5, 5, 3>>) @@ (2 :> <<5>>)

\* Two lines for one sensor, the first with a room number of 17 bits; the
\* line of the other sensor has the wrong separator.
HandWritten ==
  <<[first |-> 1, separator |-> ",", second |-> 65536 + 7],
    [first |-> 1, separator |-> ",", second |-> 8],
    [first |-> 2, separator |-> " ", second |-> 9]>>

\* A map written by hand, and the one that file_creator writes.
TwoFiles == {HandWritten, file_creator(<<1, 2>>, <<1, 2>>)}
=============================================================================
