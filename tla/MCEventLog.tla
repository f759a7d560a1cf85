----------------------------- MODULE MCEventLog -----------------------------
(* An instance of EventLog for TLC. *)
EXTENDS EventLog

CONSTANTS w1, w2, w3

ThreeWriters == {w1, w2, w3}
=============================================================================
