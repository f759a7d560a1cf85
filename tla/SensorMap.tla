----------------------------- MODULE SensorMap ------------------------------
(***************************************************************************)
(* room_sensor.map, a sequence of lines: what file_creator.c writes there, *)
(* and what the parser of datamgr.c takes for a sensor.                    *)
(***************************************************************************)
EXTENDS Naturals, Sequences

Lines == [first : Nat, separator : {",", " "}, second : Nat]

\* The room is in front, and a space is where the parser wants a comma.
file_creator(room_id, sensor_id) ==
  [i \in 1 .. Len(room_id) |->
     [first |-> room_id[i], separator |-> " ", second |-> sensor_id[i]]]

\* fscanf finds its two numbers and the comma between them in line i.
Parses(map, i) == i <= Len(map) /\ map[i].separator = ","
=============================================================================
