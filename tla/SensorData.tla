----------------------------- MODULE SensorData -----------------------------
(***************************************************************************)
(* sensor_data_t of config.h.  A reading is told apart by the id that came *)
(* with it and by its number among those that came with this id, in the    *)
(* order in which connmgr received them; the number also stands for the    *)
(* value.  The timestamp is only carried along: sensor nodes take it from  *)
(* clocks of their own, in whole seconds, so that it may be the same again *)
(* or go back.                                                             *)
(***************************************************************************)
EXTENDS Integers, Sequences

CONSTANTS
  Sensors,      \* the ids that come with readings
  Timestamps    \* bound: Timestamps[s][n] is the ts of the n-th reading that
                \* comes with id s, and no more of them come

ASSUME SensorDataAssumption == Timestamps \in [Sensors -> Seq(Int)]

\* sensor_id_t is uint16_t.
UINT16_MAX == 65535

MaxReadings == [s \in Sensors |-> Len(Timestamps[s])]

Reading(s, n) == [id |-> s, n |-> n, ts |-> Timestamps[s][n]]

Readings == UNION {{Reading(s, n) : n \in 1 .. MaxReadings[s]} : s \in Sensors}
=============================================================================
