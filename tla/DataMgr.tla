------------------------------ MODULE DataMgr -------------------------------
(***************************************************************************)
(* The datamgr thread of the gateway, start_datamgr in main.c and          *)
(* datamgr_parse_sensor_data in datamgr.c: it loads the sensors of         *)
(* room_sensor.map into a list, line by line, and then takes readings out  *)
(* of the shared buffer for ever, keeping the last RUN_AVG_LENGTH values   *)
(* of each sensor.  The getters of datamgr.c are operators on the state.   *)
(* The buffer is the abstract one; opening the FIFO, which waits for the   *)
(* child process, is in module Gateway.                                    *)
(***************************************************************************)
EXTENDS SensorData, SensorMap, Integers, FiniteSets, Sequences, SequencesExt

CONSTANTS
  MapFiles,        \* what may be in room_sensor.map, see SensorMap
  RunAvgLength,    \* RUN_AVG_LENGTH, a positive number
  NoReading        \* an uninitialised sensor_data_t

VARIABLES
  queue, taken,  \* the shared buffer, see ReadingQueue
  dpc,           \* where the datamgr thread stands
  dheld,         \* its local sensor_data
  map,           \* the lines of room_sensor.map, once it is open
  list           \* a sequence of sensor_t; empty until dpl_create

dvars == <<dpc, dheld, map, list>>

Buffer == INSTANCE ReadingQueue
            WITH Consumers <- {"datamgr", "storagemgr"}

uint16(n) == n % (UINT16_MAX + 1)

sensor_t == [sensor_id     : 0 .. UINT16_MAX,
             room_id       : 0 .. UINT16_MAX,
             last_modified : Int,
             temperatures  : [1 .. RunAvgLength -> Nat],
             sum           : Nat]

\* A new sensor_t: no reading yet, all temperatures zero.
Fresh(line) == [sensor_id     |-> uint16(line.first),
                room_id       |-> uint16(line.second),
                last_modified |-> 0,
                temperatures  |-> [i \in 1 .. RunAvgLength |-> 0],
                sum           |-> 0]

element_compare(x, y) ==
  CASE x < y -> -1 [] x > y -> 1 [] OTHER -> 0

\* dpl_get_index_of_element: the first place whose sensor compares equal, or
\* 0 for the code's -1.
IndexOf(id) ==
  SelectInSeq(list, LAMBDA s : element_compare(s.sensor_id, id) = 0)

Init ==
  /\ dpc = "unborn"
  /\ dheld = NoReading
  /\ map = <<>>
  /\ list = <<>>

\* fopen("room_sensor.map").
OpenMap ==
  /\ dpc = "open_map"
  /\ dpc' = "load"
  /\ map' \in MapFiles
  /\ UNCHANGED <<queue, taken, dheld, list>>

OpenMapFails ==
  /\ dpc = "open_map"
  /\ dpc' = "fifo_open"
  /\ UNCHANGED <<queue, taken, dheld, map, list>>

\* fifomgr_write once the FIFO is open, then pthread_exit.
FifoWrite ==
  /\ dpc = "fifo_write"
  /\ dpc' = "fifo_close"
  /\ UNCHANGED <<queue, taken, dheld, map, list>>

FifoClose ==
  /\ dpc = "fifo_close"
  /\ dpc' = "ended"
  /\ UNCHANGED <<queue, taken, dheld, map, list>>

\* Each line is appended, whether or not its sensor is in the list already.
LoadLine ==
  /\ dpc = "load"
  /\ Parses(map, Len(list) + 1)
  /\ list' = Append(list, Fresh(map[Len(list) + 1]))
  /\ UNCHANGED <<queue, taken, dpc, dheld, map>>

\* The first line that is something else ends the loading, like the last one.
LoadEnds ==
  /\ dpc = "load"
  /\ ~Parses(map, Len(list) + 1)
  /\ dpc' = "loop"
  /\ UNCHANGED <<queue, taken, dheld, map, list>>

\* Fault: the reading is read and left in the buffer.
TakeReadingPeeks ==
  /\ dpc = "loop"
  /\ queue # <<>>
  /\ taken' = [taken EXCEPT !["datamgr"] = Append(@, Head(queue))]
  /\ dheld' = Head(queue)
  /\ dpc' = "update"
  /\ UNCHANGED <<queue, map, list>>

\* A removal that finds no data goes round the loop and changes nothing.
TakeReading ==
  /\ dpc = "loop"
  /\ Buffer!Remove("datamgr")
  /\ dheld' = Head(queue)
  /\ dpc' = "update"
  /\ UNCHANGED <<map, list>>

\* Fault: the oldest value is kept, beyond the end of the array.
ShiftAll(v, temperatures) == <<v>> \o temperatures

\* Fault: the value overwrites the one before it.
ShiftNothing(v, temperatures) == <<v>> \o Tail(temperatures)

Shift(v, temperatures) ==
  <<v>> \o SubSeq(temperatures, 1, RunAvgLength - 1)

Sum(temperatures) ==
  LET sum[i \in 0 .. RunAvgLength] ==
        IF i = 0 THEN 0 ELSE sum[i - 1] + temperatures[i]
  IN sum[RunAvgLength]

\* The sum is running_avg times RUN_AVG_LENGTH.  A reading of a sensor that
\* is not in the list is dropped.
Update ==
  /\ dpc = "update"
  /\ dpc' = "loop"
  /\ LET i == IndexOf(dheld.id)
     IN IF i = 0
        THEN UNCHANGED list
        ELSE LET t == Shift(dheld.n, list[i].temperatures)
             IN list' = [list EXCEPT ![i].last_modified = dheld.ts,
                                     ![i].temperatures  = t,
                                     ![i].sum           = Sum(t)]
  /\ UNCHANGED <<queue, taken, dheld, map>>

\* The getters, which search the list under list_mutex.  The average is given
\* times RUN_AVG_LENGTH.
Get(id, field, absent) ==
  LET i == IndexOf(id) IN IF i = 0 THEN absent ELSE list[i][field]

datamgr_get_room_id(id)       == Get(id, "room_id", UINT16_MAX)
datamgr_get_avg(id)           == Get(id, "sum", 0)
datamgr_get_last_modified(id) == Get(id, "last_modified", 0)

Next ==
  \/ OpenMap \/ OpenMapFails \/ FifoWrite \/ FifoClose
  \/ LoadLine \/ LoadEnds \/ TakeReading \/ Update

\* The FIFO is open for writing.
Writing == {"fifo_write", "fifo_close"}

\* Where pthread_cancel can end the thread: the loop calls nothing that is a
\* cancellation point.
Cancellable == {"open_map", "fifo_open", "load"} \cup Writing

TypeOK ==
  /\ dpc \in Cancellable \cup {"unborn", "loop", "update", "ended",
                            "ended_writing"}
  /\ dheld \in Readings \cup {NoReading}
  /\ map \in MapFiles \cup {<<>>}
  /\ list \in Seq(sensor_t)
  /\ Len(list) <= Len(map)

\* The readings of sensor s that the thread took and has used.
Measured(s) ==
  {r \in ToSet(taken["datamgr"]) : r.id = s /\ ~(dpc = "update" /\ r = dheld)}

\* The newest of some readings of one sensor, newest first, as far as there
\* are any, and then zeros.
AreNewest(temperatures, readings) ==
  LET Window == 1 .. RunAvgLength
  IN /\ \A k \in Window : temperatures[k] # 0 =>
          /\ \A j \in 1 .. k - 1 : temperatures[j] > temperatures[k]
          /\ \E r \in readings : r.n = temperatures[k]
     /\ \A r \in readings :
          \/ \E k \in Window : temperatures[k] = r.n
          \/ /\ temperatures[RunAvgLength] # 0
             /\ temperatures[RunAvgLength] > r.n

\* The lines in front of the first one that does not parse.
Listed == {i \in 1 .. Len(map) : \A k \in 1 .. i : Parses(map, k)}

LinesOf(s) == {i \in Listed : uint16(map[i].first) = s}

\* The time of reading n of sensor s, and 0 when there is none.
TimeOf(s, n) == IF n = 0 THEN 0 ELSE Timestamps[s][n]

\* Once the map is loaded, what the getters say of a sensor that is in it
\* follows from the first line that names it and from what the thread took of
\* that sensor: the room of this line, the time of the newest reading, which
\* may be an earlier time than that of the one before, and, once there are
\* RunAvgLength readings, the sum of the newest RunAvgLength of them.  A second
\* line for a sensor is never used.
ListFollowsReadings ==
  dpc \in {"loop", "update"} =>
    /\ Listed = 1 .. Len(list)
    /\ \A s \in Sensors : LinesOf(s) # {} =>
         LET first == Min(LinesOf(s))
             t     == list[first].temperatures
         IN /\ datamgr_get_room_id(s) = uint16(map[first].second)
            /\ AreNewest(t, Measured(s))
            /\ t[RunAvgLength] # 0 => datamgr_get_avg(s) = Sum(t)
            /\ datamgr_get_last_modified(s) = TimeOf(s, t[1])
            /\ \A i \in LinesOf(s) \ {first} : list[i] = Fresh(map[i])

\* The list while it is loaded, and where the readings are by then.
Loading ==
  /\ dpc \in {"unborn", "open_map"} => map = <<>> /\ list = <<>>
  /\ dpc = "load" =>
       \A i \in 1 .. Len(list) : Parses(map, i) /\ list[i] = Fresh(map[i])
  /\ dpc \in {"unborn", "open_map", "load"} => taken["datamgr"] = <<>>
  /\ dpc = "update" =>
       /\ dheld \in ToSet(taken["datamgr"])
       /\ \A r \in Measured(dheld.id) : r.n < dheld.n

\* The list once it is loaded, place by place.
Loaded ==
  dpc \in {"loop", "update"} =>
    /\ ~Parses(map, Len(list) + 1)
    /\ \A i \in 1 .. Len(list) :
         /\ Parses(map, i)
         /\ list[i].sensor_id = uint16(map[i].first)
         /\ list[i].room_id = uint16(map[i].second)
         /\ list[i].sum = Sum(list[i].temperatures)
         /\ list[i].last_modified = TimeOf(list[i].sensor_id, list[i].temperatures[1])
         /\ IF \E j \in 1 .. i - 1 : list[j].sensor_id = list[i].sensor_id
            THEN list[i] = Fresh(map[i])
            ELSE AreNewest(list[i].temperatures, Measured(list[i].sensor_id))
=============================================================================
