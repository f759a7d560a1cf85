---------------------------- MODULE GatewayProofs ----------------------------
(* Proofs about module Gateway, for all sensors, maps and numbers of         *)
(* readings.                                                                 *)
EXTENDS Gateway, Facts

\* What the threads' modules call by the names of this one.
LEMMA Names ==
  /\ D!Readings = Readings /\ S!Readings = Readings
  /\ D!UINT16_MAX = UINT16_MAX
  /\ \A s : D!ToSet(s) = ToSet(s) /\ S!ToSet(s) = ToSet(s)
  /\ \A m, i : D!Parses(m, i) <=> Parses(m, i)
BY DEF D!Readings, S!Readings, Readings, D!Reading, S!Reading, Reading,
       D!MaxReadings, S!MaxReadings, MaxReadings, D!UINT16_MAX, UINT16_MAX,
       D!ToSet, S!ToSet, ToSet, D!Parses, Parses

\* Readings are told apart by their sensor and their number.
LEMMA ReadingFacts ==
  /\ \A r \in Readings :
       /\ r.id \in Sensors /\ r.n \in Nat /\ r.n >= 1
       /\ r.n <= MaxReadings[r.id] /\ MaxReadings[r.id] \in Nat
       /\ r = Reading(r.id, r.n)
       /\ r.ts = Timestamps[r.id][r.n] /\ r.ts \in Int
  /\ \A s \in Sensors : MaxReadings[s] \in Nat /\
       \A n \in Nat : 1 <= n /\ n <= MaxReadings[s] =>
         /\ Reading(s, n) \in Readings
         /\ Reading(s, n).id = s /\ Reading(s, n).n = n
<1>1. ASSUME NEW s \in Sensors
      PROVE  /\ MaxReadings[s] \in Nat /\ MaxReadings[s] = Len(Timestamps[s])
             /\ \A n \in 1 .. MaxReadings[s] : Timestamps[s][n] \in Int
  BY SensorDataAssumption, SeqFacts DEF MaxReadings
<1>2. ASSUME NEW s \in Sensors, NEW n \in 1 .. MaxReadings[s]
      PROVE  /\ Reading(s, n) \in Readings
             /\ Reading(s, n).id = s /\ Reading(s, n).n = n
             /\ Reading(s, n).ts = Timestamps[s][n]
  BY DEF Readings, Reading
<1>3. ASSUME NEW r \in Readings
      PROVE  \E s \in Sensors : \E n \in 1 .. MaxReadings[s] : r = Reading(s, n)
  BY DEF Readings
<1> QED BY <1>1, <1>2, <1>3

LEMMA ReceivedFacts ==
  \A r : r \in Received <=> r \in Readings /\ r.n <= received[r.id]
BY DEF Received

-----------------------------------------------------------------------------
(* The invariant, part by part *)

\* Of the buffer.
QueueInv ==
  /\ queue \in Seq(Readings)
  /\ taken \in [{"datamgr", "storagemgr"} -> Seq(Readings)]
  /\ received \in [Sensors -> Nat]
  /\ \A s \in Sensors : received[s] <= MaxReadings[s]
  /\ refused \in [Causes -> SUBSET Readings]
  /\ discarded \in SUBSET Readings
  /\ InOrder /\ EachInOnePlace

\* Of the threads, and who waits for whom.
ControlInv ==
  /\ dpc \in {"open_map", "fifo_open", "load", "fifo_write", "fifo_close",
             "unborn", "loop", "update", "ended", "ended_writing"}
  /\ spc \in {"unborn", "connect", "loop", "insert", "terminate", "joining",
              "ended"}
  /\ main \in {"create", "join_connmgr", "join_datamgr", "join_storagemgr",
               "free", "wait_child", "exited"}
  /\ conmgr \in {"unborn", "listening", "ended"}
  /\ child \in {"open_log", "open_fifo", "read", "ended"}
  /\ cancelled \in SUBSET Threads
  /\ FreedAfterThreads /\ Joined

\* Of the storagemgr thread.
StoreInv ==
  /\ tries \in 0 .. S!MaxTries
  /\ sheld \in Readings \cup {NoReading}
  /\ db \in Seq(Readings \cup S!OldRows)
  /\ failed \in SUBSET Readings /\ reported \in SUBSET Readings
  /\ TakenAreStored /\ S!Storing

\* Of the datamgr thread.
ListInv ==
  /\ dheld \in Readings \cup {NoReading}
  /\ map \in MapFiles \cup {<<>>}
  /\ list \in Seq(D!sensor_t) /\ Len(list) <= Len(map)
  /\ D!Loading /\ D!Loaded

LEMMA Parts == IInv <=> QueueInv /\ ControlInv /\ StoreInv /\ ListInv
<1>1. D!TypeOK <=>
        /\ dpc \in {"open_map", "fifo_open", "load", "fifo_write", "fifo_close",
                   "unborn", "loop", "update", "ended", "ended_writing"}
        /\ dheld \in Readings \cup {NoReading}
        /\ map \in MapFiles \cup {<<>>}
        /\ list \in Seq(D!sensor_t) /\ Len(list) <= Len(map)
  BY Names DEF D!TypeOK, D!Cancellable, D!Writing
<1>2. S!TypeOK <=>
        /\ spc \in {"unborn", "connect", "loop", "insert", "terminate", "joining",
                   "ended"}
        /\ tries \in 0 .. S!MaxTries
        /\ sheld \in Readings \cup {NoReading}
        /\ db \in Seq(Readings \cup S!OldRows)
        /\ failed \in SUBSET Readings /\ reported \in SUBSET Readings
  BY Names DEF S!TypeOK
<1>3. Buffer!TypeOK <=>
        /\ queue \in Seq(Readings)
        /\ taken \in [{"datamgr", "storagemgr"} -> Seq(Readings)]
  BY DEF Buffer!TypeOK
<1> QED
  BY <1>1, <1>2, <1>3 DEF IInv, TypeOK, QueueInv, ControlInv, StoreInv, ListInv

\* The same of the next state.
LEMMA PartsNext ==
  IInv' <=> QueueInv' /\ ControlInv' /\ StoreInv' /\ ListInv'
BY Parts, PTL

-----------------------------------------------------------------------------
(* Threads and joins *)

\* Where a step of the datamgr thread takes it: it neither starts it nor
\* starts it again.
LEMMA DataMgrGoes ==
  ASSUME D!Next
  PROVE  /\ dpc \notin {"unborn", "ended", "ended_writing"}
         /\ dpc' \in {"fifo_open", "load", "fifo_close", "loop", "update", "ended"}
BY DEF D!Next, D!OpenMap, D!OpenMapFails, D!FifoWrite, D!FifoClose, D!LoadLine,
       D!LoadEnds, D!TakeReading, D!Update

LEMMA StorageMgrGoes ==
  ASSUME S!Next
  PROVE  /\ spc \notin {"unborn", "joining", "ended"}
         /\ spc' \in {"connect", "loop", "insert", "terminate"}
BY DEF S!Next, S!Connect, S!ConnectFails, S!TakeReading, S!Insert, S!InsertFails

\* A thread that has ended, and was joined, does not come back, and each is
\* joined before main goes on.
LEMMA ControlStep ==
  ASSUME ControlInv, Next
  PROVE  ControlInv'
<1> USE DEF ControlInv, FreedAfterThreads, Joined, Threads, Ended
<1>1. CASE \E s \in Sensors : Receive(s)
  BY <1>1 DEF Receive, Arrive, dvars, svars
<1>2. CASE DataMgr
  BY <1>2, DataMgrGoes DEF DataMgr, Running, svars, gvars
<1>3. CASE StorageMgr
  BY <1>3, StorageMgrGoes DEF StorageMgr, Running, dvars, gvars
<1>4. CASE Terminate
  BY <1>4 DEF Terminate, Running, dvars
<1>5. CASE CancelConnmgr
  BY <1>5 DEF CancelConnmgr, Running, dvars, svars
<1>6. CASE CancelDataMgr
  BY <1>6 DEF CancelDataMgr, Running, svars, gvars, D!Cancellable, D!Writing
<1>7. CASE CancelStorageMgr
  BY <1>7 DEF CancelStorageMgr, Running, dvars, gvars
<1>8. CASE Main
  <2>1. CASE CreateThreads
    BY <2>1 DEF CreateThreads
  <2>2. CASE JoinThreads
    BY <2>2 DEF JoinThreads, Join, dvars, svars
  <2>3. CASE FreeNode \/ FreeBuffer \/ WaitAndTerminate
    BY <2>3 DEF FreeNode, FreeBuffer, WaitAndTerminate, dvars, svars
  <2> QED BY <1>8, <2>1, <2>2, <2>3 DEF Main
<1>9. CASE Child
  BY <1>9 DEF Child, OpenLog, OpenLogFails, ReadEndOfFile, ChildGoes, dvars, svars
<1>10. CASE OpenFifo
  BY <1>10 DEF OpenFifo, Running, svars
<1>11. CASE ProcessExits
  BY <1>11 DEF ProcessExits, Running, dvars, svars
<1>12. CASE FifoOpenFails
  BY <1>12 DEF FifoOpenFails, Running, svars, gvars
<1>13. CASE \E s \in Sensors : ReceiveRefused(s)
  BY <1>13 DEF ReceiveRefused, Arrive, dvars, svars
<1> QED
  BY <1>1, <1>2, <1>3, <1>4, <1>5, <1>6, <1>7, <1>8, <1>9, <1>10, <1>11, <1>12,
     <1>13 DEF Next

-----------------------------------------------------------------------------
(* The buffer *)

\* The readings that have left the buffer, and those that never came into it.
Passed ==
  UNION {ToSet(taken["datamgr"]), ToSet(taken["storagemgr"]), discarded}

Refused == refused["null_buffer"] \cup refused["no_memory"]

\* EachInOnePlace, place by place.
OnePlace ==
  /\ Received = ToSet(queue) \cup Passed \cup Refused
  /\ ToSet(queue) \cap Passed = {}
  /\ (ToSet(queue) \cup Passed) \cap Refused = {}
  /\ ToSet(taken["datamgr"]) \cap ToSet(taken["storagemgr"]) = {}
  /\ (ToSet(taken["datamgr"]) \cup ToSet(taken["storagemgr"])) \cap discarded = {}
  /\ refused["null_buffer"] \cap refused["no_memory"] = {}
  /\ refused["null_buffer"] = IF BufferShared THEN {} ELSE Received

LEMMA PlacesFacts == EachInOnePlace <=> OnePlace
<1> DEFINE P == {"buffer", "datamgr", "storagemgr", "freed", "no_buffer", "no_memory"}
<1>1. /\ DOMAIN Places = P
      /\ Places["buffer"] = ToSet(queue)
      /\ Places["datamgr"] = ToSet(taken["datamgr"])
      /\ Places["storagemgr"] = ToSet(taken["storagemgr"])
      /\ Places["freed"] = discarded
      /\ Places["no_buffer"] = refused["null_buffer"]
      /\ Places["no_memory"] = refused["no_memory"]
  BY DEF Places
<1>2. UNION {Places[p] : p \in P} = ToSet(queue) \cup Passed \cup Refused
  BY <1>1 DEF Passed, Refused
<1>3. (\A p, q \in P : p # q => Places[p] \cap Places[q] = {}) <=>
        /\ ToSet(queue) \cap Passed = {}
        /\ (ToSet(queue) \cup Passed) \cap Refused = {}
        /\ ToSet(taken["datamgr"]) \cap ToSet(taken["storagemgr"]) = {}
        /\ (ToSet(taken["datamgr"]) \cup ToSet(taken["storagemgr"])) \cap discarded = {}
        /\ refused["null_buffer"] \cap refused["no_memory"] = {}
  <2> DEFINE Apart == \A p, q \in P : p # q => Places[p] \cap Places[q] = {}
  <2>1. ASSUME Apart
        PROVE  /\ ToSet(queue) \cap Passed = {}
               /\ (ToSet(queue) \cup Passed) \cap Refused = {}
               /\ ToSet(taken["datamgr"]) \cap ToSet(taken["storagemgr"]) = {}
               /\ (ToSet(taken["datamgr"]) \cup ToSet(taken["storagemgr"])) \cap discarded = {}
               /\ refused["null_buffer"] \cap refused["no_memory"] = {}
    <3>1. /\ Places["buffer"] \cap Places["datamgr"] = {}
          /\ Places["buffer"] \cap Places["storagemgr"] = {}
          /\ Places["buffer"] \cap Places["freed"] = {}
          /\ Places["buffer"] \cap Places["no_buffer"] = {}
          /\ Places["buffer"] \cap Places["no_memory"] = {}
      BY <2>1
    <3>2. /\ Places["datamgr"] \cap Places["storagemgr"] = {}
          /\ Places["datamgr"] \cap Places["freed"] = {}
          /\ Places["datamgr"] \cap Places["no_buffer"] = {}
          /\ Places["datamgr"] \cap Places["no_memory"] = {}
      BY <2>1
    <3>3. /\ Places["storagemgr"] \cap Places["freed"] = {}
          /\ Places["storagemgr"] \cap Places["no_buffer"] = {}
          /\ Places["storagemgr"] \cap Places["no_memory"] = {}
          /\ Places["freed"] \cap Places["no_buffer"] = {}
          /\ Places["freed"] \cap Places["no_memory"] = {}
          /\ Places["no_buffer"] \cap Places["no_memory"] = {}
      BY <2>1
    <3> HIDE DEF Apart, P
    <3> QED BY <1>1, <3>1, <3>2, <3>3 DEF Passed, Refused
  <2>2. ASSUME /\ ToSet(queue) \cap Passed = {}
               /\ (ToSet(queue) \cup Passed) \cap Refused = {}
               /\ ToSet(taken["datamgr"]) \cap ToSet(taken["storagemgr"]) = {}
               /\ (ToSet(taken["datamgr"]) \cup ToSet(taken["storagemgr"])) \cap discarded = {}
               /\ refused["null_buffer"] \cap refused["no_memory"] = {}
        PROVE  Apart
    BY <1>1, <2>2 DEF Passed, Refused
  <2> QED BY <2>1, <2>2
<1> HIDE DEF P
<1>4. EachInOnePlace <=>
        /\ Received = UNION {Places[p] : p \in P}
        /\ \A p, q \in P : p # q => Places[p] \cap Places[q] = {}
        /\ refused["null_buffer"] = IF BufferShared THEN {} ELSE Received
  BY <1>1 DEF EachInOnePlace
<1> QED BY <1>2, <1>3, <1>4 DEF OnePlace

LEMMA PlacesFactsNext == EachInOnePlace' <=> OnePlace'
BY PlacesFacts, PTL

LEMMA PlacesAre ==
  /\ Places.datamgr = ToSet(taken["datamgr"])
  /\ Places.storagemgr = ToSet(taken["storagemgr"])
  /\ Places.no_memory = refused["no_memory"]
BY DEF Places

\* InOrder in these words.
LEMMA InOrderFacts ==
  InOrder <=>
    /\ \A i, j \in 1 .. Len(queue) :
         i < j /\ queue[i].id = queue[j].id => queue[i].n < queue[j].n
    /\ \A q \in ToSet(queue), r \in Passed : q.id = r.id => r.n < q.n
    /\ \A d \in discarded :
         \A r \in ToSet(taken["datamgr"]) \cup ToSet(taken["storagemgr"]) :
           d.id = r.id => r.n < d.n
BY PlacesAre DEF InOrder, Passed

LEMMA InOrderFactsNext ==
  InOrder' <=>
    /\ \A i, j \in 1 .. Len(queue') :
         i < j /\ queue'[i].id = queue'[j].id => queue'[i].n < queue'[j].n
    /\ \A q \in ToSet(queue'), r \in Passed' : q.id = r.id => r.n < q.n
    /\ \A d \in discarded' :
         \A r \in ToSet(taken'["datamgr"]) \cup ToSet(taken'["storagemgr"]) :
           d.id = r.id => r.n < d.n
<1>1. /\ Places'.datamgr = ToSet(taken'["datamgr"])
      /\ Places'.storagemgr = ToSet(taken'["storagemgr"])
  BY DEF Places
<1> QED BY <1>1 DEF InOrder, Passed

LEMMA QueueFacts ==
  ASSUME QueueInv
  PROVE  /\ queue \in Seq(Readings) /\ Len(queue) \in Nat
         /\ taken["datamgr"] \in Seq(Readings)
         /\ taken["storagemgr"] \in Seq(Readings)
         /\ ToSet(queue) \cup Passed \cup Refused = Received
         /\ \A q \in ToSet(queue), r \in Passed : q.id = r.id => r.n < q.n
         /\ ToSet(queue) \cap Passed = {}
         /\ OnePlace
<1>1. /\ queue \in Seq(Readings) /\ Len(queue) \in Nat
      /\ taken["datamgr"] \in Seq(Readings)
      /\ taken["storagemgr"] \in Seq(Readings)
  BY SeqFacts DEF QueueInv
<1>2. \A q \in ToSet(queue), r \in Passed : q.id = r.id => r.n < q.n
  BY InOrderFacts DEF QueueInv
<1>3. OnePlace
  BY PlacesFacts DEF QueueInv
<1> QED BY <1>1, <1>2, <1>3 DEF OnePlace

\* The first reading of the buffer is newer than what has left it, and older
\* than what stays.
LEMMA HeadFacts ==
  ASSUME QueueInv, queue # <<>>
  PROVE  /\ Head(queue) \in Readings /\ Head(queue) \in ToSet(queue)
         /\ Tail(queue) \in Seq(Readings)
         /\ ToSet(queue) = {Head(queue)} \cup ToSet(Tail(queue))
         /\ Head(queue) \notin Passed /\ Head(queue) \notin ToSet(Tail(queue))
         /\ \A r \in Passed : r.id = Head(queue).id => r.n < Head(queue).n
         /\ \A q \in ToSet(Tail(queue)) :
              q.id = Head(queue).id => Head(queue).n < q.n
         /\ \A i, j \in 1 .. Len(Tail(queue)) :
              i < j /\ Tail(queue)[i].id = Tail(queue)[j].id
                => Tail(queue)[i].n < Tail(queue)[j].n
<1>1. /\ Tail(queue) \in Seq(Readings) /\ Len(queue) \in Nat \ {0}
      /\ Len(Tail(queue)) = Len(queue) - 1
      /\ \A i \in 1 .. Len(Tail(queue)) : Tail(queue)[i] = queue[i + 1]
      /\ Head(queue) = queue[1] /\ queue[1] \in Readings
  BY QueueFacts, TailFacts
<1>2. ToSet(queue) = {Head(queue)} \cup ToSet(Tail(queue))
  BY QueueFacts, ToSetFacts
<1>3. \A i, j \in 1 .. Len(queue) :
        i < j /\ queue[i].id = queue[j].id => queue[i].n < queue[j].n
  BY InOrderFacts DEF QueueInv
<1>4. \A q \in ToSet(Tail(queue)) :
        q.id = Head(queue).id => Head(queue).n < q.n
  <2> SUFFICES ASSUME NEW q \in ToSet(Tail(queue)), q.id = Head(queue).id
               PROVE  Head(queue).n < q.n
    OBVIOUS
  <2>1. PICK i \in 1 .. Len(Tail(queue)) : q = Tail(queue)[i]
    <3>1. Tail(queue) \in Seq(Readings)
      BY <1>1
    <3>2. ToSet(Tail(queue)) = {Tail(queue)[j] : j \in 1 .. Len(Tail(queue))}
      BY ONLY <3>1, ToSetIs
    <3> QED BY <3>2
  <2> QED BY <2>1, <1>1, <1>3
<1>5. \A i, j \in 1 .. Len(Tail(queue)) :
        i < j /\ Tail(queue)[i].id = Tail(queue)[j].id
          => Tail(queue)[i].n < Tail(queue)[j].n
  BY <1>1, <1>3
<1>6. Head(queue) \notin ToSet(Tail(queue))
  <2>1. Head(queue).n \in Nat
    BY <1>1, ReadingFacts
  <2> QED BY <2>1, <1>4
<1> QED BY <1>1, <1>2, <1>4, <1>5, <1>6, QueueFacts

LEMMA QueueUntouched ==
  ASSUME QueueInv, UNCHANGED <<queue, taken, received, refused, discarded>>
  PROVE  QueueInv'
<1>1. OnePlace' <=> OnePlace
  BY DEF OnePlace, Received, Passed, Refused
<1>2. InOrder' <=> InOrder
  BY DEF InOrder, Places
<1> QED BY <1>1, <1>2, PlacesFacts, PlacesFactsNext DEF QueueInv

\* The first reading leaves the buffer, to a thread as long as nothing was
\* discarded, or to nowhere.
LEMMA LeaveQueue ==
  ASSUME QueueInv, queue # <<>>, queue' = Tail(queue), UNCHANGED <<received, refused>>,
         taken' \in [{"datamgr", "storagemgr"} -> Seq(Readings)],
         \/ /\ ToSet(taken'["datamgr"]) = ToSet(taken["datamgr"]) \cup {Head(queue)}
            /\ taken'["storagemgr"] = taken["storagemgr"]
            /\ discarded = {} /\ discarded' = {}
         \/ /\ ToSet(taken'["storagemgr"]) = ToSet(taken["storagemgr"]) \cup {Head(queue)}
            /\ taken'["datamgr"] = taken["datamgr"]
            /\ discarded = {} /\ discarded' = {}
         \/ UNCHANGED taken /\ discarded' = discarded \cup {Head(queue)}
  PROVE  QueueInv'
<1> DEFINE h == Head(queue)
<1>0. /\ h \in Readings /\ h \in ToSet(queue) /\ queue' \in Seq(Readings)
      /\ ToSet(queue) = {h} \cup ToSet(queue')
      /\ h \notin Passed /\ h \notin ToSet(queue')
      /\ \A r \in Passed : r.id = h.id => r.n < h.n
      /\ \A q \in ToSet(queue') : q.id = h.id => h.n < q.n
      /\ \A i, j \in 1 .. Len(queue') :
           i < j /\ queue'[i].id = queue'[j].id => queue'[i].n < queue'[j].n
  BY HeadFacts
<1>00. \/ /\ ToSet(taken'["datamgr"]) = ToSet(taken["datamgr"]) \cup {h}
          /\ taken'["storagemgr"] = taken["storagemgr"]
          /\ discarded = {} /\ discarded' = {}
       \/ /\ ToSet(taken'["storagemgr"]) = ToSet(taken["storagemgr"]) \cup {h}
          /\ taken'["datamgr"] = taken["datamgr"]
          /\ discarded = {} /\ discarded' = {}
       \/ UNCHANGED taken /\ discarded' = discarded \cup {h}
  OBVIOUS
<1> HIDE DEF h
<1>1. Passed' = Passed \cup {h}
  BY <1>00 DEF Passed
<1>2. InOrder'
  <2>1. \A q \in ToSet(queue'), r \in Passed' : q.id = r.id => r.n < q.n
    BY <1>0, <1>1, QueueFacts
  <2>2. \A d \in discarded' :
         \A r \in ToSet(taken'["datamgr"]) \cup ToSet(taken'["storagemgr"]) :
           d.id = r.id => r.n < d.n
    <3>1. CASE discarded' = {}
      BY <3>1
    <3>2. CASE UNCHANGED taken /\ discarded' = discarded \cup {h}
      <4>1. \A d \in discarded :
         \A r \in ToSet(taken["datamgr"]) \cup ToSet(taken["storagemgr"]) :
           d.id = r.id => r.n < d.n
        BY InOrderFacts DEF QueueInv
      <4> QED BY <3>2, <4>1, <1>0 DEF Passed
    <3> QED BY <3>1, <3>2, <1>00
  <2> QED BY <2>1, <2>2, <1>0, InOrderFactsNext
<1>3. Received' = Received /\ Refused' = Refused
  BY DEF Received, Refused
<1>4. OnePlace'
  <2>1. OnePlace
    BY QueueFacts
  <2>2. /\ Received' = ToSet(queue') \cup Passed' \cup Refused'
        /\ ToSet(queue') \cap Passed' = {}
        /\ (ToSet(queue') \cup Passed') \cap Refused' = {}
    BY <2>1, <1>0, <1>1, <1>3 DEF OnePlace
  <2>3. /\ ToSet(taken'["datamgr"]) \cap ToSet(taken'["storagemgr"]) = {}
        /\ (ToSet(taken'["datamgr"]) \cup ToSet(taken'["storagemgr"])) \cap discarded' = {}
    BY <2>1, <1>0, <1>00 DEF OnePlace, Passed
  <2>4. /\ refused'["null_buffer"] \cap refused'["no_memory"] = {}
        /\ refused'["null_buffer"] = IF BufferShared THEN {} ELSE Received'
    BY <2>1, <1>3 DEF OnePlace
  <2> QED BY <2>2, <2>3, <2>4 DEF OnePlace
<1>5. discarded' \in SUBSET Readings
  BY <1>0, <1>00 DEF QueueInv
<1> QED BY <1>0, <1>2, <1>4, <1>5, PlacesFactsNext DEF QueueInv

\* A reading that arrives is newer than all of its sensor before it.
LEMMA ArriveFacts ==
  ASSUME QueueInv, NEW s \in Sensors, Arrive(s)
  PROVE  LET r == Reading(s, received[s] + 1)
         IN /\ r \in Readings /\ r.id = s
            /\ received' \in [Sensors -> Nat]
            /\ \A t \in Sensors : received'[t] <= MaxReadings[t]
            /\ Received' = Received \cup {r}
            /\ r \notin Received
            /\ \A x \in Received : x.id = s => x.n < r.n
            /\ UNCHANGED discarded
<1> DEFINE n == received[s] + 1
           r == Reading(s, n)
<1>1. /\ received[s] \in Nat /\ received[s] < MaxReadings[s]
      /\ received' = [received EXCEPT ![s] = n]
      /\ MaxReadings[s] \in Nat
      /\ UNCHANGED discarded
  BY ReadingFacts DEF QueueInv, Arrive
<1>2. r \in Readings /\ r.id = s /\ r.n = n
  BY <1>1, ReadingFacts
<1>3. /\ received' \in [Sensors -> Nat]
      /\ \A t \in Sensors : received'[t] <= MaxReadings[t]
      /\ \A t \in Sensors : t # s => received'[t] = received[t]
      /\ received'[s] = received[s] + 1
  BY <1>1 DEF QueueInv
<1>4. \A x \in Readings : x.id = s /\ x.n = received[s] + 1 => x = r
  BY ReadingFacts
<1> HIDE DEF r
<1>5. Received' = Received \cup {r}
  <2>1. \A x : x \in Received' <=> x \in Readings /\ x.n <= received'[x.id]
    BY DEF Received
  <2>2. r \in Received'
    BY <1>2, <1>3, <2>1
  <2>3. \A x \in Received : x \in Received'
    BY <1>1, <1>3, <2>1, ReceivedFacts, ReadingFacts
  <2>4. \A x \in Received' : x \in Received \/ x = r
    BY <1>1, <1>3, <1>4, <2>1, ReceivedFacts, ReadingFacts
  <2> QED BY <2>2, <2>3, <2>4
<1>6. \A x \in Received : x.id = s => x.n < r.n
  BY <1>1, <1>2, ReceivedFacts, ReadingFacts
<1>7. r \notin Received
  BY <1>1, <1>2, ReceivedFacts
<1> QED BY <1>1, <1>2, <1>3, <1>5, <1>6, <1>7 DEF r

LEMMA EnterQueue ==
  ASSUME QueueInv, NEW s \in Sensors, Receive(s)
  PROVE  QueueInv'
<1> DEFINE r == Reading(s, received[s] + 1)
<1>1. /\ Arrive(s) /\ BufferShared /\ UNCHANGED <<taken, refused>>
      /\ queue' = Append(queue, r)
  BY DEF Receive, Buffer!Insert
<1>2. /\ r \in Readings /\ r.id = s
      /\ received' \in [Sensors -> Nat]
      /\ \A t \in Sensors : received'[t] <= MaxReadings[t]
      /\ Received' = Received \cup {r}
      /\ r \notin Received
      /\ \A x \in Received : x.id = s => x.n < r.n
      /\ UNCHANGED discarded
  BY <1>1, ArriveFacts
<1> HIDE DEF r
<1>3. Passed' = Passed /\ Refused' = Refused
  BY <1>1, <1>2 DEF Passed, Refused
<1>4. /\ queue' \in Seq(Readings) /\ ToSet(queue') = ToSet(queue) \cup {r}
      /\ Len(queue') = Len(queue) + 1 /\ queue'[Len(queue) + 1] = r
      /\ \A i \in 1 .. Len(queue) : queue'[i] = queue[i]
  BY <1>1, <1>2, QueueFacts, AppendFacts, ToSetFacts
<1>5. InOrder'
  <2>1. \A q \in ToSet(queue'), x \in Passed' : q.id = x.id => x.n < q.n
    BY <1>2, <1>3, <1>4, QueueFacts
  <2>2. \A i, j \in 1 .. Len(queue') :
          i < j /\ queue'[i].id = queue'[j].id => queue'[i].n < queue'[j].n
    <3>1. \A i \in 1 .. Len(queue) : queue[i] \in Received
      BY QueueFacts, ToSetFacts
    <3> SUFFICES ASSUME NEW i \in 1 .. Len(queue'), NEW j \in 1 .. Len(queue'),
                        i < j, queue'[i].id = queue'[j].id
                 PROVE  queue'[i].n < queue'[j].n
      OBVIOUS
    <3>2. CASE j \in 1 .. Len(queue)
      <4>1. i \in 1 .. Len(queue)
        BY <3>2, QueueFacts
      <4>2. queue[i].id = queue[j].id => queue[i].n < queue[j].n
        BY <3>2, <4>1, InOrderFacts DEF QueueInv
      <4> QED BY <1>4, <3>2, <4>1, <4>2
    <3>3. CASE j = Len(queue) + 1
      <4>1. i \in 1 .. Len(queue)
        BY <3>3, QueueFacts
      <4> QED BY <4>1, <1>2, <1>4, <3>1, <3>3
    <3>4. j \in 1 .. Len(queue) \/ j = Len(queue) + 1
      <4>1. Len(queue) \in Nat /\ Len(queue') = Len(queue) + 1
        BY <1>4, QueueFacts
      <4> QED BY <4>1
    <3> QED BY <3>2, <3>3, <3>4
  <2>3. \A d \in discarded :
         \A x \in ToSet(taken["datamgr"]) \cup ToSet(taken["storagemgr"]) :
           d.id = x.id => x.n < d.n
    BY InOrderFacts DEF QueueInv
  <2> QED BY <2>1, <2>2, <2>3, <1>1, <1>2, InOrderFactsNext
<1>6. OnePlace'
  <2>1. OnePlace
    BY QueueFacts
  <2>2. /\ Received' = ToSet(queue') \cup Passed' \cup Refused'
        /\ ToSet(queue') \cap Passed' = {}
        /\ (ToSet(queue') \cup Passed') \cap Refused' = {}
    BY <2>1, <1>2, <1>3, <1>4 DEF OnePlace
  <2> QED BY <2>1, <2>2, <1>1, <1>2 DEF OnePlace
<1> QED BY <1>1, <1>2, <1>4, <1>5, <1>6, PlacesFactsNext DEF QueueInv

\* A reading that sbuffer_insert refuses is in none of the other places.
LEMMA RefuseReading ==
  ASSUME QueueInv, NEW s \in Sensors, ReceiveRefused(s)
  PROVE  QueueInv' /\ UNCHANGED <<queue, taken, discarded>>
<1> DEFINE r == Reading(s, received[s] + 1)
<1>1. /\ Arrive(s) /\ UNCHANGED <<queue, taken>>
      /\ \E c \in Causes :
           /\ refused' = [refused EXCEPT ![c] = @ \cup {r}]
           /\ BufferShared <=> c = "no_memory"
  BY DEF ReceiveRefused, Refusal, qvars, Causes
<1>2. /\ r \in Readings
      /\ received' \in [Sensors -> Nat]
      /\ \A t \in Sensors : received'[t] <= MaxReadings[t]
      /\ Received' = Received \cup {r}
      /\ r \notin Received
      /\ UNCHANGED discarded
  BY <1>1, ArriveFacts
<1> HIDE DEF r
<1>3. PICK c \in Causes :
           /\ refused' = [refused EXCEPT ![c] = @ \cup {r}]
           /\ BufferShared <=> c = "no_memory"
  BY <1>1
<1>4. /\ refused' \in [Causes -> SUBSET Readings]
      /\ refused'["null_buffer"] = IF BufferShared THEN refused["null_buffer"]
                                   ELSE refused["null_buffer"] \cup {r}
      /\ refused'["no_memory"] = IF BufferShared THEN refused["no_memory"] \cup {r}
                                 ELSE refused["no_memory"]
  BY <1>2, <1>3 DEF QueueInv, Causes
<1>5. Passed' = Passed /\ Refused' = Refused \cup {r}
  BY <1>1, <1>2, <1>4 DEF Passed, Refused
<1>6. OnePlace'
  <2>1. OnePlace
    BY QueueFacts
  <2>2. /\ Received' = ToSet(queue') \cup Passed' \cup Refused'
        /\ ToSet(queue') \cap Passed' = {}
        /\ (ToSet(queue') \cup Passed') \cap Refused' = {}
    BY <2>1, <1>1, <1>2, <1>5 DEF OnePlace
  <2>3. /\ refused'["null_buffer"] = IF BufferShared THEN {} ELSE Received'
        /\ refused'["null_buffer"] \cap refused'["no_memory"] = {}
    BY <2>1, <1>2, <1>4 DEF OnePlace, Refused
  <2> QED BY <2>1, <2>2, <2>3, <1>1, <1>2 DEF OnePlace
<1>7. InOrder'
  BY <1>1, <1>2 DEF QueueInv, InOrder, Places
<1> QED BY <1>1, <1>2, <1>4, <1>6, <1>7, PlacesFactsNext DEF QueueInv

-----------------------------------------------------------------------------
(* The storagemgr thread *)

\* What the thread has taken, and where it is.
LEMMA StoreFacts ==
  ASSUME QueueInv, StoreInv
  PROVE  LET holding == IF spc = "insert" THEN {sheld} ELSE {}
             got     == ToSet(taken["storagemgr"])
         IN /\ got = (S!Rows \cap Readings) \cup failed \cup holding
            /\ S!Rows \cap failed = {}
            /\ holding \cap (S!Rows \cup failed) = {}
            /\ got \subseteq Readings
            /\ db \in Seq(Readings \cup S!OldRows) /\ Len(db) \in Nat
            /\ S!Rows = ToSet(db) /\ S!Rows \subseteq Readings \cup S!OldRows
            /\ \A k \in 1 .. Len(db) : db[k] \in S!Rows
            /\ \A r \in S!OldRows : r.n = 0
            /\ \A k, l \in 1 .. Len(db) :
                 k < l /\ db[k].id = db[l].id => db[k].n < db[l].n
<1>1. db \in Seq(Readings \cup S!OldRows) /\ Len(db) \in Nat
  BY SeqFacts DEF StoreInv
<1>2. S!Rows = ToSet(db) /\ S!Rows \subseteq Readings \cup S!OldRows
      /\ \A k \in 1 .. Len(db) : db[k] \in S!Rows
  <2>1. S!Rows = ToSet(db)
    BY <1>1, ToSetIs DEF S!Rows
  <2> QED BY <2>1, <1>1, ToSetFacts
<1>3. \A r \in S!OldRows : r.n = 0
  BY DEF S!OldRows
<1>4. ToSet(taken["storagemgr"]) \subseteq Readings
  BY QueueFacts, ToSetFacts
<1>5. \A k, l \in 1 .. Len(db) :
        k < l /\ db[k].id = db[l].id => db[k].n < db[l].n
  BY DEF StoreInv, S!Storing
<1> QED
  BY <1>1, <1>2, <1>3, <1>4, <1>5 DEF StoreInv, TakenAreStored

\* Whoever moves, the table and the thread are as they were.
LEMMA StoreUntouched ==
  ASSUME StoreInv, UNCHANGED <<tries, sheld, db, failed, reported>>,
         taken'["storagemgr"] = taken["storagemgr"],
         \/ spc' = spc
         \/ /\ spc # "insert" /\ spc' # "insert"
            /\ spc' \in {"unborn", "connect"} => spc \in {"unborn", "connect"}
  PROVE  StoreInv'
<1>1. S!Rows' = S!Rows
  BY DEF S!Rows
<1>2. TakenAreStored'
  BY <1>1 DEF StoreInv, TakenAreStored
<1>3. S!Storing'
  BY Names DEF StoreInv, S!Storing, S!MaxTries
<1> QED BY <1>2, <1>3 DEF StoreInv, S!MaxTries, S!OldRows

\* The reading taken is newer than every row of its sensor.
LEMMA StoreOfTakeReading ==
  ASSUME QueueInv, StoreInv, S!TakeReading
  PROVE  /\ StoreInv'
         /\ queue # <<>> /\ queue' = Tail(queue)
         /\ taken' \in [{"datamgr", "storagemgr"} -> Seq(Readings)]
         /\ taken'["datamgr"] = taken["datamgr"]
         /\ ToSet(taken'["storagemgr"]) =
               ToSet(taken["storagemgr"]) \cup {Head(queue)}
<1> DEFINE h == Head(queue)
<1>1. /\ queue # <<>> /\ queue' = Tail(queue)
      /\ taken' = [taken EXCEPT !["storagemgr"] = Append(@, h)]
      /\ spc = "loop" /\ spc' = "insert" /\ sheld' = h
      /\ UNCHANGED <<tries, db, failed, reported>>
  BY DEF S!TakeReading, S!Buffer!Remove
<1>2. /\ h \in Readings /\ h \notin Passed
      /\ \A r \in Passed : r.id = h.id => r.n < h.n
  BY <1>1, HeadFacts
<1> HIDE DEF h
<1>3. Append(taken["storagemgr"], h) \in Seq(Readings)
      /\ ToSet(Append(taken["storagemgr"], h)) = ToSet(taken["storagemgr"]) \cup {h}
  BY <1>2, QueueFacts, AppendFacts, ToSetFacts
<1>4. /\ taken' \in [{"datamgr", "storagemgr"} -> Seq(Readings)]
      /\ taken'["datamgr"] = taken["datamgr"]
      /\ taken'["storagemgr"] = Append(taken["storagemgr"], h)
  BY <1>1, <1>3 DEF QueueInv
<1>5. /\ ToSet(taken'["storagemgr"]) = ToSet(taken["storagemgr"]) \cup {h}
      /\ h \notin ToSet(taken["storagemgr"])
  BY <1>2, <1>3, <1>4 DEF Passed
<1>6. S!Rows' = S!Rows
  BY <1>1 DEF S!Rows
<1>7. h \notin S!Rows /\ h \notin failed
  BY <1>1, <1>2, <1>5, StoreFacts
<1>8. TakenAreStored'
  BY <1>1, <1>5, <1>6, <1>7, StoreFacts DEF TakenAreStored
<1>9. S!Storing'
  <2>1. \A k \in 1 .. Len(db) : db[k].id = h.id => db[k].n < h.n
    <3> SUFFICES ASSUME NEW k \in 1 .. Len(db), db[k].id = h.id PROVE db[k].n < h.n
      OBVIOUS
    <3>1. CASE db[k] \in S!OldRows
      BY <3>1, <1>2, StoreFacts, ReadingFacts
    <3>2. CASE db[k] \in Readings
      <4>1. db[k] \in ToSet(taken["storagemgr"])
        BY <3>2, StoreFacts
      <4> QED BY <4>1, <1>2 DEF Passed
    <3> QED BY <3>1, <3>2, StoreFacts
  <2> QED BY <2>1, <1>1, <1>5, Names, StoreFacts DEF S!Storing
<1> QED
  BY <1>1, <1>2, <1>4, <1>5, <1>8, <1>9 DEF StoreInv, S!MaxTries, S!OldRows, h

\* The reading held becomes a row behind all others, or is given up.
LEMMA StoreOfInsert ==
  ASSUME QueueInv, StoreInv, S!Insert \/ S!InsertFails
  PROVE  StoreInv'
<1>1. /\ spc = "insert" /\ spc' = "loop" /\ UNCHANGED <<taken, tries, sheld>>
      /\ reported' = reported \cup {sheld}
      /\ \/ db' = Append(db, sheld) /\ failed' = failed
         \/ db' = db /\ failed' = failed \cup {sheld}
  BY DEF S!Insert, S!InsertFails
<1>2. /\ sheld \in Readings
      /\ \A k \in 1 .. Len(db) : db[k].id = sheld.id => db[k].n < sheld.n
  BY <1>1, StoreFacts DEF StoreInv, S!Storing
<1>3. /\ Append(db, sheld) \in Seq(Readings \cup S!OldRows)
      /\ ToSet(Append(db, sheld)) = ToSet(db) \cup {sheld}
      /\ Len(Append(db, sheld)) = Len(db) + 1
      /\ \A k \in 1 .. Len(db) : Append(db, sheld)[k] = db[k]
      /\ Append(db, sheld)[Len(db) + 1] = sheld
  BY <1>2, StoreFacts, AppendFacts, ToSetFacts
<1>4. db' \in Seq(Readings \cup S!OldRows)
  BY <1>1, <1>3, StoreFacts
<1>5. S!Rows' = ToSet(db')
  BY <1>4, ToSetIs DEF S!Rows
<1>6. /\ S!Rows' \cup failed' = S!Rows \cup failed \cup {sheld}
      /\ S!Rows' \cap failed' = {}
  BY <1>1, <1>3, <1>5, StoreFacts
<1>7. TakenAreStored'
  BY <1>1, <1>2, <1>6, StoreFacts DEF TakenAreStored
<1>8. \A k, l \in 1 .. Len(db') :
        k < l /\ db'[k].id = db'[l].id => db'[k].n < db'[l].n
  BY <1>1, <1>2, <1>3, StoreFacts
<1>9. S!Storing'
  BY <1>1, <1>8 DEF S!Storing
<1> QED
  BY <1>1, <1>2, <1>4, <1>7, <1>9 DEF StoreInv, S!MaxTries, S!OldRows

\* Nothing was taken yet when the table is cleared, or not.
LEMMA StoreOfConnect ==
  ASSUME QueueInv, StoreInv, S!Connect \/ S!ConnectFails
  PROVE  StoreInv'
<1>1. /\ spc = "connect" /\ spc' \in {"connect", "loop", "terminate"}
      /\ UNCHANGED <<taken, sheld, failed, reported>>
      /\ db' \in {<<>>, db}
      /\ \/ tries' = tries /\ spc' = "loop"
         \/ tries' = tries + 1 /\ (spc' = "connect" => tries' < S!MaxTries)
  BY DEF S!Connect, S!ConnectFails
<1>2. ToSet(taken["storagemgr"]) = {} /\ taken["storagemgr"] = <<>> /\ tries < S!MaxTries
  <2>1. taken["storagemgr"] = <<>> /\ tries < S!MaxTries
    BY <1>1 DEF StoreInv, S!Storing
  <2> QED BY <2>1, QueueFacts, ToSetFacts
<1>3. db' \in Seq(Readings \cup S!OldRows) /\ (db' = db \/ Len(db') = 0)
  BY <1>1, StoreFacts, EmptySeq
<1>4. S!Rows' \subseteq S!Rows
  BY <1>3 DEF S!Rows
<1>5. TakenAreStored'
  BY <1>1, <1>2, <1>4, StoreFacts DEF TakenAreStored
<1>6. S!Storing'
  BY <1>1, <1>2, <1>3, StoreFacts DEF S!Storing, S!MaxTries
<1>7. tries' \in 0 .. S!MaxTries
  BY <1>1, <1>2 DEF StoreInv, S!MaxTries
<1> QED
  BY <1>1, <1>3, <1>5, <1>6, <1>7 DEF StoreInv, S!OldRows

-----------------------------------------------------------------------------
(* The list of the datamgr thread: its operators *)

\* sensor_id_t is a set of numbers, of which every sensor is one.
LEMMA SixteenBits ==
  /\ UINT16_MAX \in Nat
  /\ \A n \in Nat : D!uint16(n) \in 0 .. UINT16_MAX
  /\ Sensors \subseteq 0 .. UINT16_MAX
<1>1. UINT16_MAX \in Nat
  BY DEF UINT16_MAX
<1>2. ASSUME NEW n \in Nat PROVE D!uint16(n) \in 0 .. UINT16_MAX
  <2>1. D!uint16(n) = n % (UINT16_MAX + 1)
    BY Names DEF D!uint16
  <2>2. n % (65535 + 1) \in Nat /\ n % (65535 + 1) <= 65535
    OBVIOUS
  <2>3. n % (UINT16_MAX + 1) \in Nat /\ n % (UINT16_MAX + 1) <= UINT16_MAX
    BY <2>2 DEF UINT16_MAX
  <2> QED BY <1>1, <2>1, <2>3
<1> QED BY <1>1, <1>2, GatewayAssumption

\* The for loop over the temperatures.
LEMMA SumFacts ==
  ASSUME NEW t \in [1 .. RunAvgLength -> Nat]
  PROVE  /\ D!Sum(t) \in Nat
         /\ (\A k \in 1 .. RunAvgLength : t[k] = 0) => D!Sum(t) = 0
<1> DEFINE sum == CHOOSE f : f = [i \in 0 .. RunAvgLength |->
                                   IF i = 0 THEN 0 ELSE f[i - 1] + t[i]]
<1>1. RunAvgLength \in Nat
  BY GatewayAssumption
<1>2. /\ sum \in [0 .. RunAvgLength -> Nat]
      /\ sum[0] = 0
      /\ \A i \in 1 .. RunAvgLength : sum[i] = sum[i - 1] + t[i]
  BY <1>1, RunningSum
<1>3. D!Sum(t) = sum[RunAvgLength]
  BY DEF D!Sum
<1> HIDE DEF sum
<1>4. ASSUME \A k \in 1 .. RunAvgLength : t[k] = 0
      PROVE  sum[RunAvgLength] = 0
  BY <1>1, <1>2, <1>4, SumOfZeros
<1> QED BY <1>1, <1>2, <1>3, <1>4

LEMMA FreshFacts ==
  ASSUME NEW line \in Lines
  PROVE  LET f == D!Fresh(line)
         IN /\ f \in D!sensor_t
            /\ f.sensor_id = D!uint16(line.first)
            /\ f.room_id = D!uint16(line.second)
            /\ f.last_modified = 0 /\ f.sum = 0
            /\ f.temperatures \in [1 .. RunAvgLength -> Nat]
            /\ \A k \in 1 .. RunAvgLength : f.temperatures[k] = 0
            /\ f.sum = D!Sum(f.temperatures)
            /\ f.last_modified = D!TimeOf(f.sensor_id, f.temperatures[1])
<1> DEFINE f == D!Fresh(line)
           t == [i \in 1 .. RunAvgLength |-> 0]
<1>1. /\ f.sensor_id = D!uint16(line.first) /\ f.room_id = D!uint16(line.second)
      /\ f.last_modified = 0 /\ f.sum = 0 /\ f.temperatures = t
      /\ f = [sensor_id |-> f.sensor_id, room_id |-> f.room_id,
              last_modified |-> 0, temperatures |-> t, sum |-> 0]
  BY DEF D!Fresh
<1>2. t \in [1 .. RunAvgLength -> Nat] /\ \A k \in 1 .. RunAvgLength : t[k] = 0
  OBVIOUS
<1> HIDE DEF f, t
<1>3. line.first \in Nat /\ line.second \in Nat
  BY DEF Lines
<1>4. f \in D!sensor_t
  BY <1>1, <1>2, <1>3, SixteenBits, Names DEF D!sensor_t
<1>5. D!Sum(t) = 0 /\ t[1] = 0
  BY <1>2, SumFacts, GatewayAssumption
<1> QED BY <1>1, <1>2, <1>4, <1>5 DEF f, D!TimeOf

\* dpl_get_index_of_element finds the first place, if there is any.
LEMMA IndexFacts ==
  ASSUME list \in Seq(D!sensor_t), NEW id \in 0 .. UINT16_MAX
  PROVE  \/ /\ D!IndexOf(id) = 0
            /\ \A i \in 1 .. Len(list) : list[i].sensor_id # id
         \/ /\ D!IndexOf(id) \in 1 .. Len(list)
            /\ list[D!IndexOf(id)].sensor_id = id
            /\ \A j \in 1 .. D!IndexOf(id) - 1 : list[j].sensor_id # id
<1> DEFINE I == {i \in 1 .. Len(list) :
                  D!element_compare(list[i].sensor_id, id) = 0}
<1>1. Len(list) \in Nat /\ \A i \in 1 .. Len(list) : list[i].sensor_id \in Int
  <2>1. \A i \in 1 .. Len(list) : list[i] \in D!sensor_t
    BY SeqFacts
  <2>2. \A x \in D!sensor_t : x.sensor_id \in 0 .. UINT16_MAX
    BY Names DEF D!sensor_t
  <2>3. 0 .. UINT16_MAX \subseteq Int
    BY SixteenBits
  <2> QED BY <2>1, <2>2, <2>3, SeqFacts
<1>2. \A i \in 1 .. Len(list) :
        D!element_compare(list[i].sensor_id, id) = 0 <=> list[i].sensor_id = id
  BY <1>1, SixteenBits DEF D!element_compare
<1>3. D!IndexOf(id) = IF I # {} THEN CHOOSE x \in I : \A y \in I : x <= y ELSE 0
  BY DEF D!IndexOf, D!SelectInSeq, D!Min
<1> HIDE DEF D!element_compare
<1>4. CASE I = {}
  BY <1>2, <1>3, <1>4
<1>5. CASE I # {}
  <2>1. I \in SUBSET Nat
    BY <1>1
  <2>2. \E x \in I : \A y \in I : x <= y
    <3> HIDE DEF I
    <3> QED BY <1>5, <2>1, LeastNumber
  <2>3. /\ D!IndexOf(id) \in I
        /\ \A y \in I : D!IndexOf(id) <= y
    <3> HIDE DEF I
    <3> QED BY <1>3, <1>5, <2>2
  <2> QED BY <1>1, <1>2, <2>3
<1> QED BY <1>4, <1>5

\* memmove, and the new value in front.
LEMMA ShiftFacts ==
  ASSUME NEW t \in [1 .. RunAvgLength -> Nat], NEW v \in Nat
  PROVE  /\ D!Shift(v, t) \in [1 .. RunAvgLength -> Nat]
         /\ D!Shift(v, t)[1] = v
         /\ \A k \in 2 .. RunAvgLength : D!Shift(v, t)[k] = t[k - 1]
<1> DEFINE u == SubSeq(t, 1, RunAvgLength - 1)
<1>1. RunAvgLength \in Nat /\ RunAvgLength >= 1
  BY GatewayAssumption
<1>2. /\ u \in Seq(Nat) /\ Len(u) = RunAvgLength - 1
      /\ \A k \in 1 .. RunAvgLength - 1 : u[k] = t[k]
  BY <1>1, SubSeqProperties
<1> HIDE DEF u
<1>3. /\ <<v>> \in Seq(Nat) /\ Len(<<v>>) = 1 /\ <<v>>[1] = v
  OBVIOUS
<1>4. /\ <<v>> \o u \in Seq(Nat) /\ Len(<<v>> \o u) = RunAvgLength
      /\ \A k \in 1 .. RunAvgLength :
           (<<v>> \o u)[k] = IF k <= 1 THEN v ELSE u[k - 1]
  BY <1>1, <1>2, <1>3, ConcatProperties
<1>5. <<v>> \o u \in [1 .. RunAvgLength -> Nat]
  BY <1>4, LenProperties
<1>6. /\ (<<v>> \o u)[1] = v
      /\ \A k \in 2 .. RunAvgLength : (<<v>> \o u)[k] = t[k - 1]
  BY <1>1, <1>2, <1>4
<1> QED BY <1>5, <1>6 DEF D!Shift, u

\* A reading newer than all before it, put in front of the newest of those,
\* gives the newest of all.
LEMMA ShiftKeepsNewest ==
  ASSUME NEW t \in [1 .. RunAvgLength -> Nat], NEW M \in SUBSET Readings,
         D!AreNewest(t, M),
         NEW h \in Readings, \A r \in M : r.n < h.n
  PROVE  D!AreNewest(D!Shift(h.n, t), M \cup {h})
<1> DEFINE u == D!Shift(h.n, t)
<1>1. RunAvgLength \in Nat /\ RunAvgLength >= 1
  BY GatewayAssumption
<1>2. h.n \in Nat /\ h.n >= 1 /\ \A r \in M : r.n \in Nat /\ r.n >= 1
  BY ReadingFacts
<1>3. /\ u \in [1 .. RunAvgLength -> Nat] /\ u[1] = h.n
      /\ \A k \in 2 .. RunAvgLength : u[k] = t[k - 1]
  BY <1>2, ShiftFacts
<1> HIDE DEF u
<1>4. \A k \in 1 .. RunAvgLength : t[k] # 0 =>
        /\ \A j \in 1 .. k - 1 : t[j] > t[k]
        /\ \E r \in M : r.n = t[k]
  BY DEF D!AreNewest
<1>5. ASSUME NEW k \in 1 .. RunAvgLength, u[k] # 0
      PROVE  /\ \A j \in 1 .. k - 1 : u[j] > u[k]
             /\ \E r \in M \cup {h} : r.n = u[k]
  <2>1. CASE k = 1
    BY <2>1, <1>3
  <2>2. CASE k \in 2 .. RunAvgLength
    <3>1. k - 1 \in 1 .. RunAvgLength /\ u[k] = t[k - 1] /\ t[k - 1] # 0
      BY <1>1, <1>3, <1>5, <2>2
    <3>2. PICK r \in M : r.n = t[k - 1]
      BY <1>4, <3>1
    <3>3. ASSUME NEW j \in 1 .. k - 1 PROVE u[j] > u[k]
      <4>1. CASE j = 1
        BY <4>1, <3>1, <3>2, <1>2, <1>3
      <4>2. CASE j \in 2 .. k - 1
        <5>1. j - 1 \in 1 .. (k - 1) - 1 /\ u[j] = t[j - 1]
          BY <4>2, <1>3, <2>2, <1>1
        <5> QED BY <5>1, <3>1, <1>4
      <4> QED BY <4>1, <4>2, <1>1
    <3> QED BY <3>1, <3>2, <3>3
  <2> QED BY <2>1, <2>2, <1>1
<1>6. ASSUME NEW r \in M \cup {h}
      PROVE  \/ \E k \in 1 .. RunAvgLength : u[k] = r.n
             \/ u[RunAvgLength] # 0 /\ u[RunAvgLength] > r.n
  <2>1. CASE r = h
    BY <2>1, <1>1, <1>3
  <2>2. CASE r \in M
    <3>1. CASE RunAvgLength = 1
      BY <3>1, <2>2, <1>2, <1>3
    <3>2. CASE RunAvgLength > 1
      <4>1. /\ RunAvgLength - 1 \in 1 .. RunAvgLength
            /\ u[RunAvgLength] = t[RunAvgLength - 1]
            /\ RunAvgLength \in 1 .. RunAvgLength
        BY <3>2, <1>1, <1>3
      <4>2. CASE \E k \in 1 .. RunAvgLength - 1 : t[k] = r.n
        <5>1. PICK k \in 1 .. RunAvgLength - 1 : t[k] = r.n
          BY <4>2
        <5>2. k + 1 \in 2 .. RunAvgLength /\ u[k + 1] = t[k] /\ k + 1 \in 1 .. RunAvgLength
          BY <1>1, <1>3
        <5> QED BY <5>1, <5>2
      <4>3. CASE /\ t[RunAvgLength] # 0 /\ t[RunAvgLength] >= r.n
        <5>1. t[RunAvgLength - 1] > t[RunAvgLength]
          BY <4>1, <4>3, <1>1, <1>4, <3>2
        <5> QED BY <5>1, <4>1, <4>3, <2>2, <1>2
      <4>4. \/ \E k \in 1 .. RunAvgLength : t[k] = r.n
            \/ t[RunAvgLength] # 0 /\ t[RunAvgLength] > r.n
        BY <2>2 DEF D!AreNewest
      <4>5. r.n \in Nat /\ r.n >= 1
        BY <2>2, <1>2
      <4> QED BY <4>1, <4>2, <4>3, <4>4, <4>5, <1>1
    <3> QED BY <3>1, <3>2, <1>1
  <2> QED BY <2>1, <2>2
<1> QED BY <1>5, <1>6 DEF D!AreNewest, u

-----------------------------------------------------------------------------
(* The list of the datamgr thread: its steps *)

LEMMA ListFacts ==
  ASSUME ListInv
  PROVE  /\ map \in Seq(Lines) /\ Len(map) \in Nat
         /\ \A i \in 1 .. Len(map) : map[i] \in Lines
         /\ \A i : D!Parses(map, i) => i <= Len(map)
         /\ list \in Seq(D!sensor_t) /\ Len(list) \in Nat
         /\ \A i \in 1 .. Len(list) : list[i] \in D!sensor_t
<1>1. map \in Seq(Lines)
  BY EmptySeq, GatewayAssumption DEF ListInv
<1> QED BY <1>1, SeqFacts DEF ListInv, D!Parses

\* Whoever moves, the list and the thread are as they were.
LEMMA ListUntouched ==
  ASSUME ListInv, UNCHANGED <<dheld, map, list>>,
         taken'["datamgr"] = taken["datamgr"],
         \/ dpc' = dpc
         \/ dpc' \notin {"unborn", "open_map", "load", "loop", "update"}
         \/ dpc = "unborn" /\ dpc' = "open_map"
  PROVE  ListInv'
<1>1. dpc' = dpc => \A s : D!Measured(s)' = D!Measured(s)
  BY Names DEF D!Measured
<1>2. D!Loading'
  <2>1. CASE dpc' = dpc
    BY <2>1, <1>1, Names DEF ListInv, D!Loading, D!Parses, D!Fresh
  <2>2. CASE dpc' # dpc
    BY <2>2 DEF ListInv, D!Loading
  <2> QED BY <2>1, <2>2
<1>3. D!Loaded'
  <2>1. CASE dpc' = dpc
    BY <2>1, <1>1 DEF ListInv, D!Loaded
  <2>2. CASE dpc' # dpc
    BY <2>2 DEF ListInv, D!Loaded
  <2> QED BY <2>1, <2>2
<1> QED BY <1>2, <1>3 DEF ListInv

\* The map is opened while the list is empty.
LEMMA ListOfOpenMap ==
  ASSUME ListInv, D!OpenMap
  PROVE  ListInv'
<1>1. /\ dpc = "open_map" /\ dpc' = "load" /\ map' \in MapFiles
      /\ UNCHANGED <<taken, dheld, list>>
  BY DEF D!OpenMap
<1>2. list = <<>> /\ Len(list) = 0 /\ taken["datamgr"] = <<>>
  BY <1>1 DEF ListInv, D!Loading
<1>3. Len(map') \in Nat
  BY <1>1, GatewayAssumption, SeqFacts
<1>4. D!Loading' /\ D!Loaded'
  BY <1>1, <1>2 DEF D!Loading, D!Loaded
<1> QED BY <1>1, <1>2, <1>3, <1>4 DEF ListInv

\* A line becomes the last of the list.
LEMMA ListOfLoadLine ==
  ASSUME ListInv, D!LoadLine
  PROVE  ListInv'
<1> DEFINE n == Len(list) + 1
           f == D!Fresh(map[n])
<1>1. /\ dpc = "load" /\ dpc' = "load" /\ D!Parses(map, n)
      /\ list' = Append(list, f)
      /\ UNCHANGED <<taken, dheld, map>>
  BY DEF D!LoadLine
<1>2. n \in 1 .. Len(map) /\ map[n] \in Lines
  BY <1>1, ListFacts
<1>3. f \in D!sensor_t
  BY <1>2, FreshFacts
<1>4. /\ list' \in Seq(D!sensor_t) /\ Len(list') = n
      /\ \A i \in 1 .. Len(list) : list'[i] = list[i]
      /\ list'[n] = f
  <2> HIDE DEF f
  <2> QED BY <1>1, <1>3, ListFacts, AppendFacts
<1>5. \A i \in 1 .. Len(list) : D!Parses(map, i) /\ list[i] = D!Fresh(map[i])
  BY <1>1 DEF ListInv, D!Loading
<1>6. \A i \in 1 .. n : D!Parses(map, i) /\ list'[i] = D!Fresh(map[i])
  BY <1>1, <1>4, <1>5, ListFacts
<1>7. \A i \in 1 .. Len(list') :
        D!Parses(map', i) /\ list'[i] = D!Fresh(map'[i])
  BY <1>1, <1>4, <1>6
<1>8. D!Loading' /\ D!Loaded'
  <2>1. D!Loaded'
    BY <1>1 DEF D!Loaded
  <2>2. taken'["datamgr"] = <<>>
    BY <1>1 DEF ListInv, D!Loading
  <2>3. D!Loading'
    <3> HIDE DEF f, n
    <3> QED BY <2>2, <1>1, <1>7 DEF D!Loading
  <2> QED BY <2>1, <2>3
<1> QED BY <1>1, <1>2, <1>4, <1>8 DEF ListInv

\* No reading was used yet when the list is complete.
LEMMA ListOfLoadEnds ==
  ASSUME QueueInv, ListInv, D!LoadEnds
  PROVE  ListInv'
<1>1. /\ dpc = "load" /\ dpc' = "loop" /\ ~D!Parses(map, Len(list) + 1)
      /\ UNCHANGED <<taken, dheld, map, list>>
  BY DEF D!LoadEnds
<1>2. /\ \A i \in 1 .. Len(list) : D!Parses(map, i) /\ list[i] = D!Fresh(map[i])
      /\ taken["datamgr"] = <<>>
  BY <1>1 DEF ListInv, D!Loading
<1>3. \A s : D!Measured(s)' = {}
  <2>1. ToSet(taken["datamgr"]) = {}
    BY <1>2, QueueFacts, ToSetFacts
  <2> QED BY <2>1, <1>1, Names DEF D!Measured
<1>4. ASSUME NEW i \in 1 .. Len(list)
      PROVE  /\ D!Parses(map, i)
             /\ list[i] = D!Fresh(map[i])
             /\ list[i].sensor_id = D!uint16(map[i].first)
             /\ list[i].room_id = D!uint16(map[i].second)
             /\ list[i].sum = D!Sum(list[i].temperatures)
             /\ list[i].last_modified =
                  D!TimeOf(list[i].sensor_id, list[i].temperatures[1])
             /\ D!AreNewest(list[i].temperatures, {})
  <2>1. D!Parses(map, i) /\ list[i] = D!Fresh(map[i]) /\ map[i] \in Lines
    BY <1>2, ListFacts
  <2> QED BY <2>1, FreshFacts DEF D!AreNewest
<1>5. D!Loaded'
  BY <1>1, <1>3, <1>4 DEF D!Loaded
<1>6. D!Loading'
  BY <1>1 DEF D!Loading
<1> QED BY <1>1, <1>5, <1>6 DEF ListInv

\* The reading taken is newer than all that were taken of its sensor.
LEMMA ListOfTakeReading ==
  ASSUME QueueInv, ListInv, D!TakeReading
  PROVE  /\ ListInv'
         /\ queue # <<>> /\ queue' = Tail(queue)
         /\ taken' \in [{"datamgr", "storagemgr"} -> Seq(Readings)]
         /\ taken'["storagemgr"] = taken["storagemgr"]
         /\ ToSet(taken'["datamgr"]) = ToSet(taken["datamgr"]) \cup {Head(queue)}
<1> DEFINE h == Head(queue)
<1>1. /\ queue # <<>> /\ queue' = Tail(queue)
      /\ taken' = [taken EXCEPT !["datamgr"] = Append(@, h)]
      /\ dpc = "loop" /\ dpc' = "update" /\ dheld' = h
      /\ UNCHANGED <<map, list>>
  BY DEF D!TakeReading, D!Buffer!Remove
<1>2. /\ h \in Readings /\ h \notin Passed
      /\ \A r \in Passed : r.id = h.id => r.n < h.n
  BY <1>1, HeadFacts
<1> HIDE DEF h
<1>3. Append(taken["datamgr"], h) \in Seq(Readings)
      /\ ToSet(Append(taken["datamgr"], h)) = ToSet(taken["datamgr"]) \cup {h}
  BY <1>2, QueueFacts, AppendFacts, ToSetFacts
<1>4. /\ taken' \in [{"datamgr", "storagemgr"} -> Seq(Readings)]
      /\ taken'["storagemgr"] = taken["storagemgr"]
      /\ taken'["datamgr"] = Append(taken["datamgr"], h)
  BY <1>1, <1>3 DEF QueueInv
<1>5. /\ ToSet(taken'["datamgr"]) = ToSet(taken["datamgr"]) \cup {h}
      /\ h \notin ToSet(taken["datamgr"])
  BY <1>2, <1>3, <1>4 DEF Passed
<1>6. \A s : D!Measured(s)' = D!Measured(s)
  BY <1>1, <1>5, Names DEF D!Measured
<1>7. D!Loaded'
  BY <1>1, <1>6 DEF ListInv, D!Loaded
<1>8. D!Loading'
  <2>1. \A r \in D!Measured(h.id) : r.n < h.n
    BY <1>2, Names DEF D!Measured, Passed
  <2> QED BY <2>1, <1>1, <1>5, <1>6, Names DEF D!Loading
<1> QED
  BY <1>1, <1>2, <1>4, <1>5, <1>7, <1>8 DEF ListInv, h

\* The reading held comes into the window of its sensor, if that is listed.
LEMMA ListOfUpdate ==
  ASSUME QueueInv, ListInv, D!Update
  PROVE  ListInv'
<1>0. PICK id : id = dheld.id
  OBVIOUS
<1> DEFINE i == D!IndexOf(id)
           t == D!Shift(dheld.n, list[i].temperatures)
           Used(s) == {r \in ToSet(taken["datamgr"]) : r.id = s}
<1>1. /\ dpc = "update" /\ dpc' = "loop" /\ UNCHANGED <<taken, dheld, map>>
      /\ i = 0 => list' = list
      /\ i # 0 => list' = [list EXCEPT ![i].last_modified = dheld.ts,
                                       ![i].temperatures  = t,
                                       ![i].sum           = D!Sum(t)]
  BY <1>0 DEF D!Update
<1>2. /\ dheld \in ToSet(taken["datamgr"]) /\ dheld \in Readings
      /\ \A r \in D!Measured(id) : r.n < dheld.n
  BY <1>0, <1>1, QueueFacts, ToSetFacts, Names DEF ListInv, D!Loading
<1>3. /\ id \in 0 .. UINT16_MAX /\ dheld.n \in Nat /\ dheld.n >= 1
      /\ dheld.ts \in Int /\ dheld.ts = Timestamps[id][dheld.n]
  BY <1>0, <1>2, ReadingFacts, SixteenBits
<1>4. /\ \A s : s # id => Used(s) = D!Measured(s)
      /\ Used(id) = D!Measured(id) \cup {dheld}
      /\ D!Measured(id) \in SUBSET Readings
  <2>1. \A s : D!Measured(s) =
               {r \in ToSet(taken["datamgr"]) : r.id = s /\ r # dheld}
    BY <1>1, Names DEF D!Measured
  <2>2. ToSet(taken["datamgr"]) \subseteq Readings
    BY QueueFacts, ToSetFacts
  <2> QED BY <2>1, <2>2, <1>0, <1>2
<1>5. \/ i = 0 /\ \A j \in 1 .. Len(list) : list[j].sensor_id # id
      \/ /\ i \in 1 .. Len(list) /\ list[i].sensor_id = id
         /\ \A j \in 1 .. i - 1 : list[j].sensor_id # id
  BY <1>3, IndexFacts, ListFacts
<1> HIDE DEF i, Used
<1>6. ASSUME NEW j \in 1 .. Len(list)
      PROVE  /\ D!Parses(map, j)
             /\ list[j].sensor_id = D!uint16(map[j].first)
             /\ list[j].room_id = D!uint16(map[j].second)
             /\ list[j].sum = D!Sum(list[j].temperatures)
             /\ list[j].last_modified =
                  D!TimeOf(list[j].sensor_id, list[j].temperatures[1])
             /\ IF \E k \in 1 .. j - 1 : list[k].sensor_id = list[j].sensor_id
                THEN list[j] = D!Fresh(map[j])
                ELSE D!AreNewest(list[j].temperatures, D!Measured(list[j].sensor_id))
  BY <1>1 DEF ListInv, D!Loaded
<1>7. CASE i = 0
  <2>1. list' = list /\ \A j \in 1 .. Len(list) : list[j].sensor_id # id
    BY <1>1, <1>5, <1>7, ListFacts
  <2>2. \A j \in 1 .. Len(list) : Used(list[j].sensor_id) = D!Measured(list[j].sensor_id)
    BY <2>1, <1>4
  <2>3. D!Loaded'
    <3>1. \A j \in 1 .. Len(list') :
            /\ D!Parses(map', j)
            /\ list'[j].sensor_id = D!uint16(map'[j].first)
            /\ list'[j].room_id = D!uint16(map'[j].second)
            /\ list'[j].sum = D!Sum(list'[j].temperatures)
            /\ list'[j].last_modified =
                  D!TimeOf(list'[j].sensor_id, list'[j].temperatures[1])
            /\ IF \E k \in 1 .. j - 1 : list'[k].sensor_id = list'[j].sensor_id
               THEN list'[j] = D!Fresh(map'[j])
               ELSE D!AreNewest(list'[j].temperatures, Used(list'[j].sensor_id))
      BY <2>1, <2>2, <1>1, <1>6
    <3>2. ~D!Parses(map', Len(list') + 1)
      BY <2>1, <1>1 DEF ListInv, D!Loaded
    <3> QED BY <3>1, <3>2, <1>1, Names DEF D!Loaded, D!Measured, Used
  <2>4. D!Loading'
    BY <1>1 DEF D!Loading
  <2> QED BY <2>1, <2>3, <2>4, <1>1 DEF ListInv
<1>8. CASE i # 0
  <2>1. /\ i \in 1 .. Len(list) /\ list[i].sensor_id = id
        /\ \A j \in 1 .. i - 1 : list[j].sensor_id # id
        /\ list[i] \in D!sensor_t
        /\ list[i].temperatures \in [1 .. RunAvgLength -> Nat]
    BY <1>5, <1>8, ListFacts DEF D!sensor_t
  <2>2. /\ t \in [1 .. RunAvgLength -> Nat] /\ t[1] = dheld.n /\ D!Sum(t) \in Nat
    BY <2>1, <1>3, ShiftFacts, SumFacts
  <2>3. D!AreNewest(t, Used(id))
    <3>1. ~ \E k \in 1 .. i - 1 : list[k].sensor_id = list[i].sensor_id
      BY <2>1
    <3>2. D!AreNewest(list[i].temperatures, D!Measured(id))
      BY <3>1, <2>1, <1>6
    <3>3. D!AreNewest(t, D!Measured(id) \cup {dheld})
      BY <3>2, <2>1, <1>2, <1>4, ShiftKeepsNewest
    <3> HIDE DEF t
    <3> QED BY <3>3, <1>4
  <2> HIDE DEF t
  <2> DEFINE new == [list[i] EXCEPT !.last_modified = dheld.ts,
                                    !.temperatures = t, !.sum = D!Sum(t)]
  <2>4. /\ new \in D!sensor_t
        /\ new.sensor_id = id /\ new.room_id = list[i].room_id
        /\ new.last_modified = dheld.ts /\ new.temperatures = t /\ new.sum = D!Sum(t)
    BY <2>1, <2>2, <1>3 DEF D!sensor_t
  <2>5. list' = [list EXCEPT ![i] = new]
    BY <2>1, <1>1, <1>8, ListFacts DEF D!sensor_t
  <2> HIDE DEF new
  <2>6. /\ list' \in Seq(D!sensor_t) /\ Len(list') = Len(list)
        /\ list'[i] = new
        /\ \A j \in 1 .. Len(list) : j # i => list'[j] = list[j]
    BY <2>1, <2>4, <2>5, ListFacts, ExceptSeq
  <2>7. \A j \in 1 .. Len(list) : list'[j].sensor_id = list[j].sensor_id
                                 /\ list'[j].room_id = list[j].room_id
    BY <2>1, <2>4, <2>6
  <2>8. ASSUME NEW j \in 1 .. Len(list')
        PROVE  /\ D!Parses(map', j)
               /\ list'[j].sensor_id = D!uint16(map'[j].first)
               /\ list'[j].room_id = D!uint16(map'[j].second)
               /\ list'[j].sum = D!Sum(list'[j].temperatures)
               /\ list'[j].last_modified =
                  D!TimeOf(list'[j].sensor_id, list'[j].temperatures[1])
               /\ IF \E k \in 1 .. j - 1 : list'[k].sensor_id = list'[j].sensor_id
                  THEN list'[j] = D!Fresh(map'[j])
                  ELSE D!AreNewest(list'[j].temperatures,
                                   Used(list'[j].sensor_id))
    <3>1. j \in 1 .. Len(list) /\ map' = map
      BY <2>6, <1>1
    <3>2. \A k \in 1 .. j - 1 : list'[k].sensor_id = list[k].sensor_id
      BY <2>7, <3>1, ListFacts
    <3>3. CASE j = i
      <4>1. ~ \E k \in 1 .. j - 1 : list'[k].sensor_id = list'[j].sensor_id
        BY <3>2, <3>3, <2>1, <2>4, <2>6
      <4>2. /\ list'[j] = new /\ D!Parses(map', j)
            /\ new.sensor_id = D!uint16(map'[j].first)
            /\ new.room_id = D!uint16(map'[j].second)
        BY <3>1, <3>3, <1>6, <2>1, <2>4, <2>6
      <4>3. /\ new.sum = D!Sum(new.temperatures)
            /\ new.last_modified = D!TimeOf(new.sensor_id, new.temperatures[1])
            /\ D!AreNewest(new.temperatures, Used(new.sensor_id))
        BY <2>2, <2>3, <2>4, <1>3 DEF D!TimeOf
      <4> QED BY <4>1, <4>2, <4>3
    <3>4. CASE j # i
      <4>1. list'[j] = list[j]
        BY <3>1, <3>4, <2>6
      <4>2. (\E k \in 1 .. j - 1 : list'[k].sensor_id = list'[j].sensor_id)
              <=> \E k \in 1 .. j - 1 : list[k].sensor_id = list[j].sensor_id
        BY <4>1, <3>2
      <4>3. ASSUME ~ \E k \in 1 .. j - 1 : list[k].sensor_id = list[j].sensor_id
            PROVE  Used(list[j].sensor_id) = D!Measured(list[j].sensor_id)
        <5>1. list[j].sensor_id # id
          BY <4>3, <3>1, <3>4, <2>1, ListFacts
        <5> QED BY <5>1, <1>4
      <4> QED BY <4>1, <4>2, <4>3, <3>1, <1>6
    <3> QED BY <3>3, <3>4
  <2>9. ~D!Parses(map', Len(list') + 1)
    BY <1>1, <2>6 DEF ListInv, D!Loaded
  <2>10. D!Loaded'
    BY <2>8, <2>9, <1>1, Names DEF D!Loaded, D!Measured, Used
  <2>11. D!Loading'
    BY <1>1 DEF D!Loading
  <2> QED BY <2>6, <2>10, <2>11, <1>1 DEF ListInv
<1> QED BY <1>7, <1>8

-----------------------------------------------------------------------------
(* All steps *)

\* What the main thread, the child and the process do leaves the list and the
\* table alone.
LEMMA OthersStep ==
  ASSUME QueueInv, ControlInv, StoreInv, ListInv,
         UNCHANGED <<dheld, map, list, tries, sheld, db, failed, reported>>,
         taken' = taken,
         \/ UNCHANGED <<dpc, spc>>
         \/ CreateThreads
         \/ Terminate \/ CancelDataMgr \/ CancelStorageMgr \/ OpenFifo
         \/ FifoOpenFails
  PROVE  StoreInv' /\ ListInv'
<1>1. \/ dpc' = dpc
      \/ dpc' \notin {"unborn", "open_map", "load", "loop", "update"}
      \/ dpc = "unborn" /\ dpc' = "open_map"
  BY DEF CreateThreads, Terminate, CancelDataMgr, CancelStorageMgr, OpenFifo,
         FifoOpenFails, dvars, ControlInv, Joined
<1>2. \/ spc' = spc
      \/ /\ spc # "insert" /\ spc' # "insert"
         /\ spc' \in {"unborn", "connect"} => spc \in {"unborn", "connect"}
  BY DEF CreateThreads, Terminate, CancelDataMgr, CancelStorageMgr, OpenFifo,
         FifoOpenFails, svars, ControlInv, Joined
<1> QED BY <1>1, <1>2, ListUntouched, StoreUntouched

\* A thread that still runs its loop finds the buffer not freed.
LEMMA NotFreedYet ==
  ASSUME ControlInv, Running, dpc = "loop" \/ spc = "loop"
  PROVE  discarded = {}
BY DEF ControlInv, FreedAfterThreads, Joined, Ended, Threads, Running

LEMMA DataMgrStep ==
  ASSUME QueueInv, ControlInv, StoreInv, ListInv, DataMgr
  PROVE  QueueInv' /\ StoreInv' /\ ListInv'
<1>1. /\ D!Next /\ Running
      /\ UNCHANGED <<tries, sheld, db, failed, reported, spc, received, refused, discarded>>
  BY DEF DataMgr, svars, gvars
<1>2. CASE D!TakeReading
  <2>1. /\ ListInv'
        /\ queue # <<>> /\ queue' = Tail(queue)
        /\ taken' \in [{"datamgr", "storagemgr"} -> Seq(Readings)]
        /\ taken'["storagemgr"] = taken["storagemgr"]
        /\ ToSet(taken'["datamgr"]) = ToSet(taken["datamgr"]) \cup {Head(queue)}
    BY <1>2, ListOfTakeReading
  <2>2. discarded = {} /\ discarded' = {}
    BY <1>1, <1>2, NotFreedYet DEF D!TakeReading
  <2>3. QueueInv'
    BY <2>1, <2>2, <1>1, LeaveQueue
  <2> QED BY <2>1, <2>3, <1>1, StoreUntouched
<1>3. CASE ~D!TakeReading
  <2>1. UNCHANGED <<queue, taken>>
    BY <1>1, <1>3 DEF D!Next, D!OpenMap, D!OpenMapFails, D!FifoWrite,
       D!FifoClose, D!LoadLine, D!LoadEnds, D!Update
  <2>2. ListInv'
    <3>1. CASE D!OpenMapFails \/ D!FifoWrite \/ D!FifoClose
      BY <3>1, ListUntouched DEF D!OpenMapFails, D!FifoWrite, D!FifoClose
    <3> QED
      BY <3>1, <1>1, <1>3, ListOfOpenMap, ListOfLoadLine, ListOfLoadEnds,
         ListOfUpdate DEF D!Next
  <2> QED BY <2>1, <2>2, <1>1, QueueUntouched, StoreUntouched
<1> QED BY <1>2, <1>3

LEMMA StorageMgrStep ==
  ASSUME QueueInv, ControlInv, StoreInv, ListInv, StorageMgr
  PROVE  QueueInv' /\ StoreInv' /\ ListInv'
<1>1. /\ S!Next /\ Running
      /\ UNCHANGED <<dpc, dheld, map, list, received, refused, discarded>>
  BY DEF StorageMgr, dvars, gvars
<1>2. CASE S!TakeReading
  <2>1. /\ StoreInv'
        /\ queue # <<>> /\ queue' = Tail(queue)
        /\ taken' \in [{"datamgr", "storagemgr"} -> Seq(Readings)]
        /\ taken'["datamgr"] = taken["datamgr"]
        /\ ToSet(taken'["storagemgr"]) = ToSet(taken["storagemgr"]) \cup {Head(queue)}
    BY <1>2, StoreOfTakeReading
  <2>2. discarded = {} /\ discarded' = {}
    BY <1>1, <1>2, NotFreedYet DEF S!TakeReading
  <2>3. QueueInv'
    BY <2>1, <2>2, <1>1, LeaveQueue
  <2> QED BY <2>1, <2>3, <1>1, ListUntouched
<1>3. CASE ~S!TakeReading
  <2>1. UNCHANGED <<queue, taken>>
    BY <1>1, <1>3 DEF S!Next, S!Connect, S!ConnectFails, S!Insert, S!InsertFails
  <2>2. StoreInv'
    BY <1>1, <1>3, StoreOfConnect, StoreOfInsert DEF S!Next
  <2> QED BY <2>1, <2>2, <1>1, QueueUntouched, ListUntouched
<1> QED BY <1>2, <1>3

LEMMA FreeNodeStep ==
  ASSUME QueueInv, FreeNode
  PROVE  QueueInv'
<1>1. /\ queue # <<>> /\ queue' = Tail(queue) /\ UNCHANGED <<taken, received, refused>>
      /\ discarded' = discarded \cup {Head(queue)}
  BY DEF FreeNode, Buffer!Discard
<1> QED BY <1>1, LeaveQueue DEF QueueInv

LEMMA StepInv == IInv /\ [Next]_vars => IInv'
<1> SUFFICES ASSUME IInv, [Next]_vars PROVE IInv'
  OBVIOUS
<1>0. QueueInv /\ ControlInv /\ StoreInv /\ ListInv
  BY Parts
<1> SUFFICES QueueInv' /\ ControlInv' /\ StoreInv' /\ ListInv'
  BY PartsNext
<1>1. CASE Next
  <2>0. ControlInv'
    BY <1>0, <1>1, ControlStep
  <2>1. ASSUME NEW s \in Sensors, Receive(s)
        PROVE  QueueInv' /\ StoreInv' /\ ListInv'
    <3>1. QueueInv'
      BY <2>1, <1>0, EnterQueue
    <3>2. /\ UNCHANGED <<dheld, map, list, dpc, tries, sheld, db, failed, reported, spc>>
          /\ taken' = taken
      BY <2>1 DEF Receive, Arrive, Buffer!Insert, dvars, svars, qvars
    <3> QED BY <3>1, <3>2, <1>0, OthersStep
  <2>6. ASSUME NEW s \in Sensors, ReceiveRefused(s)
        PROVE  QueueInv' /\ StoreInv' /\ ListInv'
    <3>1. QueueInv' /\ taken' = taken
      BY <2>6, <1>0, RefuseReading
    <3>2. UNCHANGED <<dheld, map, list, dpc, tries, sheld, db, failed, reported, spc>>
      BY <2>6 DEF ReceiveRefused, Arrive,
                  dvars, svars
    <3> QED BY <3>1, <3>2, <1>0, OthersStep
  <2>2. CASE DataMgr
    BY <2>0, <2>2, <1>0, DataMgrStep
  <2>3. CASE StorageMgr
    BY <2>0, <2>3, <1>0, StorageMgrStep
  <2>4. CASE FreeNode
    <3>1. /\ UNCHANGED <<dheld, map, list, dpc, tries, sheld, db, failed, reported, spc>>
          /\ taken' = taken
      BY <2>4 DEF FreeNode, Buffer!Discard, dvars, svars
    <3> QED BY <2>0, <2>4, <3>1, <1>0, FreeNodeStep, OthersStep
  <2>5. CASE \/ CreateThreads \/ JoinThreads \/ FreeBuffer \/ WaitAndTerminate
             \/ Child \/ OpenFifo \/ FifoOpenFails \/ ProcessExits
             \/ Terminate \/ CancelConnmgr \/ CancelDataMgr \/ CancelStorageMgr
    <3>1. /\ UNCHANGED <<queue, taken, received, refused, discarded>>
          /\ UNCHANGED <<dheld, map, list, tries, sheld, db, failed, reported>>
          /\ \/ UNCHANGED <<dpc, spc>>
             \/ CreateThreads
             \/ Terminate \/ CancelDataMgr \/ CancelStorageMgr \/ OpenFifo
             \/ FifoOpenFails
      BY <2>5 DEF CreateThreads, JoinThreads, Join, FreeBuffer, WaitAndTerminate,
         Child, OpenLog, OpenLogFails, ReadEndOfFile, ChildGoes, OpenFifo,
         FifoOpenFails, ProcessExits, Terminate, CancelConnmgr, CancelDataMgr,
         CancelStorageMgr, qvars, dvars, svars, gvars
    <3> QED BY <2>0, <3>1, <1>0, QueueUntouched, OthersStep
  <2> QED BY <1>1, <2>0, <2>1, <2>2, <2>3, <2>4, <2>5, <2>6 DEF Next, Main
<1>2. CASE UNCHANGED vars
  <2>1. ControlInv'
    <3>1. UNCHANGED <<dpc, spc, main, conmgr, child, cancelled, discarded>>
      BY <1>2 DEF vars, dvars, svars, gvars
    <3> QED BY <3>1, <1>0 DEF ControlInv, FreedAfterThreads, Joined, Ended, Threads
  <2> QED
    BY <2>1, <1>0, <1>2, QueueUntouched, OthersStep DEF vars, qvars, dvars, svars, gvars
<1> QED BY <1>1, <1>2

-----------------------------------------------------------------------------
(* The beginning, and the theorems *)

\* The rows of an earlier run are of different sensors, and older than any
\* reading of this one.
LEMMA OldTablesFacts ==
  ASSUME NEW t \in S!OldTables
  PROVE  /\ t \in Seq(S!OldRows)
         /\ \A k, l \in 1 .. Len(t) : k < l => t[k].id # t[l].id
<1>1. PICK n \in 0 .. MaxOldRows : t \in [1 .. n -> S!OldRows]
  BY DEF S!OldTables
<1>2. n \in Nat
  BY <1>1, GatewayAssumption
<1>3. t \in Seq(S!OldRows) /\ Len(t) = n
  BY <1>1, <1>2
<1> QED BY <1>1, <1>2, <1>3 DEF S!OldTables

LEMMA InitInv == Init => IInv
<1> SUFFICES ASSUME Init PROVE IInv
  OBVIOUS
<1>1. /\ queue = <<>> /\ taken = [c \in {"datamgr", "storagemgr"} |-> <<>>]
      /\ received = [s \in Sensors |-> 0] /\ discarded = {}
      /\ refused = [c \in Causes |-> {}]
      /\ taken["datamgr"] = <<>> /\ taken["storagemgr"] = <<>>
  BY DEF Init, Buffer!Init
<1>2. /\ ToSet(queue) = {} /\ ToSet(taken["datamgr"]) = {}
      /\ ToSet(taken["storagemgr"]) = {} /\ queue \in Seq(Readings) /\ Len(queue) = 0
      /\ taken \in [{"datamgr", "storagemgr"} -> Seq(Readings)]
  <2>1. <<>> \in Seq(Readings) /\ ToSet(<<>>) = {} /\ Len(<<>>) = 0
    BY EmptySeq, ToSetFacts
  <2> QED BY <2>1, <1>1
<1>3. Received = {}
  BY <1>1, ReceivedFacts, ReadingFacts
<1>4. QueueInv
  <2>1. Passed = {} /\ Refused = {} /\ refused["null_buffer"] = {}
        /\ refused["no_memory"] = {}
    BY <1>1, <1>2 DEF Passed, Refused, Causes
  <2>2. OnePlace
    BY <2>1, <1>1, <1>2, <1>3 DEF OnePlace
  <2>3. InOrder
    BY <1>1, <1>2, <2>1, InOrderFacts
  <2>4. refused \in [Causes -> SUBSET Readings]
    BY <1>1
  <2> QED BY <1>1, <1>2, <2>2, <2>3, <2>4, PlacesFacts, ReadingFacts DEF QueueInv
<1>5. ControlInv
  BY DEF Init, D!Init, S!Init, ControlInv, FreedAfterThreads, Joined
<1>6. StoreInv
  <2>1. /\ spc = "unborn" /\ tries = 0 /\ sheld = NoReading
        /\ db \in S!OldTables
        /\ failed = {} /\ reported = {}
    BY DEF Init, S!Init
  <2>2. /\ db \in Seq(S!OldRows)
        /\ \A k, l \in 1 .. Len(db) : k < l => db[k].id # db[l].id
    BY <2>1, OldTablesFacts
  <2>3. db \in Seq(Readings \cup S!OldRows)
    BY <2>2
  <2>4. S!Rows \cap Readings = {}
    <3>1. \A k \in 1 .. Len(db) : db[k] \in S!OldRows
      BY <2>2, SeqFacts
    <3>2. \A r \in S!OldRows : r.n = 0
      BY DEF S!OldRows
    <3> QED BY <3>1, <3>2, ReadingFacts DEF S!Rows
  <2>5. TakenAreStored
    BY <2>1, <2>4, <1>2 DEF TakenAreStored
  <2>6. S!Storing
    BY <2>1, <2>2, <1>1 DEF S!Storing, S!MaxTries
  <2> QED BY <2>1, <2>3, <2>5, <2>6 DEF StoreInv, S!MaxTries
<1>7. ListInv
  BY <1>1, EmptySeq DEF Init, D!Init, ListInv, D!Loading, D!Loaded
<1> QED BY <1>4, <1>5, <1>6, <1>7, Parts

(***************************************************************************)
(* The inductive invariant, whichever threads end before the others.       *)
(***************************************************************************)
THEOREM Invariance == Spec => []IInv
<1>1. Init => IInv
  BY InitInv
<1>2. IInv /\ [Next]_vars => IInv'
  BY StepInv
<1> QED BY <1>1, <1>2, PTL DEF Spec

\* The variables of the three threads, the buffer and the process keep their
\* types.
THEOREM TypeCorrect == Spec => []TypeOK
<1>1. IInv => TypeOK
  BY DEF IInv
<1> QED BY <1>1, Invariance, PTL

(***************************************************************************)
(* sbuffer_free runs when no thread can touch the buffer any more          *)
(* (main.c, run_parent).                                                   *)
(***************************************************************************)
THEOREM FreedLast == Spec => []FreedAfterThreads
<1>1. IInv => FreedAfterThreads
  BY DEF IInv
<1> QED BY <1>1, Invariance, PTL

(***************************************************************************)
(* Each reading that connmgr receives is in the buffer, or with one of its *)
(* two users, or thrown away with the buffer, or sbuffer_insert has        *)
(* refused it, and in one of these places only; what it refuses of main.c  *)
(* as it is, is everything (main.c, start_conmgr).                         *)
(***************************************************************************)
THEOREM ReadingsAccountedFor == Spec => []EachInOnePlace
<1>1. IInv => EachInOnePlace
  BY DEF IInv
<1> QED BY <1>1, Invariance, PTL

(***************************************************************************)
(* Each reading that the storagemgr thread takes comes into the table or   *)
(* is refused, once (sensor_db.c, storagemgr_parse_sensor_data).           *)
(***************************************************************************)
THEOREM StoredOnce == Spec => []TakenAreStored
<1>1. IInv => TakenAreStored
  BY DEF IInv
<1> QED BY <1>1, Invariance, PTL

(***************************************************************************)
(* The rows of a sensor are in the order in which connmgr received them,   *)
(* and a reading that the table skips went to the datamgr thread, or was   *)
(* refused by SQLite or for want of memory (sensor_db.c,                   *)
(* storagemgr_parse_sensor_data).                                          *)
(***************************************************************************)
THEOREM StoredInOrder == Spec => []RowsInOrder
<1>1. IInv => RowsInOrder
  <2> SUFFICES ASSUME IInv PROVE RowsInOrder
    OBVIOUS
  <2>0. QueueInv /\ StoreInv
    BY Parts
  <2>1. /\ Len(db) \in Nat
        /\ \A k, l \in 1 .. Len(db) :
             k < l /\ db[k].id = db[l].id => db[k].n < db[l].n
        /\ \A k \in 1 .. Len(db) : db[k] \in S!Rows
        /\ S!Rows \subseteq Readings \cup S!OldRows
        /\ \A r \in S!OldRows : r.n = 0
    BY <2>0, StoreFacts
  <2>2. ASSUME NEW l \in 1 .. Len(db), NEW r \in Readings,
               r.id = db[l].id, r.n < db[l].n
        PROVE  \/ \E k \in 1 .. l - 1 : db[k] = r
               \/ r \in ToSet(taken["datamgr"]) \cup failed \cup refused["no_memory"]
    <3>1. db[l] \in Readings /\ r.n \in Nat /\ r.n >= 1 /\ db[l].n \in Nat
      BY <2>1, <2>2, ReadingFacts
    <3>2. db[l] \in ToSet(taken["storagemgr"])
      BY <2>0, <2>1, <3>1, StoreFacts
    <3>3. OnePlace /\ db[l] \in Received
      BY <2>0, <3>2, QueueFacts DEF Passed
    <3>4. r \in Received /\ r \notin refused["null_buffer"]
      <4>1. r \in Received
        <5>1. received[r.id] \in Nat
          BY <2>0, ReadingFacts DEF QueueInv
        <5> QED BY <5>1, <2>2, <3>1, <3>3, ReceivedFacts
      <4>2. refused["null_buffer"] = {}
        BY <3>2, <3>3 DEF OnePlace, Refused, Passed
      <4> QED BY <4>1, <4>2
    <3>5. r \notin ToSet(queue)
      <4>1. db[l] \in Passed
        BY <3>2 DEF Passed
      <4> QED BY <4>1, <2>0, <2>2, <3>1, QueueFacts
    <3>6. r \notin discarded
      <4>1. \A d \in discarded :
              \A x \in ToSet(taken["datamgr"]) \cup ToSet(taken["storagemgr"]) :
                d.id = x.id => x.n < d.n
        BY <2>0, InOrderFacts DEF QueueInv
      <4> QED BY <4>1, <2>2, <3>1, <3>2
    <3>7. CASE r \in ToSet(taken["storagemgr"])
      <4>1. r \in S!Rows \/ r \in failed \/ (spc = "insert" /\ r = sheld)
        BY <2>0, <3>7, StoreFacts
      <4>2. ~(spc = "insert" /\ r = sheld)
        BY <2>0, <2>2, <3>1 DEF StoreInv, S!Storing
      <4>3. CASE r \in S!Rows
        <5>1. PICK k \in 1 .. Len(db) : db[k] = r
          BY <4>3 DEF S!Rows
        <5>2. ~(l < k) /\ k # l
          BY <5>1, <2>1, <2>2, <3>1
        <5>3. k \in 1 .. l - 1
          BY <5>2, <2>1
        <5> QED BY <5>1, <5>3
      <4> QED BY <4>1, <4>2, <4>3
    <3> QED BY <3>3, <3>4, <3>5, <3>6, <3>7 DEF OnePlace, Passed, Refused
  <2>3. ASSUME NEW l \in 1 .. Len(db), NEW k \in 1 .. l - 1, db[k].id = db[l].id
        PROVE  db[k].n < db[l].n
    <3>1. k \in 1 .. Len(db) /\ k < l
      BY <2>1
    <3> QED BY <3>1, <2>1, <2>3
  <2> QED BY <2>2, <2>3, PlacesAre DEF RowsInOrder
<1> QED BY <1>1, Invariance, PTL

\* The lines of the map that were loaded, and those of one sensor.
LEMMA LoadedLines ==
  ASSUME ListInv, dpc \in {"loop", "update"}
  PROVE  /\ D!Listed = 1 .. Len(list)
         /\ \A s : D!LinesOf(s) = {i \in 1 .. Len(list) : list[i].sensor_id = s}
<1>1. /\ Len(list) \in Nat /\ Len(list) <= Len(map) /\ Len(map) \in Nat
      /\ ~Parses(map, Len(list) + 1)
      /\ \A i \in 1 .. Len(list) :
           Parses(map, i) /\ list[i].sensor_id = D!uint16(map[i].first)
  <2>1. Len(map) \in Nat
    BY GatewayAssumption, EmptySeq, SeqFacts DEF ListInv
  <2> QED BY <2>1, SeqFacts, Names DEF ListInv, D!Loaded
<1>2. ASSUME NEW i \in D!Listed PROVE i \in 1 .. Len(list)
  <2>1. i \in 1 .. Len(map) /\ \A k \in 1 .. i : Parses(map, k)
    BY Names DEF D!Listed
  <2>2. ~(Len(list) + 1 \in 1 .. i)
    BY <1>1, <2>1
  <2> QED BY <1>1, <2>1, <2>2
<1>3. ASSUME NEW i \in 1 .. Len(list) PROVE i \in D!Listed
  <2>1. i \in 1 .. Len(map) /\ 1 .. i \subseteq 1 .. Len(list)
    BY <1>1
  <2> QED BY <1>1, <2>1, Names DEF D!Listed
<1>4. D!Listed = 1 .. Len(list)
  BY <1>2, <1>3
<1> QED BY <1>1, <1>4 DEF D!LinesOf

\* What the getters say of a sensor.
LEMMA GettersOfSensor ==
  ASSUME ListInv, dpc \in {"loop", "update"}, NEW s \in Sensors
  PROVE  D!LinesOf(s) # {} =>
           LET first == D!Min(D!LinesOf(s))
               t     == list[first].temperatures
           IN /\ D!datamgr_get_room_id(s) = D!uint16(map[first].second)
              /\ D!AreNewest(t, D!Measured(s))
              /\ D!datamgr_get_avg(s) = D!Sum(t)
              /\ D!datamgr_get_last_modified(s) = D!TimeOf(s, t[1])
              /\ \A i \in D!LinesOf(s) \ {first} : list[i] = D!Fresh(map[i])
<1> DEFINE L == {i \in 1 .. Len(list) : list[i].sensor_id = s}
           first == D!IndexOf(s)
<1>1. D!LinesOf(s) = L
  BY LoadedLines
<1>2. \/ first = 0 /\ \A i \in 1 .. Len(list) : list[i].sensor_id # s
      \/ /\ first \in 1 .. Len(list)
         /\ list[first].sensor_id = s
         /\ \A j \in 1 .. first - 1 : list[j].sensor_id # s
  BY IndexFacts, GatewayAssumption DEF ListInv
<1>3. Len(list) \in Nat
  BY SeqFacts DEF ListInv
<1>4. CASE first = 0
  <2>1. L = {}
    BY <1>2, <1>4
  <2> QED BY <2>1, <1>1
<1>5. CASE first # 0
  <2>1. first \in L /\ \A j \in L : first <= j
    BY <1>2, <1>3, <1>5
  <2>2. D!Min(L) = first
    <3>1. \A m \in L : (\A j \in L : m <= j) => m = first
      BY <2>1
    <3> HIDE DEF L, first
    <3> QED BY <2>1, <3>1 DEF D!Min
  <2>3. /\ list[first].room_id = D!uint16(map[first].second)
        /\ list[first].sum = D!Sum(list[first].temperatures)
        /\ list[first].last_modified = D!TimeOf(s, list[first].temperatures[1])
        /\ D!AreNewest(list[first].temperatures, D!Measured(s))
    <3>1. first \in 1 .. Len(list) /\ list[first].sensor_id = s
      BY <1>2, <1>5
    <3>2. ~ \E j \in 1 .. first - 1 : list[j].sensor_id = list[first].sensor_id
      BY <1>2, <1>5
    <3> HIDE DEF first, L
    <3> QED BY <3>1, <3>2 DEF ListInv, D!Loaded
  <2>4. ASSUME NEW i \in L, i # first PROVE list[i] = D!Fresh(map[i])
    <3>1. first \in 1 .. i - 1 /\ list[first].sensor_id = list[i].sensor_id
      BY <2>1, <2>4, <1>3
    <3> QED BY <3>1 DEF ListInv, D!Loaded
  <2>5. /\ D!datamgr_get_room_id(s) = list[first].room_id
        /\ D!datamgr_get_avg(s) = list[first].sum
        /\ D!datamgr_get_last_modified(s) = list[first].last_modified
    BY <1>5 DEF D!datamgr_get_room_id, D!datamgr_get_avg,
                D!datamgr_get_last_modified, D!Get
  <2> HIDE DEF L, first
  <2> QED BY <1>1, <2>1, <2>2, <2>3, <2>4, <2>5
<1> QED BY <1>4, <1>5

(***************************************************************************)
(* What datamgr.c answers about a sensor follows from the map and from the *)
(* readings of that sensor that the datamgr thread took.                   *)
(***************************************************************************)
THEOREM ListAndReadings == Spec => []ListFollowsReadings
<1>1. IInv => ListFollowsReadings
  <2> SUFFICES ASSUME IInv, dpc \in {"loop", "update"}
               PROVE  D!ListFollowsReadings
    BY DEF ListFollowsReadings, D!ListFollowsReadings
  <2>1. ListInv
    BY Parts
  <2> QED
    BY <2>1, LoadedLines, GettersOfSensor, Names DEF D!ListFollowsReadings
<1> QED BY <1>1, Invariance, PTL
=============================================================================
