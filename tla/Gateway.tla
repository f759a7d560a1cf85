------------------------------ MODULE Gateway -------------------------------
(***************************************************************************)
(* The sensor gateway of main.c: a parent process with three threads,      *)
(* which main creates and joins, around one shared buffer; and a child     *)
(* process that writes what comes out of a FIFO to gateway.log.  Modules   *)
(* DataMgr and StorageMgr are its datamgr and storagemgr threads.  Of the  *)
(* connmgr thread only what the others see of it is here: readings go into *)
(* the buffer, and the process may be ended by it at any time.             *)
(***************************************************************************)
EXTENDS SensorData, SensorMap, FiniteSets, Sequences, SequencesExt

CONSTANTS
  MapFiles, RunAvgLength, NoReading,   \* see DataMgr
  MaxOldRows,                          \* see StorageMgr
  MaxNoMemory,   \* bound on the readings sbuffer_insert has no memory for
  BufferShared   \* whether start_conmgr hands connmgr_listen the buffer of
                 \* the other threads; main.c:6 hands it a null pointer

ASSUME GatewayAssumption ==
  /\ Sensors \subseteq 0 .. UINT16_MAX
  /\ \A f \in MapFiles : f \in Seq(Lines)
  /\ RunAvgLength \in Nat \ {0}
  /\ MaxOldRows \in Nat
  /\ MaxNoMemory \in Nat
  /\ NoReading \notin Readings
  /\ BufferShared \in BOOLEAN

VARIABLES
  queue, taken,                               \* see ReadingQueue
  dpc, dheld, map, list,                      \* see DataMgr
  spc, tries, sheld, db, failed, reported,    \* see StorageMgr
  main,       \* where the main thread stands, "exited" once the process ends
  conmgr,     \* the connmgr thread: "unborn", "listening" or "ended"
  child,      \* where the child process stands
  cancelled,  \* threads with a pending pthread_cancel
  received,   \* received[s]: readings of s that connmgr has received
  refused,    \* refused[c]: the readings sbuffer_insert has refused for c
  discarded   \* the readings sbuffer_free has thrown away

Threads == {"connmgr", "datamgr", "storagemgr"}

\* What makes sbuffer_insert return SBUFFER_FAILURE.
Causes == {"null_buffer", "no_memory"}

D == INSTANCE DataMgr
S == INSTANCE StorageMgr
Buffer == INSTANCE ReadingQueue WITH Consumers <- {"datamgr", "storagemgr"}

qvars == <<queue, taken>>
dvars == <<dpc, dheld, map, list>>
svars == <<spc, tries, sheld, db, failed, reported>>
gvars == <<main, conmgr, child, cancelled, received, refused, discarded>>
vars == <<qvars, dvars, svars, gvars>>

Running == main # "exited"

Ended(t) ==
  CASE t = "connmgr"    -> conmgr = "ended"
    [] t = "datamgr"    -> dpc \in {"ended", "ended_writing"}
    [] t = "storagemgr" -> spc = "ended"

Init ==
  /\ Buffer!Init
  /\ D!Init
  /\ S!Init
  /\ main = "create"
  /\ conmgr = "unborn"
  /\ child = "open_log"
  /\ cancelled = {}
  /\ received = [s \in Sensors |-> 0]
  /\ refused = [c \in Causes |-> {}]
  /\ discarded = {}

-----------------------------------------------------------------------------
(* The threads *)

Arrive(s) ==
  /\ Running
  /\ conmgr = "listening"
  /\ received[s] < MaxReadings[s]
  /\ received' = [received EXCEPT ![s] = @ + 1]
  /\ UNCHANGED <<dvars, svars, main, conmgr, child, cancelled, discarded>>

\* sbuffer_insert returns SBUFFER_SUCCESS.
Receive(s) ==
  /\ Arrive(s)
  /\ BufferShared
  /\ Buffer!Insert(Reading(s, received[s] + 1))
  /\ UNCHANGED refused

\* Why sbuffer_insert would refuse: the buffer is null, or else malloc fails.
Refusal == IF BufferShared THEN "no_memory" ELSE "null_buffer"

\* It returns SBUFFER_FAILURE, which handle_sensor_data does not look at.
ReceiveRefused(s) ==
  /\ Arrive(s)
  /\ Refusal = "no_memory" => Cardinality(refused["no_memory"]) < MaxNoMemory
  /\ refused' = [refused EXCEPT ![Refusal] = @ \cup {Reading(s, received[s] + 1)}]
  /\ UNCHANGED qvars

DataMgr ==
  /\ Running
  /\ D!Next
  /\ UNCHANGED <<svars, gvars>>

StorageMgr ==
  /\ Running
  /\ S!Next
  /\ UNCHANGED <<dvars, gvars>>

\* Fault: the loop over the threads starts at the second one.
TerminateFromSecond ==
  /\ Running
  /\ spc = "terminate"
  /\ spc' = "joining"
  /\ cancelled' = {"datamgr", "storagemgr"}
  /\ UNCHANGED <<qvars, dvars, tries, sheld, db, failed, reported, main,
                 conmgr, child, received, refused, discarded>>

\* terminate called by the storagemgr thread, up to its first pthread_join.
Terminate ==
  /\ Running
  /\ spc = "terminate"
  /\ spc' = "joining"
  /\ cancelled' = Threads
  /\ UNCHANGED <<qvars, dvars, tries, sheld, db, failed, reported, main,
                 conmgr, child, received, refused, discarded>>

\* A pending cancellation is acted upon at a cancellation point: select, a
\* file operation, or the pthread_join that terminate calls.
CancelConnmgr ==
  /\ Running
  /\ "connmgr" \in cancelled
  /\ conmgr = "listening"
  /\ conmgr' = "ended"
  /\ UNCHANGED <<qvars, dvars, svars, main, child, cancelled, received,
                 refused, discarded>>

\* A datamgr thread cancelled while it writes leaves the FIFO open.
CancelDataMgr ==
  /\ Running
  /\ "datamgr" \in cancelled
  /\ dpc \in D!Cancellable
  /\ dpc' = IF dpc \in D!Writing THEN "ended_writing" ELSE "ended"
  /\ UNCHANGED <<qvars, dheld, map, list, svars, gvars>>

CancelStorageMgr ==
  /\ Running
  /\ "storagemgr" \in cancelled
  /\ spc = "joining"
  /\ spc' = "ended"
  /\ UNCHANGED <<qvars, dvars, tries, sheld, db, failed, reported, gvars>>

\* exit(EXIT_FAILURE), or a crash, of the connmgr thread, or of the datamgr
\* thread when it runs out of memory for its list, ends the whole process.
ProcessExits ==
  /\ Running
  /\ conmgr = "listening" \/ dpc = "load"
  /\ main' = "exited"
  /\ UNCHANGED <<qvars, dvars, svars, conmgr, child, cancelled, received,
                 refused, discarded>>

-----------------------------------------------------------------------------
(* The main thread: run_parent and what main does after it *)

CreateThreads ==
  /\ main = "create"
  /\ main' = "join_connmgr"
  /\ conmgr' = "listening"
  /\ dpc' = "open_map"
  /\ spc' = "connect"
  /\ UNCHANGED <<qvars, dheld, map, list, tries, sheld, db, failed, reported,
                 child, cancelled, received, refused, discarded>>

Join(from, t, to) ==
  /\ main = from
  /\ Ended(t)
  /\ main' = to
  /\ UNCHANGED <<qvars, dvars, svars, conmgr, child, cancelled, received,
                 refused, discarded>>

\* Fault: the datamgr thread is not joined.
JoinTwoThreads ==
  \/ Join("join_connmgr", "connmgr", "join_storagemgr")
  \/ Join("join_storagemgr", "storagemgr", "free")

JoinThreads ==
  \/ Join("join_connmgr", "connmgr", "join_datamgr")
  \/ Join("join_datamgr", "datamgr", "join_storagemgr")
  \/ Join("join_storagemgr", "storagemgr", "free")

\* sbuffer_free, one node at a time.
FreeNode ==
  /\ main = "free"
  /\ Buffer!Discard
  /\ discarded' = discarded \cup {Head(queue)}
  /\ UNCHANGED <<dvars, svars, main, conmgr, child, cancelled, received, refused>>

FreeBuffer ==
  /\ main = "free"
  /\ queue = <<>>
  /\ main' = "wait_child"
  /\ UNCHANGED <<qvars, dvars, svars, conmgr, child, cancelled, received,
                 refused, discarded>>

\* waitpid, then terminate: it cancels and joins threads that are joined
\* already, and its wait fails for want of a child, which exits.
WaitAndTerminate ==
  /\ main = "wait_child"
  /\ child = "ended"
  /\ main' = "exited"
  /\ UNCHANGED <<qvars, dvars, svars, conmgr, child, cancelled, received,
                 refused, discarded>>

-----------------------------------------------------------------------------
(* The child process, and the FIFO it shares with the datamgr thread *)

ChildGoes(from, to) ==
  /\ child = from
  /\ child' = to
  /\ UNCHANGED <<qvars, dvars, svars, main, conmgr, cancelled, received,
                 refused, discarded>>

OpenLog == ChildGoes("open_log", "open_fifo")

\* FILE_OPEN_ERROR.
OpenLogFails == ChildGoes("open_log", "ended")

\* Each end of a FIFO waits in open until the other is opened.
OpenFifo ==
  /\ Running
  /\ child = "open_fifo"
  /\ dpc = "fifo_open"
  /\ child' = "read"
  /\ dpc' = "fifo_write"
  /\ UNCHANGED <<qvars, dheld, map, list, svars, main, conmgr, cancelled, received,
                 refused, discarded>>

\* The datamgr thread cannot open the FIFO: fifomgr_write gives the message up.
FifoOpenFails ==
  /\ Running
  /\ dpc = "fifo_open"
  /\ dpc' = "ended"
  /\ UNCHANGED <<qvars, dheld, map, list, svars, gvars>>

\* read returns 0 once no process has the FIFO open for writing; the child
\* then runs on into terminate, which it does not survive.
ReadEndOfFile ==
  /\ dpc \notin D!Writing \cup {"ended_writing"} \/ ~Running
  /\ ChildGoes("read", "ended")

-----------------------------------------------------------------------------
Child == OpenLog \/ OpenLogFails \/ ReadEndOfFile

Main == CreateThreads \/ JoinThreads \/ FreeNode \/ FreeBuffer \/ WaitAndTerminate

Next ==
  \/ \E s \in Sensors :
       Receive(s) \/ ReceiveRefused(s)
  \/ DataMgr \/ StorageMgr \/ Terminate
  \/ CancelConnmgr \/ CancelDataMgr \/ CancelStorageMgr
  \/ Main \/ Child \/ OpenFifo \/ FifoOpenFails \/ ProcessExits

Spec == Init /\ [][Next]_vars

(***************************************************************************)
(* Every thread and the child is scheduled again and again, and a pending  *)
(* cancellation is acted upon.  Nothing makes a sensor send, and nothing   *)
(* makes the connmgr thread end the process.                               *)
(***************************************************************************)
FairSpec ==
  /\ Spec
  /\ WF_vars(DataMgr) /\ WF_vars(StorageMgr) /\ WF_vars(Terminate)
  /\ WF_vars(CancelConnmgr) /\ WF_vars(CancelDataMgr) /\ WF_vars(CancelStorageMgr)
  /\ WF_vars(Main) /\ WF_vars(Child) /\ WF_vars(OpenFifo)
-----------------------------------------------------------------------------
(* Properties *)

TypeOK ==
  /\ Buffer!TypeOK
  /\ D!TypeOK
  /\ S!TypeOK
  /\ main \in {"create", "join_connmgr", "join_datamgr", "join_storagemgr",
               "free", "wait_child", "exited"}
  /\ conmgr \in {"unborn", "listening", "ended"}
  /\ child \in {"open_log", "open_fifo", "read", "ended"}
  /\ cancelled \in SUBSET Threads
  /\ received \in [Sensors -> Nat]
  /\ \A s \in Sensors : received[s] <= MaxReadings[s]
  /\ refused \in [Causes -> SUBSET Readings]
  /\ discarded \in SUBSET Readings

Received == {r \in Readings : r.n <= received[r.id]}

\* Where a reading that was received may be.
Places == [buffer     |-> ToSet(queue),
           datamgr    |-> ToSet(taken["datamgr"]),
           storagemgr |-> ToSet(taken["storagemgr"]),
           freed      |-> discarded,
           no_buffer  |-> refused["null_buffer"],
           no_memory  |-> refused["no_memory"]]

\* No reading the gateway has received gets lost on the way to the threads
\* that use it, but by an insertion that failed, and none reaches two of them:
\* it is queued, or one thread took it, or it was in the buffer when that was
\* freed, or sbuffer_insert refused it.  As main.c is, with a buffer of its own
\* for connmgr_listen, all are refused.
EachInOnePlace ==
  /\ LET at == Places
     IN /\ Received = UNION {at[p] : p \in DOMAIN at}
        /\ \A p, q \in DOMAIN at : p # q => at[p] \cap at[q] = {}
  /\ refused["null_buffer"] = IF BufferShared THEN {} ELSE Received

\* README.md: sbuffer "Implements a shared buffer for storing data between
\* components": what connmgr receives comes into the buffer of the others,
\* unless there is no memory for it.
ReceivedAreShared ==
  Received \subseteq UNION {Places[p] : p \in DOMAIN Places \ {"no_buffer"}}

\* What the storagemgr thread took is in the table, or SQLite refused it, or
\* the thread still holds it, and in one of these places only.
TakenAreStored ==
  LET holding == IF spc = "insert" THEN {sheld} ELSE {}
  IN /\ ToSet(taken["storagemgr"]) =
          (S!Rows \cap Readings) \cup failed \cup holding
     /\ S!Rows \cap failed = {}
     /\ holding \cap (S!Rows \cup failed) = {}

\* Whatever the timestamps say, the rows of an id are in the order in which
\* connmgr received its readings, each of them once and behind those of an
\* earlier run; and the table skips no reading but those that the datamgr
\* thread took, or SQLite or sbuffer_insert refused.
RowsInOrder ==
  \A l \in 1 .. Len(db) :
    /\ \A k \in 1 .. l - 1 : db[k].id = db[l].id => db[k].n < db[l].n
    /\ \A r \in Readings : r.id = db[l].id /\ r.n < db[l].n =>
         \/ \E k \in 1 .. l - 1 : db[k] = r
         \/ r \in Places.datamgr \cup failed \cup Places.no_memory

ListFollowsReadings == D!ListFollowsReadings

\* sbuffer_free runs after the last thread has ended, on every path that
\* leads to it: no thread can touch the buffer, or its mutex, any more.
FreedAfterThreads ==
  main \in {"free", "wait_child"} => \A t \in Threads : Ended(t)

\* Who is joined has ended; before there are threads, none runs; and nothing
\* is thrown away before sbuffer_free.
Joined ==
  /\ main = "create" => conmgr = "unborn" /\ dpc = "unborn" /\ spc = "unborn"
  /\ main \in {"join_datamgr", "join_storagemgr"} => Ended("connmgr")
  /\ main = "join_storagemgr" => Ended("datamgr")
  /\ discarded # {} => main \in {"free", "wait_child", "exited"}

\* The readings of a sensor pass through the buffer in the order of receipt.
InOrder ==
  /\ \A i, j \in 1 .. Len(queue) :
       i < j /\ queue[i].id = queue[j].id => queue[i].n < queue[j].n
  /\ \A q \in ToSet(queue) :
       \A r \in Places.datamgr \cup Places.storagemgr \cup discarded :
         q.id = r.id => r.n < q.n
  /\ \A d \in discarded : \A r \in Places.datamgr \cup Places.storagemgr :
       d.id = r.id => r.n < d.n

\* The inductive invariant.
IInv ==
  /\ TypeOK /\ FreedAfterThreads /\ Joined
  /\ InOrder /\ EachInOnePlace
  /\ TakenAreStored /\ S!Storing
  /\ D!Loading /\ D!Loaded

\* The buffer does not fill up: whichever threads survive a missing map, a
\* database that cannot be opened or a dead child, it is empty again and again
\* until the process ends.  As only so many readings come, this is to say that
\* each of them leaves it.
QueuedLeaves == []<>(queue = <<>> \/ ~Running)


ReportedAreMissing == S!ReportedAreMissing

\* main.h: start_storagemgr "finished gateway process when three connection
\* tries failed".
GivingUpFinishesGateway == (spc = "terminate") ~> ~Running
=============================================================================
