------------------------------ MODULE ConnMgr -------------------------------
(***************************************************************************)
(* The connmgr thread of connmgr.c: one loop around select that accepts    *)
(* sensor nodes, receives from those that are ready, and looks for         *)
(* inactive ones when select times out.  The sensor nodes connect, send    *)
(* the three fields of a reading one after the other (sensor_node.c) and   *)
(* hang up whenever they like.  A stream is the number of bytes sent and   *)
(* received on it: what bytes they are follows from their position.        *)
(*                                                                         *)
(* handle_new_connection, close_socket and tcp_recv are called by          *)
(* connmgr.c and defined nowhere; they are modelled by what their callers  *)
(* give them and expect.  close_socket is given neither master_set nor     *)
(* max_fd.                                                                 *)
(***************************************************************************)
EXTENDS Integers, Sequences, FiniteSets

CONSTANTS
  Sensors,      \* sensor nodes, each of which connects once
  Fds,          \* the file descriptors that are free when the thread starts
  Server,       \* the descriptor of the listening socket
  Timeout,      \* TIMEOUT, in seconds
  MaxReadings,  \* bound: readings a sensor node sends
  MaxTime,      \* bound: seconds that pass
  NoFd          \* the descriptor of a connection not accepted

ASSUME ConnMgrAssumption ==
  /\ Fds \subseteq Nat \ {0}
  /\ Server \in Fds
  /\ Timeout \in Nat \ {0}
  /\ MaxReadings \in [Sensors -> Nat]
  /\ MaxTime \in Nat
  /\ NoFd \notin Fds

\* Where the fields of a reading lie on the wire, and in a sensor_data_t
\* with the alignment of a 64-bit machine.
Fields   == {"id", "value", "ts"}
Width    == [id |-> 2, value |-> 8, ts |-> 8]
InStream == [id |-> 0, value |-> 2, ts |-> 10]
InStruct == [id |-> 0, value |-> 8, ts |-> 16]
WireSize   == 18
StructSize == 24

VARIABLES
  loop,      \* where the thread stands; "exited" and "crashed" are final
  master,    \* master_set
  max_fd,
  read_set,  \* what is left of read_set for handle_sensor_data
  sockets,   \* the list of pollinfo: [socket, last_record]
  entered,   \* when select was called last
  now,       \* time(NULL)
  open,      \* kernel: the descriptors among Fds this thread has open
  others,    \* kernel: those that another thread has open, one at most
  peer,      \* peer[s]: "off", "up", "down", or "cut" by the gateway
  fd,        \* fd[s]: the descriptor of its connection once accepted
  sent,      \* sent[s]: bytes that s has sent
  received,  \* received[s]: bytes that the thread has received of them
  heard,     \* history: when s was accepted, or received from last
  intact,    \* history: every sensor_data_t inserted was one reading
  reused     \* history: another thread got a descriptor out of master_set

listen  == <<master, max_fd, read_set, sockets>>
streams == <<peer, fd, sent, received, heard, intact>>
files   == <<others, reused>>
vars == <<loop, listen, entered, now, open, streams, files>>

Least(S) == CHOOSE i \in S : \A j \in S : i <= j

Running == loop \notin {"exited", "crashed"}

Init ==
  /\ loop = "create"
  /\ master = {}
  /\ max_fd = Server
  /\ read_set = {}
  /\ sockets = <<>>
  /\ entered = 0
  /\ now = 0
  /\ open = {}
  /\ others = {}
  /\ reused = FALSE
  /\ peer = [s \in Sensors |-> "off"]
  /\ fd = [s \in Sensors |-> NoFd]
  /\ sent = [s \in Sensors |-> 0]
  /\ received = [s \in Sensors |-> 0]
  /\ heard = [s \in Sensors |-> 0]
  /\ intact = TRUE

-----------------------------------------------------------------------------
(* Sensor nodes, other threads, and time *)

\* The kernel completes a connection before it is accepted.
Connect(s) ==
  /\ Server \in open
  /\ peer[s] = "off"
  /\ peer' = [peer EXCEPT ![s] = "up"]
  /\ UNCHANGED <<loop, listen, entered, now, open, fd, sent, received, heard,
                 intact, files>>

Send(s) ==
  /\ peer[s] = "up"
  /\ sent[s] < MaxReadings[s] * WireSize
  /\ \E f \in Fields :
       /\ sent[s] % WireSize = InStream[f]
       /\ sent' = [sent EXCEPT ![s] = @ + Width[f]]
  /\ UNCHANGED <<loop, listen, entered, now, open, peer, fd, received, heard,
                 intact, files>>

HangUp(s) ==
  /\ peer[s] = "up"
  /\ peer' = [peer EXCEPT ![s] = "down"]
  /\ UNCHANGED <<loop, listen, entered, now, open, fd, sent, received, heard,
                 intact, files>>

Tick ==
  /\ now < MaxTime
  /\ now' = now + 1
  /\ UNCHANGED <<loop, listen, entered, open, streams, files>>

Free == Fds \ (open \cup others)

\* log_event, in the storagemgr thread, opens and closes gateway.log.
OtherOpens ==
  /\ others = {}
  /\ Free # {}
  /\ others' = {Least(Free)}
  /\ reused' = (reused \/ Least(Free) \in master)
  /\ UNCHANGED <<loop, listen, entered, now, open, streams>>

OtherCloses ==
  /\ others # {}
  /\ others' = {}
  /\ UNCHANGED <<loop, listen, entered, now, open, streams, reused>>

-----------------------------------------------------------------------------
(* connmgr_listen *)

Goto(to) ==
  /\ loop' = to
  /\ entered' = IF to = "select" THEN now ELSE entered

CreateServerSocket ==
  /\ loop = "create"
  /\ Server \in Free
  /\ Goto("select")
  /\ open' = {Server}
  /\ master' = {Server}
  /\ UNCHANGED <<max_fd, read_set, sockets, now, streams, files>>

\* The port is taken: exit.
CreateFails ==
  /\ loop = "create"
  /\ Goto("exited")
  /\ UNCHANGED <<listen, now, open, streams, files>>

Waiting == {s \in Sensors : peer[s] \in {"up", "down"} /\ fd[s] = NoFd}

\* A stream is ready at its end too.
Readable(s) == fd[s] # NoFd /\ (received[s] < sent[s] \/ peer[s] = "down")

\* So is a file.
Ready ==
  {f \in master : \/ f = Server /\ Server \in open /\ Waiting # {}
                  \/ f \in others
                  \/ \E s \in Sensors : fd[s] = f /\ Readable(s)}

\* A descriptor that is not open: EBADF.
SelectFails ==
  /\ loop = "select"
  /\ ~ (master \subseteq open \cup others)
  /\ Goto("exited")
  /\ UNCHANGED <<listen, now, open, streams, files>>

SelectReturns ==
  /\ loop = "select"
  /\ master \subseteq open \cup others
  /\ Ready # {}
  /\ read_set' = Ready
  /\ Goto(IF Server \in Ready THEN "accept" ELSE "receive")
  /\ UNCHANGED <<master, max_fd, sockets, now, open, streams, files>>

\* Fault: select has left the timeout at zero for the next call.
SelectTimesOutAtOnce ==
  /\ loop = "select"
  /\ master \subseteq open \cup others
  /\ Ready = {}
  /\ Goto("close_inactive")
  /\ UNCHANGED <<listen, now, open, streams, files>>

SelectTimesOut ==
  /\ loop = "select"
  /\ master \subseteq open \cup others
  /\ Ready = {}
  /\ now - entered >= Timeout
  /\ Goto("close_inactive")
  /\ UNCHANGED <<listen, now, open, streams, files>>

\* handle_new_connection.  accept returns the lowest descriptor free; the
\* position in the list is the callee's choice.
Accept(s) ==
  /\ loop = "accept"
  /\ Server \in open
  /\ s \in Waiting
  /\ Goto("receive")
  /\ Free # {}
  /\ LET f   == Least(Free)
         new == [socket |-> f, last_record |-> now]
     IN /\ open' = open \cup {f}
        /\ master' = master \cup {f}
        /\ max_fd' = IF f > max_fd THEN f ELSE max_fd
        /\ sockets' \in {<<new>> \o sockets, Append(sockets, new)}
        /\ fd' = [fd EXCEPT ![s] = f]
  /\ heard' = [heard EXCEPT ![s] = now]
  /\ UNCHANGED <<read_set, now, peer, sent, received, intact, files>>

AcceptFails ==
  /\ loop = "accept"
  /\ Goto("receive")
  /\ UNCHANGED <<listen, now, open, streams, files>>

-----------------------------------------------------------------------------
(* handle_sensor_data: one recv on each descriptor of read_set in turn *)

\* recv put n bytes, of which the first is byte q of the stream, at the start
\* of the sensor_data_t: each field holds its bytes of one reading.
Intact(q, n) ==
  \A f \in Fields :
    /\ (q + InStruct[f]) % WireSize = InStream[f]
    /\ InStruct[f] + Width[f] <= n

NextFd == Least(read_set)

\* What tcp_recv takes of stream s goes into the buffer.  The index of the
\* sensor is that of the first element, since callback_compare finds all
\* elements equal.
Receive(s, n) ==
  /\ loop = "receive"
  /\ read_set # {}
  /\ fd[s] = NextFd
  /\ received[s] < sent[s]
  /\ received' = [received EXCEPT ![s] = @ + n]
  /\ intact' = (intact /\ Intact(received[s], n))
  /\ sockets' = [sockets EXCEPT ![1].last_record = now]
  /\ heard' = [heard EXCEPT ![s] = now]
  /\ read_set' = read_set \ {NextFd}
  /\ UNCHANGED <<loop, master, max_fd, entered, now, open, peer, fd, sent, files>>

\* Fault: the size asked for is taken for the size received.
ReceiveWhole(s) == Receive(s, StructSize)

ReceiveFrom(s) == Receive(s, Least({StructSize, sent[s] - received[s]}))

\* tcp_recv reports an error: the end of a stream, or no connection at all.
NoStream ==
  /\ loop = "receive"
  /\ read_set # {}
  /\ \A s \in Sensors : fd[s] = NextFd => received[s] = sent[s]
  /\ UNCHANGED <<loop, master, max_fd, sockets, entered, now, streams, files>>

\* Fault: the loop ends at an error.
ReceiveErrorBreaks ==
  /\ NoStream
  /\ read_set' = {}
  /\ UNCHANGED open

\* Fault: the connection is closed, and stays in master_set.
ReceiveErrorCloses ==
  /\ NoStream
  /\ read_set' = read_set \ {NextFd}
  /\ open' = open \ {NextFd}

\* The next descriptor.
ReceiveError ==
  /\ NoStream
  /\ read_set' = read_set \ {NextFd}
  /\ UNCHANGED open

ReceiveDone ==
  /\ loop = "receive"
  /\ read_set = {}
  /\ Goto("select")
  /\ UNCHANGED <<listen, now, open, streams, files>>

-----------------------------------------------------------------------------
(* close_inactive_sockets *)

\* dpl_get_element_at_index with a descriptor for an index.
Element(i) == sockets[IF i >= Len(sockets) THEN Len(sockets) ELSE i + 1]

\* The first element of an empty list is a null pointer, and is followed.
CloseInactiveCrashes ==
  /\ loop = "close_inactive"
  /\ sockets = <<>>
  /\ Goto("crashed")
  /\ UNCHANGED <<listen, now, open, streams, files>>

Inactive == {i \in master : i <= max_fd /\ Element(i).last_record + Timeout < now}

\* The kernel closes whatever has that number by now.
Close(f) ==
  /\ open' = open \ {f}
  /\ others' = others \ {f}
  /\ fd' = [s \in Sensors |-> IF fd[s] = f THEN NoFd ELSE fd[s]]
  /\ peer' = [s \in Sensors |-> IF fd[s] = f THEN "cut" ELSE peer[s]]

\* close_socket has the element and the index; the descriptor it closes
\* stays in master_set.
CloseInactive ==
  /\ loop = "close_inactive"
  /\ sockets # <<>>
  /\ Inactive # {}
  /\ Goto("select")
  /\ LET i == Least(Inactive)
     IN \E f \in {i, Element(i).socket} : Close(f)
  /\ UNCHANGED <<listen, now, sent, received, heard, intact, reused>>

NoneInactive ==
  /\ loop = "close_inactive"
  /\ sockets # <<>>
  /\ Inactive = {}
  /\ Goto("select")
  /\ UNCHANGED <<listen, now, open, streams, files>>

-----------------------------------------------------------------------------
SensorNode(s) == Connect(s) \/ Send(s) \/ HangUp(s)

OtherThread == OtherOpens \/ OtherCloses

Thread ==
  \/ CreateServerSocket \/ CreateFails
  \/ SelectFails \/ SelectReturns \/ SelectTimesOut
  \/ (\E s \in Sensors : Accept(s)) \/ AcceptFails
  \/ (\E s \in Sensors : ReceiveFrom(s)) \/ ReceiveError \/ ReceiveDone
  \/ CloseInactiveCrashes \/ CloseInactive \/ NoneInactive

Next ==
  \/ Thread
  \/ \E s \in Sensors : Running /\ SensorNode(s)
  \/ Running /\ OtherThread
  \/ Running /\ Tick

Spec == Init /\ [][Next]_vars

\* The thread is scheduled again and again; sensor nodes may stay silent.
FairSpec == Spec /\ WF_vars(Thread)

-----------------------------------------------------------------------------
(* Properties *)

\* Variables have the types of the code, and nothing is received that was
\* not sent.
TypeOK ==
  /\ loop \in {"create", "select", "accept", "receive", "close_inactive",
               "exited", "crashed"}
  /\ master \in SUBSET Fds
  /\ open \in SUBSET Fds
  /\ read_set \in SUBSET Fds
  /\ max_fd \in Fds
  /\ sockets \in Seq([socket : Fds, last_record : 0 .. MaxTime])
  /\ now \in 0 .. MaxTime
  /\ entered \in 0 .. now
  /\ others \in SUBSET (Fds \ open)
  /\ peer \in [Sensors -> {"off", "up", "down", "cut"}]
  /\ fd \in [Sensors -> Fds \cup {NoFd}]
  /\ {sent, received, heard} \subseteq [Sensors -> Nat]
  /\ \A s \in Sensors : /\ sent[s] <= MaxReadings[s] * WireSize
                        /\ received[s] <= sent[s]
                        /\ heard[s] <= now
  /\ intact \in BOOLEAN
  /\ reused \in BOOLEAN

\* A sensor node that was heard of in the last TIMEOUT seconds is not closed,
\* although close_inactive_sockets takes a descriptor for an index and only
\* the first element is ever refreshed: it runs after a select that has been
\* waiting that long in vain.
ClosedWereSilent ==
  [][\A s \in Sensors :
       fd[s] \in open \ open' => now - heard[s] >= Timeout]_vars

\* Every reading a sensor node has sent is received while the gateway runs,
\* unless it is closed first, whatever others send, and also when others have
\* hung up and stay in master_set.
SentIsReceived ==
  \A s \in Sensors : \A k \in 1 .. MaxReadings[s] :
    fd[s] # NoFd /\ sent[s] >= k * WireSize
      ~> received[s] >= k * WireSize \/ peer[s] = "cut" \/ ~Running

\* Every sensor node that ever connected was last heard of TIMEOUT seconds
\* ago, or longer.
Silent == \A s \in Sensors : fd[s] # NoFd => now - heard[s] >= Timeout

\* The gateway does not go down, by exit or by a crash, while a connected
\* sensor node is active: hang-ups, failing accepts and errors of other nodes
\* do it no harm.  Unless another thread gets the descriptor that was closed
\* and is still in master_set: then select fails only when that thread closes
\* it, and whoever is active by then goes down too.
DownAfterSilence == ~Running /\ ~reused => Silent

\* The inductive invariant.  What was heard was heard before select was last
\* called, so that all are silent when it times out; until another thread
\* gets one of its descriptors, master_set has a closed one only from a
\* time-out to the next select; and there is a first element to refresh.
IInv ==
  /\ TypeOK
  /\ DownAfterSilence
  /\ loop = "create" => master = {} /\ open = {} /\ fd = [s \in Sensors |-> NoFd]
  /\ \A s \in Sensors : fd[s] # NoFd => sockets # <<>>
  /\ loop \in {"select", "close_inactive"} => \A s \in Sensors : heard[s] <= entered
  /\ loop = "close_inactive" => now - entered >= Timeout
  /\ ~reused => /\ master \cap others = {}
                /\ master \subseteq open \/ (loop \in {"select", "exited"} /\ Silent)

\* sensor_node.c sends a reading "in this order (!!): <sensor_id>
\* <temperature><timestamp>", and "don't send as a struct!": what connmgr
\* makes of the stream is that reading.
ReadingsIntact == intact

\* connmgr.c: "Run through the loop as long as the server is active": no
\* lack of sensor nodes makes the gateway crash.
IdleIsHarmless == loop # "crashed"
=============================================================================
