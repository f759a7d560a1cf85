--------------------------- MODULE ConnMgrProofs ----------------------------
(* Proofs about module ConnMgr, for any number of sensor nodes, descriptors  *)
(* and readings and any timeout.                                             *)
EXTENDS ConnMgr, Facts

sockets_t == [socket : Fds, last_record : 0 .. MaxTime]

-----------------------------------------------------------------------------
(* The numbers *)

\* The lowest of some descriptors is one of them.
LEMMA LeastFd ==
  ASSUME NEW S, S \subseteq Fds, S # {}
  PROVE  Least(S) \in S
<1>1. S \subseteq Nat
  BY ConnMgrAssumption
<1>2. \E i \in S : \A j \in S : i <= j
  BY <1>1, LeastNumber
<1> QED BY <1>2 DEF Least

\* A field sent where it lies in the reading does not go beyond the reading.
LEMMA FieldFits ==
  ASSUME NEW n \in Nat, NEW K \in Nat, n < K * WireSize,
         NEW f \in Fields, n % WireSize = InStream[f]
  PROVE  n + Width[f] \in Nat /\ n + Width[f] <= K * WireSize
<1>1. PICK q \in Nat, r \in 0 .. 17 : n = 18 * q + r /\ r = n % 18
  <2>1. n = 18 * (n \div 18) + (n % 18) /\ n \div 18 \in Nat /\ n % 18 \in 0 .. 17
    OBVIOUS
  <2> QED BY <2>1
<1>2. /\ InStream[f] + Width[f] <= 18 /\ InStream[f] \in Nat /\ Width[f] \in Nat
  BY DEF Fields, InStream, Width
<1>3. r = InStream[f] /\ 18 * q + r < 18 * K
  BY <1>1 DEF WireSize
<1>4. q + 1 <= K
  BY <1>3
<1>5. n + Width[f] <= 18 * q + 18
  BY <1>1, <1>2, <1>3
<1> QED BY <1>1, <1>2, <1>4, <1>5 DEF WireSize

\* recv takes no more than there is.
LEMMA TakenFits ==
  ASSUME NEW n \in Nat, n > 0
  PROVE  Least({StructSize, n}) \in 1 .. n
<1>1. Least({24, n}) = IF n < 24 THEN n ELSE 24
  BY DEF Least
<1> QED BY <1>1 DEF StructSize

-----------------------------------------------------------------------------
(* The sensor nodes, the other threads and time *)

LEMMA InitInv == Init => IInv
<1> SUFFICES ASSUME Init PROVE IInv
  OBVIOUS
<1>1. TypeOK
  <2>1. sockets \in Seq(sockets_t)
    BY EmptySeq DEF Init
  <2>2. {sent, received, heard} \subseteq [Sensors -> Nat]
    BY DEF Init
  <2>3. \A s \in Sensors : /\ sent[s] <= MaxReadings[s] * WireSize
                           /\ received[s] <= sent[s]
                           /\ heard[s] <= now
    BY ConnMgrAssumption DEF Init, WireSize
  <2>4. now \in 0 .. MaxTime /\ entered \in 0 .. now /\ max_fd \in Fds
    BY ConnMgrAssumption DEF Init
  <2>5. /\ peer \in [Sensors -> {"off", "up", "down", "cut"}]
        /\ fd \in [Sensors -> Fds \cup {NoFd}]
    BY DEF Init
  <2> QED BY <2>1, <2>2, <2>3, <2>4, <2>5 DEF Init, TypeOK, sockets_t
<1> QED BY <1>1 DEF Init, IInv, DownAfterSilence, Running

LEMMA SensorNodeStep ==
  ASSUME IInv, Running, NEW s \in Sensors, SensorNode(s)
  PROVE  IInv'
<1>1. /\ UNCHANGED <<loop, listen, entered, now, open, fd, received, heard, files>>
      /\ intact' = intact
      /\ peer' \in [Sensors -> {"off", "up", "down", "cut"}]
  BY DEF SensorNode, Connect, Send, HangUp, IInv, TypeOK
<1>2. /\ sent' \in [Sensors -> Nat]
      /\ \A t \in Sensors : sent'[t] <= MaxReadings[t] * WireSize /\ sent[t] <= sent'[t]
  <2>1. CASE sent' = sent
    BY <2>1 DEF IInv, TypeOK
  <2>2. CASE Send(s)
    <3>1. PICK f \in Fields : /\ sent[s] < MaxReadings[s] * WireSize
                              /\ sent[s] % WireSize = InStream[f]
                              /\ sent' = [sent EXCEPT ![s] = @ + Width[f]]
      BY <2>2 DEF Send
    <3>2. sent \in [Sensors -> Nat] /\ MaxReadings[s] \in Nat
      BY ConnMgrAssumption DEF IInv, TypeOK
    <3>3. /\ sent[s] + Width[f] \in Nat
          /\ sent[s] + Width[f] <= MaxReadings[s] * WireSize
      BY <3>1, <3>2, FieldFits
    <3>4. Width[f] >= 0 /\ Width[f] \in Nat
      BY DEF Width, Fields
    <3> QED BY <3>1, <3>2, <3>3, <3>4 DEF IInv, TypeOK
  <2> QED BY <2>1, <2>2 DEF SensorNode, Connect, HangUp
<1>3. \A t \in Sensors : received'[t] <= sent'[t]
  BY <1>1, <1>2 DEF IInv, TypeOK
<1>4. TypeOK'
  BY <1>1, <1>2, <1>3 DEF IInv, TypeOK, listen, files
<1>5. Silent' = Silent /\ Running' = Running
  BY <1>1 DEF Silent, Running
<1> QED BY <1>1, <1>4, <1>5 DEF IInv, listen, files, DownAfterSilence

LEMMA TickStep ==
  ASSUME IInv, Running, Tick
  PROVE  IInv'
<1>1. /\ now' = now + 1 /\ now' <= MaxTime
      /\ UNCHANGED <<loop, listen, entered, open, streams, files>>
      /\ now \in Nat /\ entered \in Nat /\ MaxTime \in Nat /\ Timeout \in Nat
  BY ConnMgrAssumption DEF Tick, IInv, TypeOK
<1>2. TypeOK'
  <2>1. now' \in 0 .. MaxTime /\ entered' \in 0 .. now'
    BY <1>1 DEF IInv, TypeOK, listen
  <2>2. \A s \in Sensors : heard'[s] <= now'
    BY <1>1 DEF IInv, TypeOK, streams
  <2> QED BY <1>1, <2>1, <2>2 DEF IInv, TypeOK, listen, streams, files
<1>3. Silent => Silent'
  BY <1>1 DEF Silent, streams, IInv, TypeOK
<1>4. now - entered >= Timeout => now' - entered' >= Timeout
  BY <1>1
<1> QED BY <1>1, <1>2, <1>3, <1>4
        DEF IInv, listen, streams, files, DownAfterSilence, Running

LEMMA OtherThreadStep ==
  ASSUME IInv, Running, OtherThread
  PROVE  IInv'
<1>1. UNCHANGED <<loop, listen, entered, now, open, streams>>
  BY DEF OtherThread, OtherOpens, OtherCloses
<1>2. /\ others' \in SUBSET (Fds \ open) /\ reused' \in BOOLEAN
      /\ reused => reused'
      /\ ~reused' => master \cap others' = {}
  <2>1. CASE OtherOpens
    <3>1. Least(Free) \in Free
      BY <2>1, LeastFd DEF OtherOpens, Free
    <3> QED BY <2>1, <3>1 DEF OtherOpens, Free, IInv, TypeOK
  <2>2. CASE OtherCloses
    BY <2>2 DEF OtherCloses, IInv, TypeOK
  <2> QED BY <2>1, <2>2 DEF OtherThread
<1>3. TypeOK'
  BY <1>1, <1>2 DEF IInv, TypeOK, listen, streams
<1>4. Silent' = Silent
  BY <1>1 DEF Silent, streams
<1> QED BY <1>1, <1>2, <1>3, <1>4 DEF IInv, listen, streams, DownAfterSilence, Running

-----------------------------------------------------------------------------
(* The thread *)

\* select has timed out: nobody has been heard of for that long.
LEMMA AllSilent ==
  ASSUME IInv, loop = "close_inactive"
  PROVE  Silent
BY ConnMgrAssumption DEF IInv, TypeOK, Silent

\* A step that changes nothing but the place in the loop.
LEMMA GoesTo ==
  ASSUME IInv, UNCHANGED <<listen, now, open, streams, files>>,
         NEW to \in {"select", "receive", "close_inactive", "exited", "crashed"},
         Goto(to),
         ~reused => master \subseteq open \/ (to \in {"select", "exited"} /\ Silent),
         to \in {"exited", "crashed"} => reused \/ Silent,
         to = "close_inactive" =>
           now - entered >= Timeout /\ \A s \in Sensors : heard[s] <= entered
  PROVE  IInv'
<1>1. /\ loop' = to /\ entered' = IF to = "select" THEN now ELSE entered
      /\ UNCHANGED <<master, max_fd, read_set, sockets, now, open, peer, fd, sent,
                     received, heard, intact, others, reused>>
  BY DEF Goto, listen, streams, files
<1>2. TypeOK'
  BY <1>1 DEF IInv, TypeOK
<1>3. Silent' = Silent
  BY <1>1 DEF Silent
<1>4. to = "select" => \A s \in Sensors : heard'[s] <= entered'
  BY <1>1 DEF IInv, TypeOK
<1> QED BY <1>1, <1>2, <1>3, <1>4 DEF IInv, DownAfterSilence, Running

LEMMA CreateStep ==
  ASSUME IInv, CreateServerSocket \/ CreateFails
  PROVE  IInv'
<1>1. /\ loop = "create" /\ master = {} /\ open = {} /\ fd = [s \in Sensors |-> NoFd]
      /\ Silent
  BY DEF CreateServerSocket, CreateFails, IInv, Silent
<1>2. CASE CreateFails
  BY <1>1, <1>2, GoesTo DEF CreateFails
<1>3. CASE CreateServerSocket
  <2>1. /\ loop' = "select" /\ entered' = now
        /\ open' = {Server} /\ master' = {Server} /\ Server \in Fds /\ Server \notin others
        /\ UNCHANGED <<max_fd, read_set, sockets, now, peer, fd, sent,
                     received, heard, intact, others, reused>>
    BY <1>3 DEF CreateServerSocket, Goto, streams, files, Free
  <2>2. TypeOK'
    BY <2>1 DEF IInv, TypeOK
  <2>3. \A s \in Sensors : heard'[s] <= entered'
    BY <2>1 DEF IInv, TypeOK
  <2>4. \A s \in Sensors : fd'[s] = NoFd
    BY <1>1, <2>1
  <2> QED BY <2>1, <2>2, <2>3, <2>4 DEF IInv, DownAfterSilence, Running
<1> QED BY <1>2, <1>3

LEMMA SelectStep ==
  ASSUME IInv, SelectFails \/ SelectReturns \/ SelectTimesOut
  PROVE  IInv'
<1>1. /\ loop = "select"
      /\ ~reused => master \subseteq open \/ Silent
      /\ ~reused /\ master \subseteq open \cup others => master \subseteq open
      /\ \A s \in Sensors : heard[s] <= entered
  BY DEF SelectFails, SelectReturns, SelectTimesOut, IInv
<1>2. CASE SelectFails
  BY <1>1, <1>2, GoesTo DEF SelectFails
<1>3. CASE SelectTimesOut
  BY <1>1, <1>3, GoesTo DEF SelectTimesOut
<1>4. CASE SelectReturns
  <2>1. /\ loop' \in {"accept", "receive"} /\ entered' = entered
        /\ read_set' \in SUBSET Fds
        /\ UNCHANGED <<master, max_fd, sockets, now, open, peer, fd, sent,
                       received, heard, intact, others, reused>>
    BY <1>4 DEF SelectReturns, Goto, streams, files, Ready, IInv, TypeOK
  <2>2. TypeOK'
    BY <2>1 DEF IInv, TypeOK
  <2>3. master \subseteq open \cup others
    BY <1>4 DEF SelectReturns
  <2> QED BY <1>1, <2>1, <2>2, <2>3 DEF IInv, DownAfterSilence, Running
<1> QED BY <1>2, <1>3, <1>4

LEMMA AcceptStep ==
  ASSUME IInv, NEW s \in Sensors, Accept(s)
  PROVE  IInv'
<1> DEFINE f == Least(Free)
           new == [socket |-> f, last_record |-> now]
<1>1. f \in Fds /\ f \notin open /\ f \notin others
  <2>1. Free # {} /\ Free \subseteq Fds
    BY DEF Accept, Free
  <2>2. f \in Free
    BY <2>1, LeastFd
  <2> QED BY <2>2 DEF Free
<1>2. /\ loop = "accept" /\ loop' = "receive" /\ entered' = entered
      /\ open' = open \cup {f} /\ master' = master \cup {f}
      /\ max_fd' = IF f > max_fd THEN f ELSE max_fd
      /\ sockets' \in {<<new>> \o sockets, Append(sockets, new)}
      /\ fd' = [fd EXCEPT ![s] = f]
      /\ heard' = [heard EXCEPT ![s] = now]
      /\ UNCHANGED <<read_set, now, peer, sent, received, intact, others, reused>>
  BY DEF Accept, Goto, files
<1>3. sockets' \in Seq(sockets_t) /\ sockets' # <<>>
  <2>1. new \in sockets_t /\ sockets \in Seq(sockets_t)
    BY <1>1 DEF IInv, TypeOK, sockets_t
  <2> HIDE DEF new, f
  <2>2. /\ Append(sockets, new) \in Seq(sockets_t)
        /\ Append(sockets, new) # <<>>
    BY <2>1, AppendFacts
  <2>3. /\ <<new>> \o sockets \in Seq(sockets_t)
        /\ <<new>> \o sockets # <<>>
    <3>1. <<new>> \in Seq(sockets_t) /\ Len(<<new>>) = 1 /\ Len(sockets) \in Nat
      BY <2>1, SeqFacts
    <3>2. /\ <<new>> \o sockets \in Seq(sockets_t)
          /\ Len(<<new>> \o sockets) = 1 + Len(sockets)
      BY <2>1, <3>1, ConcatProperties
    <3> QED BY <3>1, <3>2, SeqFacts
  <2> QED BY <1>2, <2>2, <2>3
<1> HIDE DEF f
<1>4. TypeOK'
  <2>1. heard' \in [Sensors -> Nat] /\ \A t \in Sensors : heard'[t] <= now'
    BY <1>2 DEF IInv, TypeOK
  <2> QED BY <1>1, <1>2, <1>3, <2>1 DEF IInv, TypeOK, sockets_t
<1> QED BY <1>1, <1>2, <1>3, <1>4 DEF IInv, DownAfterSilence, Running

LEMMA ReceiveStep ==
  ASSUME IInv, NEW s \in Sensors, ReceiveFrom(s)
  PROVE  IInv'
<1> DEFINE n == Least({StructSize, sent[s] - received[s]})
<1>1. n \in Nat /\ received[s] + n \in Nat /\ received[s] + n <= sent[s]
  <2>1. received[s] \in Nat /\ sent[s] \in Nat /\ received[s] < sent[s]
    BY DEF ReceiveFrom, Receive, IInv, TypeOK
  <2>2. sent[s] - received[s] \in Nat /\ sent[s] - received[s] > 0
    BY <2>1
  <2>3. n \in 1 .. (sent[s] - received[s])
    BY <2>2, TakenFits
  <2> HIDE DEF n
  <2> QED BY <2>1, <2>3
<1>2. /\ loop = "receive" /\ fd[s] = NextFd /\ NextFd \in Fds
      /\ received' = [received EXCEPT ![s] = @ + n]
      /\ sockets' = [sockets EXCEPT ![1] = [sockets[1] EXCEPT !.last_record = now]]
      /\ heard' = [heard EXCEPT ![s] = now]
      /\ read_set' \in SUBSET Fds /\ intact' \in BOOLEAN
      /\ UNCHANGED <<loop, master, max_fd, entered, now, open, peer, fd, sent,
                     others, reused>>
  <2>1. read_set # {} /\ read_set \subseteq Fds
    BY DEF ReceiveFrom, Receive, IInv, TypeOK
  <2>2. NextFd \in Fds
    BY <2>1, LeastFd DEF NextFd
  <2>3. (intact /\ Intact(received[s], n)) \in BOOLEAN
    OBVIOUS
  <2> HIDE DEF n
  <2> QED BY <2>1, <2>2, <2>3 DEF ReceiveFrom, Receive, files, n
<1> HIDE DEF n
<1>3. sockets # <<>>
  BY <1>2, ConnMgrAssumption DEF IInv
<1>4. sockets' \in Seq(sockets_t) /\ sockets' # <<>>
  <2>1. sockets \in Seq(sockets_t) /\ now \in 0 .. MaxTime
    BY DEF IInv, TypeOK, sockets_t
  <2>2. 1 \in 1 .. Len(sockets) /\ sockets[1] \in sockets_t
    BY <1>3, <2>1, SeqFacts
  <2>3. [sockets[1] EXCEPT !.last_record = now] \in sockets_t
    BY <2>1, <2>2 DEF sockets_t
  <2>4. sockets' \in Seq(sockets_t) /\ Len(sockets') = Len(sockets)
    BY <1>2, <2>1, <2>2, <2>3, ExceptSeq
  <2> QED BY <2>2, <2>4, SeqFacts
<1>5. TypeOK'
  <2>1. heard' \in [Sensors -> Nat] /\ \A t \in Sensors : heard'[t] <= now'
    BY <1>2 DEF IInv, TypeOK
  <2>2. /\ received' \in [Sensors -> Nat]
        /\ \A t \in Sensors : received'[t] <= sent'[t]
    BY <1>1, <1>2 DEF IInv, TypeOK
  <2> QED BY <1>2, <1>4, <2>1, <2>2 DEF IInv, TypeOK, sockets_t
<1> QED BY <1>2, <1>4, <1>5 DEF IInv, DownAfterSilence, Running

LEMMA CloseInactiveStep ==
  ASSUME IInv, CloseInactive
  PROVE  IInv'
<1>1. /\ loop = "close_inactive" /\ loop' = "select" /\ entered' = now
      /\ UNCHANGED <<master, max_fd, read_set, sockets, now, sent, received, heard,
                     intact, reused>>
      /\ \E f : Close(f)
  BY DEF CloseInactive, Goto, listen
<1>2. PICK f : Close(f)
  BY <1>1
<1>3. /\ open' = open \ {f} /\ others' = others \ {f}
      /\ fd' = [s \in Sensors |-> IF fd[s] = f THEN NoFd ELSE fd[s]]
      /\ peer' = [s \in Sensors |-> IF fd[s] = f THEN "cut" ELSE peer[s]]
  BY <1>2 DEF Close
<1>4. \A s \in Sensors : fd'[s] # NoFd => fd[s] # NoFd
  BY <1>3
<1>5. Silent'
  BY <1>1, <1>4, AllSilent DEF Silent
<1>6. TypeOK'
  BY <1>1, <1>3 DEF IInv, TypeOK
<1>7. \A s \in Sensors : heard'[s] <= entered'
  BY <1>1 DEF IInv, TypeOK
<1>8. ~reused => master' \cap others' = {}
  BY <1>1, <1>3 DEF IInv
<1>9. \A s \in Sensors : fd'[s] # NoFd => sockets' # <<>>
  BY <1>1, <1>4 DEF IInv
<1> QED BY <1>1, <1>5, <1>6, <1>7, <1>8, <1>9 DEF IInv, DownAfterSilence, Running

LEMMA ThreadStep ==
  ASSUME IInv, Thread
  PROVE  IInv'
<1>1. CASE CreateServerSocket \/ CreateFails
  BY <1>1, CreateStep
<1>2. CASE SelectFails \/ SelectReturns \/ SelectTimesOut
  BY <1>2, SelectStep
<1>3. CASE \E s \in Sensors : Accept(s)
  BY <1>3, AcceptStep
<1>4. CASE \E s \in Sensors : ReceiveFrom(s)
  BY <1>4, ReceiveStep
<1>5. CASE AcceptFails
  <2>1. ~reused => master \subseteq open
    BY <1>5 DEF AcceptFails, IInv
  <2> QED BY <1>5, <2>1, GoesTo DEF AcceptFails
<1>6. CASE ReceiveDone
  <2>1. ~reused => master \subseteq open
    BY <1>6 DEF ReceiveDone, IInv
  <2> QED BY <1>6, <2>1, GoesTo DEF ReceiveDone
<1>7. CASE NoneInactive \/ CloseInactiveCrashes
  <2>1. loop = "close_inactive" /\ (~reused => master \subseteq open) /\ Silent
    BY <1>7, AllSilent DEF NoneInactive, CloseInactiveCrashes, IInv
  <2> QED BY <1>7, <2>1, GoesTo DEF NoneInactive, CloseInactiveCrashes
<1>8. CASE CloseInactive
  BY <1>8, CloseInactiveStep
<1>9. CASE ReceiveError
  <2>1. /\ read_set' \in SUBSET Fds
        /\ UNCHANGED <<loop, master, max_fd, sockets, entered, now, open, peer, fd,
                       sent, received, heard, intact, others, reused>>
    BY <1>9 DEF ReceiveError, NoStream, streams, files, IInv, TypeOK
  <2>2. TypeOK'
    BY <2>1 DEF IInv, TypeOK
  <2>3. Silent' = Silent
    BY <2>1 DEF Silent
  <2> QED BY <2>1, <2>2, <2>3 DEF IInv, DownAfterSilence, Running
<1> QED BY <1>1, <1>2, <1>3, <1>4, <1>5, <1>6, <1>7, <1>8, <1>9 DEF Thread

LEMMA StepInv == IInv /\ [Next]_vars => IInv'
<1> SUFFICES ASSUME IInv, [Next]_vars PROVE IInv'
  OBVIOUS
<1>1. CASE UNCHANGED vars
  <2>1. UNCHANGED <<loop, master, max_fd, read_set, sockets, entered, now, open,
                    others, peer, fd, sent, received, heard, intact, reused>>
    BY <1>1 DEF vars, listen, streams, files
  <2>2. TypeOK' /\ Silent' = Silent
    BY <2>1 DEF IInv, TypeOK, Silent
  <2> QED BY <2>1, <2>2 DEF IInv, DownAfterSilence, Running
<1> QED BY <1>1, ThreadStep, SensorNodeStep, OtherThreadStep, TickStep DEF Next

-----------------------------------------------------------------------------

(***************************************************************************)
(* Whatever the sensor nodes and the other threads do, the invariant holds.*)
(***************************************************************************)
THEOREM Invariance == Spec => []IInv
<1> QED BY InitInv, StepInv, PTL DEF Spec

(***************************************************************************)
(* The variables of connmgr.c keep their types, and nothing is received    *)
(* that was not sent.                                                      *)
(***************************************************************************)
THEOREM TypeCorrect == Spec => []TypeOK
<1>1. IInv => TypeOK
  BY DEF IInv
<1> QED BY <1>1, Invariance, PTL

(***************************************************************************)
(* The gateway goes down only when all sensor nodes have been silent for   *)
(* TIMEOUT seconds, unless another thread got a descriptor of master_set.  *)
(***************************************************************************)
THEOREM DownOnlyAfterSilence == Spec => []DownAfterSilence
<1>1. IInv => DownAfterSilence
  BY DEF IInv
<1> QED BY <1>1, Invariance, PTL

\* close_inactive_sockets alone closes the connection of a sensor node.
LEMMA ClosingStep ==
  ASSUME IInv, [Next]_vars, NEW s \in Sensors, fd[s] \in open \ open'
  PROVE  now - heard[s] >= Timeout
<1>1. CASE loop = "close_inactive"
  <2>1. fd[s] # NoFd
    BY ConnMgrAssumption DEF IInv, TypeOK
  <2> QED BY <1>1, <2>1, AllSilent DEF Silent
<1>2. CASE loop = "create"
  BY <1>2 DEF IInv
<1>3. CASE loop \notin {"create", "close_inactive"}
  <2>1. CASE Thread
    BY <1>3, <2>1
       DEF Thread, CreateServerSocket, CreateFails, SelectFails, SelectReturns,
           SelectTimesOut, Accept, AcceptFails, ReceiveFrom, Receive, ReceiveError,
           NoStream, ReceiveDone, CloseInactiveCrashes, CloseInactive, NoneInactive
  <2>2. CASE \E t \in Sensors : SensorNode(t)
    BY <2>2 DEF SensorNode, Connect, Send, HangUp
  <2>3. CASE OtherThread \/ Tick \/ UNCHANGED vars
    BY <2>3 DEF OtherThread, OtherOpens, OtherCloses, Tick, vars
  <2> QED BY <2>1, <2>2, <2>3 DEF Next
<1> QED BY <1>1, <1>2, <1>3

(***************************************************************************)
(* A sensor node is never closed within TIMEOUT seconds of being heard,    *)
(* although the wrong elements are looked at.                              *)
(***************************************************************************)
THEOREM OnlySilentAreClosed == Spec => ClosedWereSilent
<1>1. IInv /\ [Next]_vars =>
        [\A s \in Sensors :
           fd[s] \in open \ open' => now - heard[s] >= Timeout]_vars
  BY ClosingStep
<1> QED BY <1>1, Invariance, PTL DEF Spec, ClosedWereSilent
=============================================================================
