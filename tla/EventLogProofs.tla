--------------------------- MODULE EventLogProofs ----------------------------
(* Proofs about module EventLog, for every set of writers and every number  *)
(* of events.                                                                *)
EXTENDS EventLog, Facts

\* What a line of an author is.
LEMMA LineFacts ==
  /\ Old \in FileLines /\ Old.by = "earlier_run"
  /\ \A n : Event(n).by = "log_event" /\ Event(n).number = n
  /\ \A n \in 1 .. MaxEvents : Event(n) \in FileLines
  /\ \A n \in Nat, t \in Seq(Messages) :
       /\ ChildLine(n, t) \in ChildLines
       /\ ChildLine(n, t).number = n /\ ChildLine(n, t).text = t
  /\ \A l \in ChildLines : l \in FileLines /\ l.by = "child"
<1>1. Old \in FileLines /\ Old.by = "earlier_run"
  BY DEF FileLines, Old
<1>2. \A n : Event(n).by = "log_event" /\ Event(n).number = n
  BY DEF Event
<1>3. \A n \in 1 .. MaxEvents : Event(n) \in FileLines
  BY DEF FileLines
<1>4. \A n \in Nat, t \in Seq(Messages) :
        /\ ChildLine(n, t) \in ChildLines
        /\ ChildLine(n, t).number = n /\ ChildLine(n, t).text = t
  BY DEF ChildLine, ChildLines
<1>5. \A l \in ChildLines : l \in FileLines /\ l.by = "child"
  BY DEF FileLines, ChildLines
<1> QED BY <1>1, <1>2, <1>3, <1>4, <1>5

\* A line has one of three authors.
LEMMA Authors ==
  ASSUME NEW l \in FileLines
  PROVE  /\ l.by \in {"earlier_run", "log_event", "child"}
         /\ l.by = "child" => l \in ChildLines
<1>1. CASE l = Old
  BY <1>1, LineFacts
<1>2. CASE \E n \in 1 .. MaxEvents : l = Event(n)
  BY <1>2, LineFacts
<1>3. CASE l \in ChildLines
  BY <1>3, LineFacts
<1> QED BY <1>1, <1>2, <1>3 DEF FileLines

LEMMA InitInv == Init => IInv
<1> SUFFICES ASSUME Init PROVE IInv
  OBVIOUS
<1> USE EventLogAssumption
<1>1. /\ file \in Seq(FileLines) /\ Len(file) \in {0, 1}
      /\ \A i \in 1 .. Len(file) : file[i] = Old
  <2>1. Old \in FileLines
    BY DEF FileLines
  <2>2. CASE file = <<>>
    BY <2>2, EmptySeq
  <2>3. CASE file = <<Old>>
    BY <2>1, <2>3
  <2> QED BY <2>2, <2>3 DEF Init
<1>2. Old.by = "earlier_run"
  BY DEF Old
<1>3. TypeOK
  <2>1. text \in Seq(Messages)
    <3>1. Garbage \in Messages
      BY DEF Messages
    <3>2. CASE text = <<>>
      BY <3>2, EmptySeq
    <3>3. CASE text = <<Garbage, Garbage>>
      BY <3>1, <3>3
    <3> QED BY <3>2, <3>3 DEF Init
  <2>2. pc \in [Writers -> Open \cup {"idle", "open", "done"}]
    BY DEF Init
  <2>3. /\ pipe \in Seq(Writers) /\ lines \in Seq(ChildLines) /\ Len(lines) = 0
        /\ written \in Seq(Writers) /\ read \in Seq(Writers)
    BY EmptySeq DEF Init
  <2> QED BY <1>1, <1>2, <2>1, <2>2, <2>3 DEF Init, TypeOK
<1>4. EventsLostFromTheFront /\ FileOfChild
  <2>1. events = 0 /\ child = "open_log" /\ \A i \in 1 .. Len(file) : file[i].by = "earlier_run"
    BY <1>1, <1>2 DEF Init
  <2> QED BY <2>1 DEF EventsLostFromTheFront, FileOfChild
<1>5. MessagesInOrder
  BY EmptySeq, ConcatEmptySeq DEF Init, MessagesInOrder
<1>6. FirstMessageIsSafe /\ LockOwned /\ Ends
  BY DEF Init, FirstMessageIsSafe, LockOwned, Ends, Open
<1>7. MessagesInLines /\ TextWasRead
  <2>1. Len(lines) = 0 /\ Len(read) = 0
    BY EmptySeq DEF Init
  <2>2. \A p \in 1 .. Len(text) : text[p] = Garbage
    BY EmptySeq DEF Init
  <2> QED BY <2>1, <2>2 DEF MessagesInLines, TextWasRead, WasRead
<1> QED
  BY <1>3, <1>4, <1>5, <1>6, <1>7 DEF IInv

-----------------------------------------------------------------------------
(* The lines of the file *)

\* Everything IInv says of the file.
FileInv ==
  /\ file \in Seq(FileLines)
  /\ \A i \in 1 .. Len(file) :
       file[i].by = "child" => i <= Len(lines) /\ file[i] = lines[i]
  /\ EventsLostFromTheFront
  /\ FileOfChild

LEMMA FileOfLogEvent ==
  ASSUME IInv, LogEvent
  PROVE  FileInv'
<1> DEFINE e == Event(events + 1)
<1>1. e \in FileLines /\ e.by = "log_event" /\ e.number = events + 1
  <2>1. events + 1 \in 1 .. MaxEvents
    BY EventLogAssumption DEF IInv, TypeOK, LogEvent
  <2> QED BY <2>1, LineFacts
<1>2. /\ file' = Append(file, e) /\ events' = events + 1
      /\ UNCHANGED <<child, lines>>
  BY DEF LogEvent, childVars
<1>3. events \in Nat /\ file \in Seq(FileLines) /\ Len(file) \in Nat
  BY SeqFacts, EventLogAssumption DEF IInv, TypeOK
<1>4. /\ file' \in Seq(FileLines)
      /\ Len(file') = Len(file) + 1
      /\ \A i \in 1 .. Len(file) : file'[i] = file[i]
      /\ file'[Len(file) + 1] = e
  BY <1>1, <1>2, <1>3, AppendFacts
<1> HIDE DEF e
<1>5. \A i \in 1 .. Len(file') :
        file'[i].by = "child" => i <= Len(lines') /\ file'[i] = lines'[i]
  <2> SUFFICES ASSUME NEW i \in 1 .. Len(file'), file'[i].by = "child"
               PROVE  i <= Len(lines') /\ file'[i] = lines'[i]
    OBVIOUS
  <2>1. \A j \in 1 .. Len(file) :
          file[j].by = "child" => j <= Len(lines) /\ file[j] = lines[j]
    BY DEF IInv, TypeOK
  <2>2. i \in 1 .. Len(file) /\ file'[i] = file[i]
    <3>1. i # Len(file) + 1
      BY <1>1, <1>4
    <3> QED BY <1>3, <1>4, <3>1
  <2> QED BY <1>2, <2>1, <2>2
<1>6. EventsLostFromTheFront'
  <2>1. ASSUME NEW i \in 1 .. Len(file'), file'[i].by = "log_event"
        PROVE  /\ file'[i].number = events' - (Len(file') - i)
               /\ \A j \in i .. Len(file') : file'[j].by = "log_event"
    BY <2>1, <1>1, <1>2, <1>3, <1>4 DEF IInv, EventsLostFromTheFront
  <2>2. \A i, j \in 1 .. Len(file') :
          file'[i].by = "child" /\ file'[j].by = "earlier_run" => j < i
    BY <1>1, <1>3, <1>4 DEF IInv, EventsLostFromTheFront
  <2>3. child' = "open_log" =>
          \A n \in 1 .. events' : \E i \in 1 .. Len(file') : file'[i] = Event(n)
    <3> SUFFICES ASSUME child' = "open_log", NEW n \in 1 .. events'
                 PROVE  \E i \in 1 .. Len(file') : file'[i] = Event(n)
      OBVIOUS
    <3>1. CASE n = events + 1
      BY <3>1, <1>3, <1>4 DEF e
    <3>2. CASE n \in 1 .. events
      <4>1. PICK i \in 1 .. Len(file) : file[i] = Event(n)
        BY <3>2, <1>2 DEF IInv, EventsLostFromTheFront
      <4> QED BY <4>1, <1>3, <1>4
    <3> QED BY <3>1, <3>2, <1>2, <1>3
  <2> QED BY <2>1, <2>2, <2>3 DEF EventsLostFromTheFront
<1>7. FileOfChild'
  BY <1>1, <1>2, <1>3, <1>4 DEF IInv, FileOfChild
<1> QED
  BY <1>4, <1>5, <1>6, <1>7 DEF FileInv

LEMMA FileOfOpenLog ==
  ASSUME IInv, OpenLog
  PROVE  FileInv'
<1>1. file' = <<>> /\ Len(file') = 0 /\ file' \in Seq(FileLines) /\ child' # "open_log"
  BY EmptySeq DEF OpenLog, ChildGoes
<1> QED
  BY <1>1 DEF FileInv, EventsLostFromTheFront, FileOfChild

\* The child overwrites nothing but what log_event wrote, from the front.
LEMMA FileOfCloseLog ==
  ASSUME IInv, CloseLog
  PROVE  FileInv'
<1>1. /\ child = "end" /\ child' = "ended"
      /\ file' = lines \o SubSeq(file, Len(lines) + 1, Len(file))
      /\ UNCHANGED <<lines, events>>
  BY DEF CloseLog, ChildGoes, parentVars
<1>2. /\ file \in Seq(FileLines) /\ lines \in Seq(FileLines)
      /\ Len(file) \in Nat /\ Len(lines) \in Nat
      /\ \A i \in 1 .. Len(lines) : lines[i].by = "child"
  <2>1. lines \in Seq(ChildLines) /\ ChildLines \subseteq FileLines
    BY DEF IInv, TypeOK, FileLines
  <2>2. \A i \in 1 .. Len(lines) : lines[i] \in ChildLines
    BY <2>1, SeqFacts
  <2>3. \A i \in 1 .. Len(lines) : lines[i].by = "child"
    BY <2>2, LineFacts
  <2>4. lines \in Seq(FileLines)
    BY <2>1
  <2>5. file \in Seq(FileLines)
    BY DEF IInv, TypeOK
  <2> QED BY <2>3, <2>4, <2>5, SeqFacts
<1>3. \A i \in 1 .. Len(file) : file[i].by = "log_event"
  BY <1>1, <1>2, SeqFacts, Authors DEF IInv, FileOfChild
<1>4. /\ file' \in Seq(FileLines)
      /\ Len(file') = IF Len(lines) < Len(file) THEN Len(file) ELSE Len(lines)
      /\ \A i \in 1 .. Len(lines) : file'[i] = lines[i]
      /\ \A i \in Len(lines) + 1 .. Len(file') :
           i \in 1 .. Len(file) /\ file'[i] = file[i]
  BY <1>1, <1>2, OverwriteFacts
<1>5. \A i \in 1 .. Len(file') :
        \/ i <= Len(lines) /\ file'[i] = lines[i] /\ file'[i].by = "child"
        \/ /\ i > Len(lines) /\ i \in 1 .. Len(file) /\ Len(file') = Len(file)
           /\ file'[i] = file[i] /\ file'[i].by = "log_event"
  BY <1>2, <1>3, <1>4
<1>6. EventsLostFromTheFront'
  <2>1. ASSUME NEW i \in 1 .. Len(file'), file'[i].by = "log_event"
        PROVE  /\ file'[i].number = events' - (Len(file') - i)
               /\ \A j \in i .. Len(file') : file'[j].by = "log_event"
    BY <2>1, <1>1, <1>2, <1>4, <1>5 DEF IInv, EventsLostFromTheFront
  <2> QED BY <2>1, <1>1, <1>5 DEF EventsLostFromTheFront
<1>7. FileOfChild'
  BY <1>1, <1>5 DEF FileOfChild
<1> QED
  BY <1>1, <1>4, <1>5, <1>6, <1>7 DEF FileInv

\* The other steps leave the file alone, and of the child's lines they drop
\* none, whereas they come from "open_log" or to it nowhere.
LEMMA FileUntouched ==
  ASSUME IInv, UNCHANGED <<file, events>>,
         Len(lines) <= Len(lines'), Len(lines') \in Nat,
         \A i \in 1 .. Len(lines) : lines'[i] = lines[i],
         \/ child' = child
         \/ child' = "ended"
         \/ child \notin {"open_log", "ended"} /\ child' # "open_log"
  PROVE  FileInv'
<1>1. Len(file) \in Nat /\ Len(lines) \in Nat /\ file \in Seq(FileLines)
  BY SeqFacts DEF IInv, TypeOK
<1>2. \A i \in 1 .. Len(file') :
        file'[i].by = "child" => i <= Len(lines') /\ file'[i] = lines'[i]
  BY <1>1 DEF IInv, TypeOK
<1>3. EventsLostFromTheFront'
  BY DEF IInv, EventsLostFromTheFront
<1>4. FileOfChild'
  BY DEF IInv, FileOfChild
<1> QED
  BY <1>1, <1>2, <1>3, <1>4 DEF FileInv

-----------------------------------------------------------------------------
(* What goes on at the two ends of the FIFO *)

\* Everything IInv says of the FIFO and of those that use it.
FifoInv ==
  /\ pc \in [Writers -> Open \cup {"idle", "open", "done"}]
  /\ lock \in Writers \cup {NULL}
  /\ parent \in {"running", "exited", "killed"}
  /\ child \in {"open_log", "open_fifo", "read", "end", "ended"}
  /\ pipe \in Seq(Writers) /\ written \in Seq(Writers) /\ read \in Seq(Writers)
  /\ MessagesInOrder /\ FirstMessageIsSafe /\ LockOwned /\ Ends

\* What IInv says of the rest.
RestInv ==
  /\ events \in 0 .. calls /\ calls \in 0 .. MaxEvents
  /\ text \in Seq(Messages)
  /\ lines \in Seq(ChildLines)
  /\ \A i \in 1 .. Len(lines) : lines[i].number = i - 1
  /\ MessagesInLines /\ TextWasRead

LEMMA Parts == IInv <=> FileInv /\ FifoInv /\ RestInv
BY DEF IInv, TypeOK, FileInv, FifoInv, RestInv

LEMMA PartsNext == IInv' <=> FileInv' /\ FifoInv' /\ RestInv'
BY DEF IInv, TypeOK, FileInv, FifoInv, RestInv

\* A step that leaves the FIFO, the writers, the parent and the child where
\* they are.
LEMMA FifoUntouched ==
  ASSUME FifoInv, UNCHANGED <<pc, lock, parent, child, pipe, written, read>>
  PROVE  FifoInv'
BY DEF FifoInv, MessagesInOrder, FirstMessageIsSafe, LockOwned, Ends

\* A writer's step inside fifomgr_write that moves no message.
LEMMA FifoOfStep ==
  ASSUME FifoInv, NEW w \in Writers,
         NEW from, NEW to, Step(w, from, to),
         UNCHANGED <<pipe, written, child, read>>,
         \/ from = "idle" /\ to = "open" /\ UNCHANGED lock
         \/ from = "open" /\ to = "done" /\ UNCHANGED lock
         \/ from = "lock" /\ to = "write" /\ lock = NULL /\ lock' = w
         \/ from = "unlock" /\ to = "close" /\ lock' = NULL
         \/ from = "close" /\ to \in {"done", "cancelled"} /\ UNCHANGED lock
         \/ from = "write" /\ to = "cancelled_locked" /\ UNCHANGED lock
  PROVE  FifoInv'
<1>1. /\ pc[w] = from /\ pc'[w] = to /\ UNCHANGED parent /\ parent = "running"
      /\ \A v \in Writers \ {w} : pc'[v] = pc[v]
      /\ to \in Open \cup {"idle", "open", "done"}
      /\ pc' \in [Writers -> Open \cup {"idle", "open", "done"}]
  BY DEF FifoInv, Step, Open
<1>2. lock' \in Writers \cup {NULL}
  BY DEF FifoInv
<1>3. LockOwned'
  BY <1>1, EventLogAssumption DEF FifoInv, LockOwned
<1>4. Ends'
  <2>1. \A v \in Writers : pc'[v] \in Open => pc[v] \in Open
    BY <1>1 DEF Open
  <2>2. (\E v \in Writers : pc[v] \in Open) =>
          written # <<>> \/ \E v \in Writers : pc'[v] \in Open
    BY <1>1 DEF FifoInv, Ends, Open
  <2>3. \A v \in Writers :
          pc'[v] \in {"unlock", "close", "cancelled"} => written # <<>>
    BY <1>1 DEF FifoInv, Ends
  <2> QED BY <1>1, <2>1, <2>2, <2>3 DEF FifoInv, Ends
<1>5. MessagesInOrder' /\ FirstMessageIsSafe'
  BY <1>1 DEF FifoInv, MessagesInOrder, FirstMessageIsSafe
<1> QED
  BY <1>1, <1>2, <1>3, <1>4, <1>5 DEF FifoInv

\* open meets the child at the FIFO.
LEMMA FifoOfOpenFifo ==
  ASSUME FifoInv, NEW w \in Writers, OpenFifo(w)
  PROVE  FifoInv'
<1>1. /\ pc[w] = "open" /\ pc'[w] = "lock" /\ parent = "running"
      /\ \A v \in Writers \ {w} : pc'[v] = pc[v]
      /\ pc' \in [Writers -> Open \cup {"idle", "open", "done"}]
      /\ child \in {"open_fifo", "read", "end"} /\ child' \in {"read", "end"}
      /\ child' = "end" => child = "end"
      /\ UNCHANGED <<parent, lock, pipe, written, read>>
  BY DEF FifoInv, OpenFifo, Step, Open
<1>2. LockOwned'
  BY <1>1 DEF FifoInv, LockOwned
<1>3. Ends'
  BY <1>1 DEF FifoInv, Ends, Open
<1>4. MessagesInOrder' /\ FirstMessageIsSafe'
  BY <1>1 DEF FifoInv, MessagesInOrder, FirstMessageIsSafe
<1> QED
  BY <1>1, <1>2, <1>3, <1>4 DEF FifoInv

\* A message goes into the FIFO behind all others.
LEMMA FifoOfWrite ==
  ASSUME FifoInv, NEW w \in Writers, Write(w)
  PROVE  FifoInv'
<1>1. /\ pc[w] = "write" /\ pc'[w] = "unlock" /\ parent = "running"
      /\ \A v \in Writers \ {w} : pc'[v] = pc[v]
      /\ pc' \in [Writers -> Open \cup {"idle", "open", "done"}]
      /\ child # "ended"
      /\ pipe' = Append(pipe, w) /\ written' = Append(written, w)
      /\ UNCHANGED <<parent, lock, child, read>>
  BY DEF FifoInv, Write, Step, childVars, Open
<1>2. /\ pipe' \in Seq(Writers) /\ written' \in Seq(Writers)
      /\ written' # <<>>
  BY <1>1, AppendFacts DEF FifoInv
<1>3. MessagesInOrder'
  <2>1. /\ pipe \in Seq(Writers) /\ read \in Seq(Writers) /\ <<w>> \in Seq(Writers)
        /\ written \in Seq(Writers)
    BY DEF FifoInv
  <2>2. /\ Append(pipe, w) = pipe \o <<w>>
        /\ Append(written, w) = written \o <<w>>
    BY <2>1, AppendIsConcat
  <2>3. (read \o pipe) \o <<w>> = read \o (pipe \o <<w>>)
    BY <2>1, ConcatAssociative
  <2> QED BY <1>1, <2>2, <2>3 DEF FifoInv, MessagesInOrder
<1>4. LockOwned'
  BY <1>1 DEF FifoInv, LockOwned
<1>5. child \notin {"open_log", "open_fifo"}
  BY <1>1 DEF FifoInv, Ends, Open
<1>6. Ends' /\ FirstMessageIsSafe'
  BY <1>1, <1>2, <1>5 DEF FifoInv, Ends, FirstMessageIsSafe
<1> QED
  BY <1>1, <1>2, <1>3, <1>4, <1>6 DEF FifoInv

\* The parent ends: by itself, or by SIGPIPE, and then a message was read.
LEMMA FifoOfParent ==
  ASSUME FifoInv, parent = "running",
         \/ parent' = "exited"
         \/ /\ parent' = "killed" /\ child = "ended"
            /\ \E w \in Writers : pc[w] = "write",
         UNCHANGED <<pc, lock, child, pipe, written, read>>
  PROVE  FifoInv'
<1>1. parent' = "killed" => read # <<>>
  BY DEF FifoInv, Ends, Open
<1> QED
  BY <1>1 DEF FifoInv, MessagesInOrder, FirstMessageIsSafe, LockOwned, Ends

\* The child reads all that the FIFO holds.
LEMMA FifoOfRead ==
  ASSUME FifoInv, Read
  PROVE  FifoInv'
<1>1. /\ child = "read" /\ pipe # <<>> /\ pipe' = <<>>
      /\ read' = read \o pipe
      /\ UNCHANGED <<pc, lock, parent, child, written>>
  BY DEF Read, parentVars
<1>2. pipe' \in Seq(Writers) /\ read' \in Seq(Writers) /\ read' # <<>>
  BY <1>1, ConcatProperties, ConcatEqualIffEmpty, EmptySeq DEF FifoInv
<1>3. MessagesInOrder'
  BY <1>1, <1>2, ConcatEmptySeq DEF FifoInv, MessagesInOrder
<1>4. LockOwned' /\ FirstMessageIsSafe' /\ Ends'
  BY <1>1, <1>2 DEF FifoInv, LockOwned, FirstMessageIsSafe, Ends
<1> QED
  BY <1>1, <1>2, <1>3, <1>4 DEF FifoInv

\* The child goes on.  It meets the end of the FIFO only when no message is
\* in it, so that all that were written were read.
LEMMA FifoOfChild ==
  ASSUME FifoInv,
         OpenLog \/ ChildFails \/ ReadEndOfFile \/ CloseLog
  PROVE  FifoInv'
<1>1. UNCHANGED <<pc, lock, parent, pipe, written, read>>
  BY DEF OpenLog, ChildFails, ReadEndOfFile, CloseLog, parentVars
<1>2. /\ child' \in {"open_fifo", "end", "ended"}
      /\ child' = "open_fifo" => child = "open_log"
      /\ child' = "end" => child = "read" /\ pipe = <<>> /\ ~HasWriter
      /\ child' = "ended" => child \in {"open_log", "open_fifo", "end"}
  BY DEF OpenLog, ChildFails, ReadEndOfFile, CloseLog, ChildGoes
<1>3. child' = "end" => read # <<>> \/ parent # "running"
  <2> SUFFICES ASSUME child' = "end", read = <<>> PROVE parent # "running"
    OBVIOUS
  <2>1. written = <<>>
    BY <1>2, ConcatEmptySeq, EmptySeq DEF FifoInv, MessagesInOrder
  <2> QED BY <2>1, <1>2 DEF FifoInv, Ends, HasWriter
<1>4. Ends' /\ FirstMessageIsSafe'
  BY <1>1, <1>2, <1>3 DEF FifoInv, Ends, FirstMessageIsSafe
<1>5. MessagesInOrder' /\ LockOwned'
  BY <1>1 DEF FifoInv, MessagesInOrder, LockOwned
<1> QED
  BY <1>1, <1>2, <1>4, <1>5 DEF FifoInv

-----------------------------------------------------------------------------
(* Every step keeps the invariant *)

\* Steps that print nothing.
LEMMA LinesUntouched ==
  ASSUME RestInv, UNCHANGED <<text, lines, read>>,
         events' \in 0 .. calls', calls' \in 0 .. MaxEvents
  PROVE  RestInv'
<1>1. TextWasRead'
  BY DEF RestInv, TextWasRead, WasRead
<1>2. MessagesInLines'
  <2>1. /\ \A m, l, p : PrintedBefore(m, l, p)' <=> PrintedBefore(m, l, p)
        /\ \A m : WasRead(m)' <=> WasRead(m)
        /\ \A j : FirstRead(j)' <=> FirstRead(j)
    BY DEF PrintedBefore, WasRead, FirstRead
  <2>2. lines' = lines /\ read' = read /\ MessagesInLines
    BY DEF RestInv
  <2> QED BY <2>1, <2>2 DEF MessagesInLines
<1> QED BY <1>1, <1>2 DEF RestInv

\* Steps that leave the file and the child's FILE alone.
LEMMA FifoStep ==
  ASSUME IInv, FifoInv',
         UNCHANGED <<file, events, calls, text, lines, read>>,
         \/ child' = child
         \/ child' = "ended"
         \/ child \notin {"open_log", "ended"} /\ child' # "open_log"
  PROVE  IInv'
<1>1. Len(lines) \in Nat
  BY SeqFacts DEF IInv, TypeOK
<1>2. FileInv'
  BY <1>1, FileUntouched
<1>3. RestInv'
  <2>1. RestInv /\ events \in 0 .. calls /\ calls \in 0 .. MaxEvents
    BY Parts DEF RestInv
  <2> QED BY <2>1, LinesUntouched
<1> QED BY <1>2, <1>3, PartsNext

LEMMA LogEventStep ==
  ASSUME IInv, LogEvent \/ LogEventFails
  PROVE  IInv'
<1>1. FifoInv'
  BY Parts, FifoUntouched DEF LogEvent, LogEventFails, childVars
<1>2. /\ calls' = calls + 1 /\ calls < MaxEvents
      /\ events' \in {events, events + 1}
      /\ UNCHANGED <<text, lines, read, child>>
  BY Parts DEF LogEvent, LogEventFails, childVars
<1>3. RestInv'
  <2>1. events \in 0 .. calls /\ calls \in 0 .. MaxEvents
    BY Parts DEF RestInv
  <2>2. events' \in 0 .. calls' /\ calls' \in 0 .. MaxEvents
    BY <1>2, <2>1, EventLogAssumption
  <2> QED BY <1>2, <2>2, Parts, LinesUntouched
<1>4. FileInv'
  <2>1. CASE LogEvent
    BY <2>1, FileOfLogEvent
  <2>2. CASE LogEventFails
    <3>1. UNCHANGED <<file, events, lines, child>> /\ Len(lines) \in Nat
      BY <2>2, SeqFacts DEF LogEventFails, childVars, IInv, TypeOK
    <3> QED BY <3>1, FileUntouched
  <2> QED BY <2>1, <2>2
<1> QED BY <1>1, <1>3, <1>4, PartsNext

LEMMA WriterStep ==
  ASSUME IInv, NEW w \in Writers, Writer(w)
  PROVE  IInv'
<1> USE Parts
<1>1. CASE Call(w)
  BY <1>1, FifoOfStep, FifoStep DEF Call, Step, childVars
<1>2. CASE OpenFails(w)
  BY <1>2, FifoOfStep, FifoStep DEF OpenFails, Step, childVars
<1>3. CASE OpenFifo(w)
  BY <1>3, FifoOfOpenFifo, FifoStep DEF OpenFifo, Step
<1>4. CASE Lock(w)
  BY <1>4, FifoOfStep, FifoStep DEF Lock, Step, childVars
<1>5. CASE Write(w)
  BY <1>5, FifoOfWrite, FifoStep DEF Write, Step, childVars
<1>6. CASE WriteBroken(w)
  BY <1>6, FifoOfParent, FifoStep DEF WriteBroken, childVars
<1>7. CASE Unlock(w)
  BY <1>7, FifoOfStep, FifoStep DEF Unlock, Step, childVars
<1>8. CASE Close(w)
  BY <1>8, FifoOfStep, FifoStep DEF Close, Step, childVars
<1>9. CASE Cancel(w)
  BY <1>9, FifoOfStep, FifoStep DEF Cancel, Step, childVars
<1> QED
  BY <1>1, <1>2, <1>3, <1>4, <1>5, <1>6, <1>7, <1>8, <1>9 DEF Writer

\* The new line of a read has the messages of the FIFO in front, in the order
\* in which they are read, and behind them only what was read before.
LEMMA PrintedOfRead ==
  ASSUME IInv, Read
  PROVE  MessagesInLines' /\ TextWasRead'
<1> PICK n : n = Len(lines)
  OBVIOUS
<1> PICK t : t = text'
  OBVIOUS
<1>1. /\ lines' = Append(lines, ChildLine(n, t)) /\ read' = read \o pipe
      /\ t = pipe \o SubSeq(text, Len(pipe) + 1, Len(text))
  BY DEF Read
<1>2. /\ pipe \in Seq(Writers) /\ pipe \in Seq(Messages)
      /\ text \in Seq(Messages) /\ read \in Seq(Writers)
      /\ lines \in Seq(ChildLines) /\ n \in Nat
      /\ Len(pipe) \in Nat /\ Len(read) \in Nat /\ Len(text) \in Nat
  <2>1. pipe \in Seq(Writers) /\ Writers \subseteq Messages
    BY DEF IInv, TypeOK, Messages
  <2>2. pipe \in Seq(Messages)
    BY <2>1
  <2> QED BY <2>1, <2>2, SeqFacts DEF IInv, TypeOK
<1>3. /\ t \in Seq(Messages) /\ Len(t) \in Nat /\ Len(pipe) <= Len(t)
      /\ \A p \in 1 .. Len(pipe) : t[p] = pipe[p]
      /\ \A p \in Len(pipe) + 1 .. Len(t) : p \in 1 .. Len(text) /\ t[p] = text[p]
  <2> DEFINE r == pipe \o SubSeq(text, Len(pipe) + 1, Len(text))
  <2>1. pipe \in Seq(Messages) /\ text \in Seq(Messages)
    BY <1>2
  <2>2. /\ r \in Seq(Messages)
        /\ Len(r) = IF Len(pipe) < Len(text) THEN Len(text) ELSE Len(pipe)
        /\ \A p \in 1 .. Len(pipe) : r[p] = pipe[p]
        /\ \A p \in Len(pipe) + 1 .. Len(r) : p \in 1 .. Len(text) /\ r[p] = text[p]
    BY <2>1, OverwriteFacts
  <2>3. r = t
    BY <1>1
  <2> HIDE DEF r
  <2> QED BY <1>2, <2>2, <2>3
<1>4. /\ Len(lines') = n + 1
      /\ \A l \in 1 .. n : lines'[l] = lines[l]
      /\ lines'[n + 1].text = t
  <2>1. ChildLine(n, t) \in ChildLines /\ ChildLine(n, t).text = t
    BY <1>2, <1>3, LineFacts
  <2>2. PICK e : e = ChildLine(n, t)
    OBVIOUS
  <2>3. e \in ChildLines /\ e.text = t /\ lines' = Append(lines, e)
    BY <1>1, <2>1, <2>2
  <2> QED BY <1>2, <2>3, AppendFacts
<1>5. /\ Len(read') = Len(read) + Len(pipe)
      /\ \A i \in 1 .. Len(read) : read'[i] = read[i]
      /\ \A i \in 1 .. Len(pipe) : read'[Len(read) + i] = pipe[i]
  BY <1>1, <1>2, ConcatProperties
<1>6. \A m : WasRead(m) => WasRead(m)'
  BY <1>2, <1>5 DEF WasRead, Contains
<1>7. \A m, l, p : PrintedBefore(m, l, p) => PrintedBefore(m, l, p)'
  BY <1>2, <1>4 DEF PrintedBefore
<1>8. \A p \in 1 .. Len(t) :
        /\ WasRead(t[p])'
        /\ p \notin 1 .. Len(pipe) => WasRead(t[p])
  <2> SUFFICES ASSUME NEW p \in 1 .. Len(t)
               PROVE  WasRead(t[p])' /\ (p \notin 1 .. Len(pipe) => WasRead(t[p]))
    OBVIOUS
  <2>1. CASE p \in 1 .. Len(pipe)
    <3>1. Len(read) + p \in 1 .. Len(read') /\ read'[Len(read) + p] = t[p]
      BY <1>2, <1>3, <1>5, <2>1
    <3> QED BY <2>1, <3>1 DEF WasRead, Contains
  <2>2. CASE p \notin 1 .. Len(pipe)
    <3>1. p \in 1 .. Len(text) /\ t[p] = text[p]
      BY <1>2, <1>3, <2>2
    <3> QED BY <1>6, <3>1 DEF IInv, TextWasRead
  <2> QED BY <2>1, <2>2
<1>9. TextWasRead'
  BY <1>8 DEF TextWasRead
<1>10. ASSUME NEW i \in 1 .. Len(read'), NEW l, NEW p,
              l \in Nat,
              \/ l > n + 1
              \/ l = n + 1 /\ (i <= Len(read) \/ i - Len(read) < p)
       PROVE  PrintedBefore(read[i], l, p)'
  <2>1. CASE i \in 1 .. Len(read)
    <3>1. PrintedBefore(read[i], n + 1, 1)
      BY <2>1 DEF IInv, MessagesInLines
    <3>2. PICK k \in 1 .. n : \E q \in 1 .. Len(lines[k].text) :
                lines[k].text[q] = read[i]
      BY <3>1 DEF PrintedBefore
    <3> QED BY <1>2, <1>4, <1>5, <1>10, <2>1, <3>2 DEF PrintedBefore
  <2>2. CASE i \notin 1 .. Len(read)
    <3>1. PICK q \in 1 .. Len(pipe) : i = Len(read) + q
      <4>1. i - Len(read) \in 1 .. Len(pipe) /\ i = Len(read) + (i - Len(read))
        BY <1>2, <1>5, <2>2
      <4> QED BY <4>1
    <3>2. q \in 1 .. Len(t) /\ read'[i] = t[q]
      <4>1. read'[Len(read) + q] = pipe[q] /\ t[q] = pipe[q]
        BY <1>3, <1>5
      <4> QED BY <1>2, <1>3, <3>1, <4>1
    <3>3. n + 1 \in 1 .. Len(lines') /\ (n + 1 < l \/ (n + 1 = l /\ q < p))
      BY <1>2, <1>4, <1>10, <2>2, <3>1
    <3> QED BY <1>4, <3>2, <3>3 DEF PrintedBefore
  <2> QED BY <2>1, <2>2
<1>11. ASSUME NEW l \in 1 .. n + 1, NEW p \in 1 .. Len(lines'[l].text),
              NEW j \in 1 .. Len(read'), FirstRead(j)',
              read'[j] = lines'[l].text[p],
              NEW i \in 1 .. j - 1
       PROVE  PrintedBefore(read[i], l, p)'
  <2>1. Garbage \notin Writers /\ read'[j] # Garbage
    BY <1>1, <1>2, <1>5, SeqFacts, ConcatProperties, EventLogAssumption
  <2>2. ASSUME WasRead(read'[j]) PROVE j \in 1 .. Len(read)
    <3>1. PICK h \in 1 .. Len(read) : read[h] = read'[j]
      BY <2>1, <2>2 DEF WasRead, Contains
    <3> QED BY <1>2, <1>5, <1>11, <3>1 DEF FirstRead
  <2>3. CASE l \in 1 .. n
    <3>1. lines'[l] = lines[l] /\ WasRead(lines[l].text[p])
      BY <1>4, <2>3 DEF IInv, MessagesInLines
    <3>2. j \in 1 .. Len(read)
      BY <1>11, <2>2, <3>1
    <3>3. /\ FirstRead(j) /\ read'[i] = read[i]
          /\ read[j] = lines[l].text[p] /\ p \in 1 .. Len(lines[l].text)
      BY <1>2, <1>5, <1>11, <3>1, <3>2 DEF FirstRead
    <3>4. PrintedBefore(read[i], l, p)
      BY <2>3, <3>2, <3>3 DEF IInv, MessagesInLines
    <3> QED BY <1>7, <3>3, <3>4
  <2>4. CASE l = n + 1
    <3>1. p \in 1 .. Len(t) /\ read'[j] = t[p]
      BY <1>4, <1>11, <2>4
    <3>2. i <= Len(read) \/ i - Len(read) < p
      <4>1. CASE j \in 1 .. Len(read)
        BY <1>2, <4>1
      <4>2. CASE j \notin 1 .. Len(read)
        <5>1. p \in 1 .. Len(pipe)
          BY <1>8, <2>2, <3>1, <4>2
        <5>2. Len(read) + p \in 1 .. Len(read') /\ read'[Len(read) + p] = read'[j]
          BY <1>2, <1>3, <1>5, <3>1, <5>1
        <5>3. j <= Len(read) + p
          BY <1>2, <1>5, <1>11, <5>2 DEF FirstRead
        <5> QED BY <1>2, <1>3, <5>3
      <4> QED BY <4>1, <4>2
    <3>3. i \in 1 .. Len(read') /\ n + 1 \in Nat
      BY <1>2, <1>5
    <3> QED BY <1>10, <2>4, <3>2, <3>3
  <2> QED BY <1>2, <2>3, <2>4
<1>12. MessagesInLines'
  <2>1. \A i \in 1 .. Len(read') : PrintedBefore(read[i], Len(lines) + 1, 1)'
    <3>1. Len(lines') + 1 \in Nat /\ Len(lines') + 1 > n + 1
      BY <1>2, <1>4
    <3> QED BY <3>1, <1>10
  <2>2. \A l \in 1 .. Len(lines') : \A p \in 1 .. Len(lines'[l].text) :
          WasRead(lines[l].text[p])'
    <3> SUFFICES ASSUME NEW l \in 1 .. n + 1, NEW p \in 1 .. Len(lines'[l].text)
                 PROVE  WasRead(lines[l].text[p])'
      BY <1>4
    <3>1. CASE l \in 1 .. n
      BY <1>4, <1>6, <3>1 DEF IInv, MessagesInLines
    <3>2. CASE l = n + 1
      BY <1>4, <1>8, <3>2
    <3> QED BY <1>2, <3>1, <3>2
  <2> QED BY <1>4, <1>11, <2>1, <2>2 DEF MessagesInLines
<1> QED BY <1>9, <1>12

\* A line of the child is the next by its number.
LEMMA ReadStep ==
  ASSUME IInv, Read
  PROVE  IInv'
<1>1. /\ lines' = Append(lines, ChildLine(Len(lines), text'))
      /\ text' = pipe \o SubSeq(text, Len(pipe) + 1, Len(text))
      /\ UNCHANGED <<file, child, events, calls>>
  BY DEF Read, parentVars
<1>2. pipe \in Seq(Messages) /\ text \in Seq(Messages)
  <2>1. pipe \in Seq(Writers) /\ Writers \subseteq Messages
    BY DEF IInv, TypeOK, Messages
  <2> QED BY <2>1 DEF IInv, TypeOK
<1>3. text' \in Seq(Messages)
  BY <1>1, <1>2, OverwriteFacts
<1>4. lines \in Seq(ChildLines) /\ Len(lines) \in Nat
  BY SeqFacts DEF IInv, TypeOK
<1>5. /\ ChildLine(Len(lines), text') \in ChildLines
      /\ ChildLine(Len(lines), text').number = Len(lines)
  BY <1>3, <1>4, LineFacts
<1>6. /\ lines' \in Seq(ChildLines) /\ Len(lines') = Len(lines) + 1
      /\ \A i \in 1 .. Len(lines) : lines'[i] = lines[i]
      /\ lines'[Len(lines) + 1].number = Len(lines)
  BY <1>1, <1>4, <1>5, AppendFacts
<1>7. RestInv'
  <2>1. \A i \in 1 .. Len(lines') : lines'[i].number = i - 1
    <3>1. \A i \in 1 .. Len(lines) : lines[i].number = i - 1
      BY DEF IInv, TypeOK
    <3> QED BY <1>4, <1>6, <3>1
  <2>2. UNCHANGED <<events, calls>>
    BY <1>1
  <2> QED BY <1>3, <1>6, <2>1, <2>2, PrintedOfRead, Parts DEF RestInv
<1>8. FileInv'
  BY <1>1, <1>4, <1>6, FileUntouched
<1>9. FifoInv'
  BY FifoOfRead, Parts
<1> QED BY <1>7, <1>8, <1>9, PartsNext

LEMMA ChildStep ==
  ASSUME IInv, Child
  PROVE  IInv'
<1>1. CASE Read
  BY <1>1, ReadStep
<1>2. CASE ChildFails \/ ReadEndOfFile
  <2>1. FifoInv'
    BY <1>2, FifoOfChild, Parts
  <2>2. /\ UNCHANGED <<file, events, calls, text, lines, read>>
        /\ child' = "ended" \/ (child = "read" /\ child' = "end")
    BY <1>2 DEF ChildFails, ReadEndOfFile, ChildGoes, parentVars
  <2> QED BY <2>1, <2>2, FifoStep
<1>3. CASE OpenLog \/ CloseLog
  <2>1. FifoInv'
    BY <1>3, FifoOfChild, Parts
  <2>2. FileInv'
    BY <1>3, FileOfOpenLog, FileOfCloseLog
  <2>3. UNCHANGED <<events, calls, text, lines, read>>
    BY <1>3 DEF OpenLog, CloseLog, parentVars
  <2>4. RestInv'
    <3>1. events \in 0 .. calls /\ calls \in 0 .. MaxEvents
      BY Parts DEF RestInv
    <3> QED BY <2>3, <3>1, Parts, LinesUntouched
  <2> QED BY <2>1, <2>2, <2>4, PartsNext
<1> QED BY <1>1, <1>2, <1>3 DEF Child

LEMMA StepInv == IInv /\ [Next]_vars => IInv'
<1> SUFFICES ASSUME IInv, [Next]_vars PROVE IInv'
  OBVIOUS
<1>1. CASE LogEvent \/ LogEventFails
  BY <1>1, LogEventStep
<1>2. CASE ParentExits
  BY <1>2, FifoOfParent, FifoStep, Parts DEF ParentExits, childVars
<1>3. ASSUME NEW w \in Writers, Writer(w) PROVE IInv'
  BY <1>3, WriterStep
<1>4. CASE Child
  BY <1>4, ChildStep
<1>5. CASE UNCHANGED vars
  BY <1>5, FifoUntouched, FifoStep, Parts DEF vars, parentVars, childVars
<1> QED
  BY <1>1, <1>2, <1>3, <1>4, <1>5 DEF Next

-----------------------------------------------------------------------------
(***************************************************************************)
(* The inductive invariant holds however the processes are scheduled, and  *)
(* whatever is cancelled.                                                  *)
(***************************************************************************)
THEOREM Invariance == Spec => []IInv
<1>1. Init => IInv
  BY InitInv
<1>2. IInv /\ [Next]_vars => IInv'
  BY StepInv
<1> QED BY <1>1, <1>2, PTL DEF Spec

\* The variables keep their types, and the child numbers its lines from 0.
THEOREM TypeCorrect == Spec => []TypeOK
<1>1. IInv => TypeOK
  BY DEF IInv
<1> QED BY <1>1, Invariance, PTL

(***************************************************************************)
(* What threads of the parent log directly is lost from the front only:    *)
(* the last lines of log_event stand complete, in order and behind those   *)
(* of the child (main.c, log_event and run_child).                         *)
(***************************************************************************)
THEOREM LossIsAtTheFront == Spec => []EventsLostFromTheFront
<1>1. IInv => EventsLostFromTheFront
  BY DEF IInv
<1> QED BY <1>1, Invariance, PTL

(***************************************************************************)
(* The child prints every message it reads, in a line with others or with  *)
(* what log_message held behind them, and first prints it behind all that  *)
(* were read before it (main.c, run_child).                                *)
(***************************************************************************)
THEOREM MessagesReachLines == Spec => []MessagesInLines
<1>1. IInv => MessagesInLines
  BY DEF IInv
<1> QED BY <1>1, Invariance, PTL

(***************************************************************************)
(* The race at the end of the FIFO costs a message, or the gateway, only   *)
(* when the child has read one before.                                     *)
(***************************************************************************)
THEOREM FirstIsRead == Spec => []FirstMessageIsSafe
<1>1. IInv => FirstMessageIsSafe
  BY DEF IInv
<1> QED BY <1>1, Invariance, PTL

(***************************************************************************)
(* fifolock excludes: two threads never write to the FIFO at a time, also  *)
(* when one was cancelled while it wrote (main.c, fifomgr_write).          *)
(***************************************************************************)
THEOREM OneWriterAtATime ==
  Spec => [](\A v, w \in Writers :
               pc[v] \in {"write", "unlock"} /\ pc[w] \in {"write", "unlock"}
                 => v = w)
<1>1. IInv => \A v, w \in Writers :
                pc[v] \in {"write", "unlock"} /\ pc[w] \in {"write", "unlock"}
                  => v = w
  BY DEF IInv, LockOwned
<1> QED BY <1>1, Invariance, PTL
=============================================================================
