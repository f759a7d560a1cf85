------------------------------ MODULE EventLog -------------------------------
(***************************************************************************)
(* gateway.log and the two ways into it that main.c has: log_event, which  *)
(* a thread of the parent process calls and which appends a line, and      *)
(* fifomgr_write, by which a thread of the parent hands messages through a *)
(* FIFO to the child process, which keeps its lines in the buffer of its   *)
(* own FILE and writes them when it meets the end of the FIFO.             *)
(*                                                                         *)
(* fifomgr_write takes a lock, for any number of callers, and is checked   *)
(* with several, although start_datamgr is the only one so far.            *)
(*                                                                         *)
(* Lines have one length, and so have messages: a line of which a part is  *)
(* overwritten counts as overwritten.  The disk does not fill up, and the  *)
(* child writes less than a buffer of its FILE holds.                      *)
(***************************************************************************)
EXTENDS Naturals, Sequences, SequencesExt

CONSTANTS
  Writers,    \* threads that call fifomgr_write, each with one message
  MaxEvents,  \* bound: calls of log_event
  Garbage,    \* what log_message may hold before it is written
  NULL        \* no thread

ASSUME EventLogAssumption ==
  /\ NULL \notin Writers
  /\ Garbage \notin Writers
  /\ MaxEvents \in Nat

VARIABLES
  file,     \* the lines of gateway.log
  events,   \* log_sequence_number
  calls,    \* history: how often log_event was called
  parent,   \* "running", "exited", or "killed" by SIGPIPE
  pc,       \* pc[w]: where writer w stands in fifomgr_write
  lock,     \* the owner of fifolock
  pipe,     \* the messages in the FIFO
  child,    \* where the child process stands
  text,     \* child: log_message up to its first zero byte
  lines,    \* child: the lines in the buffer of its FILE
  written,  \* history: the messages written to the FIFO
  read      \* history: the messages read from it

parentVars == <<events, calls, parent, pc, lock, written>>
childVars  == <<child, text, lines, read>>
vars == <<file, pipe, parentVars, childVars>>

\* A message is named by the thread that writes it.
Old      == [by |-> "earlier_run", number |-> 0, text |-> <<>>]
Event(n) == [by |-> "log_event", number |-> n, text |-> <<>>]

\* Fault: the numbers start with 1.
ChildLineFromOne(n, t) == [by |-> "child", number |-> n + 1, text |-> t]

ChildLine(n, t) == [by |-> "child", number |-> n, text |-> t]

Init ==
  /\ file \in {<<>>, <<Old>>}
  /\ events = 0
  /\ calls = 0
  /\ parent = "running"
  /\ pc = [w \in Writers |-> "idle"]
  /\ lock = NULL
  /\ pipe = <<>>
  /\ child = "open_log"
  /\ text \in {<<>>, <<Garbage, Garbage>>}
  /\ lines = <<>>
  /\ written = <<>>
  /\ read = <<>>

-----------------------------------------------------------------------------
(* log_event *)

\* Fault: the file is opened with "w".
LogEventTruncates ==
  /\ parent = "running"
  /\ calls < MaxEvents
  /\ calls' = calls + 1
  /\ events' = events + 1
  /\ file' = <<Event(events + 1)>>
  /\ UNCHANGED <<parent, pc, lock, pipe, written, childVars>>

\* fprintf keeps the line until fclose appends it, at whatever is the end of
\* the file by then.
LogEvent ==
  /\ parent = "running"
  /\ calls < MaxEvents
  /\ calls' = calls + 1
  /\ events' = events + 1
  /\ file' = Append(file, Event(events + 1))
  /\ UNCHANGED <<parent, pc, lock, pipe, written, childVars>>

\* fopen failed.
LogEventFails ==
  /\ parent = "running"
  /\ calls < MaxEvents
  /\ calls' = calls + 1
  /\ UNCHANGED <<file, events, parent, pc, lock, pipe, written, childVars>>

-----------------------------------------------------------------------------
(* fifomgr_write *)

\* The threads that have the FIFO open for writing, cancelled ones too.
Open == {"lock", "write", "unlock", "close", "cancelled", "cancelled_locked"}

HasWriter == parent = "running" /\ \E w \in Writers : pc[w] \in Open

Step(w, from, to) ==
  /\ parent = "running"
  /\ pc[w] = from
  /\ pc' = [pc EXCEPT ![w] = to]
  /\ UNCHANGED <<file, events, calls, parent>>

Call(w) ==
  /\ Step(w, "idle", "open")
  /\ UNCHANGED <<lock, pipe, written, childVars>>

\* open fails: the message is dropped.
OpenFails(w) ==
  /\ Step(w, "open", "done")
  /\ UNCHANGED <<lock, pipe, written, childVars>>

\* open waits until the child has opened the FIFO, or is about to: then each
\* lets the other go on.
OpenFifo(w) ==
  /\ Step(w, "open", "lock")
  /\ child \in {"open_fifo", "read", "end"}
  /\ child' = IF child = "open_fifo" THEN "read" ELSE child
  /\ UNCHANGED <<lock, pipe, written, text, lines, read>>

Lock(w) ==
  /\ Step(w, "lock", "write")
  /\ lock = NULL
  /\ lock' = w
  /\ UNCHANGED <<pipe, written, childVars>>

Write(w) ==
  /\ Step(w, "write", "unlock")
  /\ child # "ended"
  /\ pipe' = Append(pipe, w)
  /\ written' = Append(written, w)
  /\ UNCHANGED <<lock, childVars>>

\* Nobody reads any more: SIGPIPE ends the process.
WriteBroken(w) ==
  /\ parent = "running"
  /\ pc[w] = "write"
  /\ child = "ended"
  /\ parent' = "killed"
  /\ UNCHANGED <<file, pipe, events, calls, pc, lock, written, childVars>>

\* Fault: the lock is kept.
UnlockNothing(w) ==
  /\ Step(w, "unlock", "close")
  /\ UNCHANGED <<lock, pipe, written, childVars>>

Unlock(w) ==
  /\ Step(w, "unlock", "close")
  /\ lock' = NULL
  /\ UNCHANGED <<pipe, written, childVars>>

Close(w) ==
  /\ Step(w, "close", "done")
  /\ UNCHANGED <<lock, pipe, written, childVars>>

\* open, write and close are cancellation points: the FIFO is not closed any
\* more, nor is fifolock unlocked.
Cancel(w) ==
  /\ \/ Step(w, "open", "done")
     \/ Step(w, "write", "cancelled_locked")
     \/ Step(w, "close", "cancelled")
  /\ UNCHANGED <<lock, pipe, written, childVars>>

\* The process ends, from one of its other threads.
ParentExits ==
  /\ parent = "running"
  /\ parent' = "exited"
  /\ UNCHANGED <<file, pipe, events, calls, pc, lock, written, childVars>>

-----------------------------------------------------------------------------
(* run_child *)

ChildGoes(from, to) ==
  /\ child = from
  /\ child' = to

\* fopen with "w" empties the file.
OpenLog ==
  /\ ChildGoes("open_log", "open_fifo")
  /\ file' = <<>>
  /\ UNCHANGED <<pipe, parentVars, text, lines, read>>

\* FILE_OPEN_ERROR, or OPEN_ERROR: the child exits.
ChildFails ==
  /\ ChildGoes("open_log", "ended") \/ ChildGoes("open_fifo", "ended")
  /\ UNCHANGED <<file, pipe, parentVars, text, lines, read>>

\* Fault: messages are sent with their zero byte, and the line ends at the
\* first.
ReadPrintsFirst ==
  /\ child = "read"
  /\ pipe # <<>>
  /\ pipe' = <<>>
  /\ read' = read \o pipe
  /\ text' = <<Head(pipe)>>
  /\ lines' = Append(lines, ChildLine(Len(lines), text'))
  /\ UNCHANGED <<file, child, parentVars>>

\* One read takes all there is.  It is not terminated: what log_message held
\* behind it is printed too.
Read ==
  /\ child = "read"
  /\ pipe # <<>>
  /\ pipe' = <<>>
  /\ read' = read \o pipe
  /\ text' = pipe \o SubSeq(text, Len(pipe) + 1, Len(text))
  /\ lines' = Append(lines, ChildLine(Len(lines), text'))
  /\ UNCHANGED <<file, child, parentVars>>

\* Fault: an empty FIFO is taken for its end.
ReadEndOfFileEarly ==
  /\ ChildGoes("read", "end")
  /\ pipe = <<>>
  /\ UNCHANGED <<file, pipe, parentVars, text, lines, read>>

ReadEndOfFile ==
  /\ ChildGoes("read", "end")
  /\ pipe = <<>>
  /\ ~HasWriter
  /\ UNCHANGED <<file, pipe, parentVars, text, lines, read>>

\* Fault: the FILE is not closed.
CloseLogUnflushed ==
  /\ ChildGoes("end", "ended")
  /\ UNCHANGED <<file, pipe, parentVars, text, lines, read>>

\* fclose writes the lines where the child's FILE stands, at the beginning,
\* over what was appended meanwhile; then the FIFO is closed.
CloseLog ==
  /\ ChildGoes("end", "ended")
  /\ file' = lines \o SubSeq(file, Len(lines) + 1, Len(file))
  /\ UNCHANGED <<pipe, parentVars, text, lines, read>>

-----------------------------------------------------------------------------
Writer(w) ==
  \/ Call(w) \/ OpenFails(w) \/ OpenFifo(w) \/ Lock(w) \/ Write(w)
  \/ WriteBroken(w) \/ Unlock(w) \/ Close(w) \/ Cancel(w)

Child == OpenLog \/ ChildFails \/ Read \/ ReadEndOfFile \/ CloseLog

Next ==
  \/ LogEvent \/ LogEventFails \/ ParentExits
  \/ \E w \in Writers : Writer(w)
  \/ Child

Spec == Init /\ [][Next]_vars

\* A writer in its call and the child are scheduled again and again.  No call
\* need fail, and nobody is cancelled for sure.
FairSpec ==
  /\ Spec
  /\ \A w \in Writers :
       WF_vars(OpenFifo(w) \/ Lock(w) \/ Write(w) \/ WriteBroken(w)
                 \/ Unlock(w) \/ Close(w))
  /\ WF_vars(OpenLog \/ Read \/ ReadEndOfFile \/ CloseLog)

-----------------------------------------------------------------------------
(* Properties *)

Messages == Writers \cup {Garbage}

ChildLines == [by : {"child"}, number : Nat, text : Seq(Messages)]

FileLines == {Old} \cup {Event(n) : n \in 1 .. MaxEvents} \cup ChildLines

\* Variables have the types of the code; the child numbers its lines from 0,
\* and only they stand in the file as the child's.
TypeOK ==
  /\ file \in Seq(FileLines)
  /\ \A i \in 1 .. Len(file) :
       file[i].by = "child" => i <= Len(lines) /\ file[i] = lines[i]
  /\ events \in 0 .. calls
  /\ calls \in 0 .. MaxEvents
  /\ parent \in {"running", "exited", "killed"}
  /\ pc \in [Writers -> Open \cup {"idle", "open", "done"}]
  /\ lock \in Writers \cup {NULL}
  /\ pipe \in Seq(Writers)
  /\ child \in {"open_log", "open_fifo", "read", "end", "ended"}
  /\ text \in Seq(Messages)
  /\ lines \in Seq(ChildLines)
  /\ \A i \in 1 .. Len(lines) : lines[i].number = i - 1
  /\ written \in Seq(Writers)
  /\ read \in Seq(Writers)

\* What log_event wrote is lost from the front only, and by the child only,
\* which empties the file once and overwrites its beginning once.  What is
\* left of it is complete and in order up to the last line, and stands behind
\* the lines of the child.
EventsLostFromTheFront ==
  /\ \A i \in 1 .. Len(file) : file[i].by = "log_event" =>
       /\ file[i].number = events - (Len(file) - i)
       /\ \A j \in i .. Len(file) : file[j].by = "log_event"
  /\ \A i, j \in 1 .. Len(file) :
       file[i].by = "child" /\ file[j].by = "earlier_run" => j < i
  /\ child = "open_log" =>
       \A n \in 1 .. events : \E i \in 1 .. Len(file) : file[i] = Event(n)

\* m is printed in front of place p of line l, or in an earlier line.
PrintedBefore(m, l, p) ==
  \E k \in 1 .. Len(lines) : \E q \in 1 .. Len(lines[k].text) :
    lines[k].text[q] = m /\ (k < l \/ (k = l /\ q < p))

WasRead(m) == m = Garbage \/ Contains(read, m)

FirstRead(j) == \A i \in 1 .. j - 1 : read[i] # read[j]

\* What the child reads it prints: every message comes out in a line, though
\* one read takes several and log_message is never terminated; what comes out
\* behind them is garbage or was read before; and wherever a message is
\* printed, those that were read before it are printed already.
MessagesInLines ==
  /\ \A i \in 1 .. Len(read) : PrintedBefore(read[i], Len(lines) + 1, 1)
  /\ \A l \in 1 .. Len(lines) : \A p \in 1 .. Len(lines[l].text) :
       /\ WasRead(lines[l].text[p])
       /\ \A j \in 1 .. Len(read) :
            FirstRead(j) /\ read[j] = lines[l].text[p] =>
              \A i \in 1 .. j - 1 : PrintedBefore(read[i], l, p)

\* The first message is safe from the race at the end of the FIFO, in which a
\* thread opens it after the child has read its end: a message stays in the
\* FIFO for good, or SIGPIPE ends the gateway, only when one was read before.
FirstMessageIsSafe ==
  (child = "ended" /\ pipe # <<>>) \/ parent = "killed" => read # <<>>

\* The child's lines come into the file when it closes it, and an earlier
\* run's stay only if it does not open it.
FileOfChild ==
  \A i \in 1 .. Len(file) :
    /\ file[i].by = "child" => child = "ended"
    /\ file[i].by = "earlier_run" => child \in {"open_log", "ended"}

\* fifolock: whoever is past its lock owns it, and is alone there; a thread
\* cancelled while it writes keeps it.
LockOwned ==
  \A w \in Writers :
    pc[w] \in {"write", "unlock", "cancelled_locked"} <=> lock = w

\* The messages written are those read and those in the FIFO.
MessagesInOrder == written = read \o pipe

\* log_message holds messages that were read, behind the newest too.
TextWasRead == \A p \in 1 .. Len(text) : WasRead(text[p])

\* How far the two ends of the FIFO are.  Nobody has it open before the child
\* opens it too; whoever is behind its write has written; the child goes on
\* to its end only with a writer, or a message, behind it.
Ends ==
  /\ child \in {"open_log", "open_fifo"} =>
       pipe = <<>> /\ \A w \in Writers : pc[w] \notin Open
  /\ \A w \in Writers :
       pc[w] \in {"unlock", "close", "cancelled"} => written # <<>>
  /\ child = "read" => written # <<>> \/ \E w \in Writers : pc[w] \in Open
  /\ child = "end" => read # <<>> \/ (pipe = <<>> /\ parent # "running")
  /\ child = "ended" =>
       \/ read # <<>>
       \/ /\ pipe = <<>>
          /\ parent # "running" \/ \A w \in Writers : pc[w] \notin Open
  /\ parent = "killed" => read # <<>>

\* The inductive invariant.
IInv ==
  /\ TypeOK /\ EventsLostFromTheFront /\ FileOfChild
  /\ MessagesInOrder /\ MessagesInLines /\ TextWasRead
  /\ FirstMessageIsSafe /\ LockOwned /\ Ends

\* What the child has read is in the file in the end, unless a cancelled
\* thread keeps the FIFO open, as long as its process runs.
HeldOpen ==
  \E w \in Writers : pc[w] \in {"cancelled", "cancelled_locked"}

InFile(m) == \E i \in 1 .. Len(file) : Contains(file[i].text, m)

ReadIsLogged ==
  \A m \in Writers :
    Contains(read, m) ~> (InFile(m) \/ (HeldOpen /\ parent = "running"))

\* A thread that has the FIFO open comes out of fifomgr_write: nobody keeps
\* fifolock but a thread that was cancelled while it wrote.
WritersReturn ==
  \A w \in Writers :
    pc[w] = "lock" ~> (pc[w] = "done" \/ HeldOpen \/ parent # "running")
=============================================================================
