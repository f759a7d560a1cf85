---------------------------- MODULE ReadingQueue ----------------------------
(***************************************************************************)
(* What the shared buffer of the gateway promises to the threads that use  *)
(* it: a first-in first-out queue of readings, each of which leaves the    *)
(* queue once, to one thread.  Module SBuffer, the linked list of          *)
(* sbuffer.c, implements it; module Gateway uses it in place of the list. *)
(***************************************************************************)
EXTENDS Sequences

CONSTANTS
  Readings,   \* the sensor_data_t values threads may insert
  Consumers   \* the threads that remove readings

VARIABLES
  queue,      \* readings in the buffer, oldest first
  taken       \* taken[c]: the readings removals handed to thread c, in order

qvars == <<queue, taken>>

TypeOK ==
  /\ queue \in Seq(Readings)
  /\ taken \in [Consumers -> Seq(Readings)]

Init ==
  /\ queue = <<>>
  /\ taken = [c \in Consumers |-> <<>>]

\* sbuffer_insert that returns SBUFFER_SUCCESS.
Insert(r) ==
  /\ queue' = Append(queue, r)
  /\ UNCHANGED taken

\* sbuffer_remove that returns SBUFFER_SUCCESS.  One that returns
\* SBUFFER_NO_DATA changes nothing.
Remove(c) ==
  /\ queue # <<>>
  /\ taken' = [taken EXCEPT ![c] = Append(@, Head(queue))]
  /\ queue' = Tail(queue)

\* sbuffer_free throws the readings still queued away, one node at a time.
Discard ==
  /\ queue # <<>>
  /\ queue' = Tail(queue)
  /\ UNCHANGED taken

Next ==
  \/ \E r \in Readings : Insert(r)
  \/ \E c \in Consumers : Remove(c)
  \/ Discard

Spec == Init /\ [][Next]_qvars
=============================================================================
