------------------------------ MODULE SBuffer -------------------------------
(***************************************************************************)
(* The shared buffer of sbuffer.c, one action per statement that another   *)
(* thread can observe: a singly linked list with a head and a tail         *)
(* pointer, one mutex (buffer->mutex) taken by sbuffer_insert and          *)
(* sbuffer_remove, and a second one (buffer_mutex) taken by                *)
(* sbuffer_get_data alone.  Statements that touch only a thread's own      *)
(* variables, or shared ones the lock protects from every other access,    *)
(* are joined with the next visible one.                                   *)
(*                                                                         *)
(* Threads call the operations; when all of them have ended their owner    *)
(* calls sbuffer_free, as terminate does after its joins.                  *)
(***************************************************************************)
EXTENDS Naturals, Sequences

CONSTANTS
  Producers,    \* threads that call sbuffer_insert
  Consumers,    \* threads that call sbuffer_remove
  Readers,      \* threads that call sbuffer_get_data
  Nodes,        \* the addresses malloc may return for an sbuffer_node_t
  MaxReadings,  \* bound: insertions attempted by each producer
  NULL          \* the null pointer, and "no thread" for a mutex

Threads == Producers \cup Consumers \cup Readers

ASSUME SBufferAssumption ==
  /\ Producers \cap Consumers = {}
  /\ Producers \cap Readers = {}
  /\ Consumers \cap Readers = {}
  /\ NULL \notin Threads
  /\ NULL \notin Nodes
  /\ MaxReadings \in Nat

\* A sensor_data_t, abstracted to the thread that inserts it and the number
\* of the insertion: payloads are never inspected by the buffer.
Readings == [from : Producers, seq : 1 .. MaxReadings]

VARIABLES
  buffer,  \* *buffer: "ready", "draining" inside sbuffer_free, "freed"
  head,    \* buffer->head
  tail,    \* buffer->tail
  next,    \* next[n]: field next of node n
  data,    \* data[n]: field data of node n, NULL before it is written
  live,    \* the nodes malloc returned that have not been freed
  mutex,   \* owner of buffer->mutex
  rmutex,  \* owner of buffer_mutex
  pc,      \* pc[t]: where thread t stands
  dummy,   \* dummy[t]: the local node pointer of thread t
  out,     \* out[c]: *data of the removal c is in, NULL before it is written
  fault,   \* what sbuffer_get_data read through: "none", or the error
  sent,    \* history: sent[p] counts the insertions p attempted
  got,     \* history: got[c] the readings handed to c
  chain    \* history: the linked nodes in list order

vars == <<buffer, head, tail, next, data, live, mutex, rmutex, pc, dummy,
          out, fault, sent, got, chain>>

list == <<head, tail, next, data, live, chain>>

PCs == {"idle", "insert_lock", "insert_link", "insert_move_tail",
        "insert_unlock", "remove_test", "remove_unlink", "remove_free",
        "remove_unlock", "get_test", "get_load", "get_copy", "get_unlock",
        "done"}

Holding == {"insert_link", "insert_move_tail", "insert_unlock",
            "remove_test", "remove_unlink", "remove_free", "remove_unlock"}

ReadHolding == {"get_test", "get_load", "get_copy", "get_unlock"}

-----------------------------------------------------------------------------
\* sbuffer_init.
Init ==
  /\ buffer = "ready"
  /\ head = NULL
  /\ tail = NULL
  /\ next = [n \in Nodes |-> NULL]
  /\ data = [n \in Nodes |-> NULL]
  /\ live = {}
  /\ mutex = NULL
  /\ rmutex = NULL
  /\ pc = [t \in Threads |-> "idle"]
  /\ dummy = [t \in Threads |-> NULL]
  /\ out = [c \in Consumers |-> NULL]
  /\ fault = "none"
  /\ sent = [p \in Producers |-> 0]
  /\ got = [c \in Consumers |-> <<>>]
  /\ chain = <<>>

Goto(t, from, to) ==
  /\ pc[t] = from
  /\ pc' = [pc EXCEPT ![t] = to]

Acquire(t) == mutex = NULL /\ mutex' = t

Release(t) == mutex' = NULL

-----------------------------------------------------------------------------
(* sbuffer_insert *)

\* The node is allocated and filled before the lock is taken.
InsertAlloc(p) ==
  /\ Goto(p, "idle", "insert_lock")
  /\ sent[p] < MaxReadings
  /\ sent' = [sent EXCEPT ![p] = @ + 1]
  /\ \E n \in Nodes \ live :
       /\ live' = live \cup {n}
       /\ data' = [data EXCEPT ![n] = [from |-> p, seq |-> sent[p] + 1]]
       /\ next' = [next EXCEPT ![n] = NULL]
       /\ dummy' = [dummy EXCEPT ![p] = n]
  /\ UNCHANGED <<buffer, head, tail, mutex, rmutex, out, fault, got, chain>>

\* malloc returned NULL: SBUFFER_FAILURE, the reading is dropped.
InsertNoMemory(p) ==
  /\ pc[p] = "idle"
  /\ sent[p] < MaxReadings
  /\ sent' = [sent EXCEPT ![p] = @ + 1]
  /\ UNCHANGED <<buffer, list, mutex, rmutex, pc, dummy, out, fault, got>>

\* Fault: the lock is not waited for.
InsertLockBusy(p) ==
  /\ Goto(p, "insert_lock", "insert_link")
  /\ mutex' = p
  /\ UNCHANGED <<buffer, list, rmutex, dummy, out, fault, sent, got>>

InsertLock(p) ==
  /\ Goto(p, "insert_lock", "insert_link")
  /\ Acquire(p)
  /\ UNCHANGED <<buffer, list, rmutex, dummy, out, fault, sent, got>>

InsertFirst(p) ==
  /\ Goto(p, "insert_link", "insert_unlock")
  /\ tail = NULL
  /\ head' = dummy[p]
  /\ tail' = dummy[p]
  /\ chain' = Append(chain, dummy[p])
  /\ UNCHANGED <<buffer, next, data, live, mutex, rmutex, dummy, out,
                 fault, sent, got>>

\* Fault: the node is linked in front of the others.
InsertLastInFront(p) ==
  /\ Goto(p, "insert_link", "insert_unlock")
  /\ tail # NULL
  /\ next' = [next EXCEPT ![dummy[p]] = head]
  /\ head' = dummy[p]
  /\ chain' = <<dummy[p]>> \o chain
  /\ UNCHANGED <<buffer, tail, data, live, mutex, rmutex, dummy, out,
                 fault, sent, got>>

InsertLast(p) ==
  /\ Goto(p, "insert_link", "insert_move_tail")
  /\ tail # NULL
  /\ next' = [next EXCEPT ![tail] = dummy[p]]
  /\ chain' = Append(chain, dummy[p])
  /\ UNCHANGED <<buffer, head, tail, data, live, mutex, rmutex, dummy, out,
                 fault, sent, got>>

InsertMoveTail(p) ==
  /\ Goto(p, "insert_move_tail", "insert_unlock")
  /\ tail' = next[tail]
  /\ UNCHANGED <<buffer, head, next, data, live, mutex, rmutex, dummy, out,
                 fault, sent, got, chain>>

InsertUnlock(p) ==
  /\ Goto(p, "insert_unlock", "idle")
  /\ Release(p)
  /\ dummy' = [dummy EXCEPT ![p] = NULL]
  /\ UNCHANGED <<buffer, list, rmutex, out, fault, sent, got>>

-----------------------------------------------------------------------------
(* sbuffer_remove *)

RemoveLock(c) ==
  /\ Goto(c, "idle", "remove_test")
  /\ Acquire(c)
  /\ UNCHANGED <<buffer, list, rmutex, dummy, out, fault, sent, got>>

\* Fault: SBUFFER_NO_DATA is returned with the lock held.
RemoveNoDataLocked(c) ==
  /\ Goto(c, "remove_test", "idle")
  /\ head = NULL
  /\ UNCHANGED <<buffer, list, mutex, rmutex, dummy, out, fault, sent, got>>

\* SBUFFER_NO_DATA.
RemoveNoData(c) ==
  /\ Goto(c, "remove_test", "idle")
  /\ head = NULL
  /\ Release(c)
  /\ UNCHANGED <<buffer, list, rmutex, dummy, out, fault, sent, got>>

\* Fault: the newest reading is copied.
RemoveCopyNewest(c) ==
  /\ Goto(c, "remove_test", "remove_unlink")
  /\ head # NULL
  /\ out' = [out EXCEPT ![c] = data[tail]]
  /\ dummy' = [dummy EXCEPT ![c] = head]
  /\ UNCHANGED <<buffer, list, mutex, rmutex, fault, sent, got>>

RemoveCopy(c) ==
  /\ Goto(c, "remove_test", "remove_unlink")
  /\ head # NULL
  /\ out' = [out EXCEPT ![c] = data[head]]
  /\ dummy' = [dummy EXCEPT ![c] = head]
  /\ UNCHANGED <<buffer, list, mutex, rmutex, fault, sent, got>>

\* Fault: the tail is left pointing at the last node removed.
RemoveUnlinkHead(c) ==
  /\ Goto(c, "remove_unlink", "remove_free")
  /\ got' = [got EXCEPT ![c] = Append(@, out[c])]
  /\ out' = [out EXCEPT ![c] = NULL]
  /\ head' = next[head]
  /\ chain' = Tail(chain)
  /\ UNCHANGED <<buffer, tail, next, data, live, mutex, rmutex, dummy, fault,
                 sent>>

RemoveUnlink(c) ==
  /\ Goto(c, "remove_unlink", "remove_free")
  /\ got' = [got EXCEPT ![c] = Append(@, out[c])]
  /\ out' = [out EXCEPT ![c] = NULL]
  /\ IF head = tail
     THEN head' = NULL /\ tail' = NULL
     ELSE head' = next[head] /\ tail' = tail
  /\ chain' = Tail(chain)
  /\ UNCHANGED <<buffer, next, data, live, mutex, rmutex, dummy, fault, sent>>

\* Fault: the node is not freed.
RemoveFreeNothing(c) ==
  /\ Goto(c, "remove_free", "remove_unlock")
  /\ dummy' = [dummy EXCEPT ![c] = NULL]
  /\ UNCHANGED <<buffer, list, mutex, rmutex, out, fault, sent, got>>

RemoveFree(c) ==
  /\ Goto(c, "remove_free", "remove_unlock")
  /\ live' = live \ {dummy[c]}
  /\ dummy' = [dummy EXCEPT ![c] = NULL]
  /\ UNCHANGED <<buffer, head, tail, next, data, mutex, rmutex, out, fault,
                 sent, got, chain>>

RemoveUnlock(c) ==
  /\ Goto(c, "remove_unlock", "idle")
  /\ Release(c)
  /\ UNCHANGED <<buffer, list, rmutex, dummy, out, fault, sent, got>>

-----------------------------------------------------------------------------
(* sbuffer_get_data, which takes buffer_mutex and not buffer->mutex *)

GetLock(r) ==
  /\ Goto(r, "idle", "get_test")
  /\ rmutex = NULL
  /\ rmutex' = r
  /\ UNCHANGED <<buffer, list, mutex, dummy, out, fault, sent, got>>

GetNoData(r) ==
  /\ Goto(r, "get_test", "idle")
  /\ head = NULL
  /\ rmutex' = NULL
  /\ UNCHANGED <<buffer, list, mutex, dummy, out, fault, sent, got>>

\* Fault: the empty buffer is not tested for.
GetTestNothing(r) ==
  /\ Goto(r, "get_test", "get_load")
  /\ UNCHANGED <<buffer, list, mutex, rmutex, dummy, out, fault, sent, got>>

GetTest(r) ==
  /\ Goto(r, "get_test", "get_load")
  /\ head # NULL
  /\ UNCHANGED <<buffer, list, mutex, rmutex, dummy, out, fault, sent, got>>

\* buffer->head is read again, unprotected from sbuffer_remove; a null
\* pointer dereferenced here ends the process.
GetLoad(r) ==
  /\ Goto(r, "get_load", "get_copy")
  /\ dummy' = [dummy EXCEPT ![r] = head]
  /\ fault' = IF head = NULL THEN "null_dereference" ELSE fault
  /\ UNCHANGED <<buffer, list, mutex, rmutex, out, sent, got>>

\* The reading is copied through the pointer loaded above, whose node may
\* have been freed since.
GetCopy(r) ==
  /\ Goto(r, "get_copy", "get_unlock")
  /\ fault' = IF dummy[r] \in live THEN fault ELSE "use_after_free"
  /\ UNCHANGED <<buffer, list, mutex, rmutex, dummy, out, sent, got>>

GetUnlock(r) ==
  /\ Goto(r, "get_unlock", "idle")
  /\ rmutex' = NULL
  /\ dummy' = [dummy EXCEPT ![r] = NULL]
  /\ UNCHANGED <<buffer, list, mutex, out, fault, sent, got>>

-----------------------------------------------------------------------------
(* The end of the threads, and sbuffer_free by their owner *)

\* A thread ends between two calls: the operations hold no cancellation point.
Retire(t) ==
  /\ Goto(t, "idle", "done")
  /\ UNCHANGED <<buffer, list, mutex, rmutex, dummy, out, fault, sent, got>>

Joined == \A t \in Threads : pc[t] = "done"

FreeBegin ==
  /\ buffer = "ready"
  /\ Joined
  /\ mutex = NULL      \* else pthread_mutex_destroy fails
  /\ buffer' = "draining"
  /\ UNCHANGED <<list, mutex, rmutex, pc, dummy, out, fault, sent, got>>

FreeNode ==
  /\ buffer = "draining"
  /\ head # NULL
  /\ head' = next[head]
  /\ live' = live \ {head}
  /\ chain' = Tail(chain)
  /\ UNCHANGED <<buffer, tail, next, data, mutex, rmutex, pc, dummy, out,
                 fault, sent, got>>

\* Fault: the loop stops at the last node.
FreeEndAtLast ==
  /\ buffer = "draining"
  /\ head \in {NULL, tail}
  /\ buffer' = "freed"
  /\ UNCHANGED <<list, mutex, rmutex, pc, dummy, out, fault, sent, got>>

\* Fault: the loop waits for the tail to become null.
FreeEndAtTail ==
  /\ buffer = "draining"
  /\ head = NULL
  /\ tail = NULL
  /\ buffer' = "freed"
  /\ UNCHANGED <<list, mutex, rmutex, pc, dummy, out, fault, sent, got>>

FreeEnd ==
  /\ buffer = "draining"
  /\ head = NULL
  /\ buffer' = "freed"
  /\ UNCHANGED <<list, mutex, rmutex, pc, dummy, out, fault, sent, got>>

-----------------------------------------------------------------------------
Producer(p) ==
  \/ InsertAlloc(p) \/ InsertNoMemory(p) \/ InsertLock(p)
  \/ InsertFirst(p) \/ InsertLast(p) \/ InsertMoveTail(p) \/ InsertUnlock(p)

Consumer(c) ==
  \/ RemoveLock(c) \/ RemoveNoData(c)
  \/ RemoveCopy(c) \/ RemoveUnlink(c) \/ RemoveFree(c) \/ RemoveUnlock(c)

Reader(r) ==
  \/ GetLock(r) \/ GetNoData(r) \/ GetTest(r)
  \/ GetLoad(r) \/ GetCopy(r) \/ GetUnlock(r)

Owner == FreeBegin \/ FreeNode \/ FreeEnd

Next ==
  /\ fault # "null_dereference"
  /\ \/ \E p \in Producers : Producer(p)
     \/ \E c \in Consumers : Consumer(c)
     \/ \E r \in Readers : Reader(r)
     \/ \E t \in Threads : Retire(t)
     \/ Owner

Spec == Init /\ [][Next]_vars

(***************************************************************************)
(* A scheduled thread inside a call goes on; no thread need call, and a    *)
(* mutex prefers nobody among the threads that wait for it.                *)
(***************************************************************************)
InCall(t) ==
  /\ fault # "null_dereference"
  /\ pc[t] # "idle"
  /\ \/ t \in Producers /\ Producer(t)
     \/ t \in Consumers /\ Consumer(t)
     \/ t \in Readers /\ Reader(t)

FairSpec == Spec /\ (\A t \in Threads : WF_vars(InCall(t))) /\ WF_vars(Owner)
-----------------------------------------------------------------------------
(* Properties *)

\* Every variable ranges over the values its C type can hold here.
TypeOK ==
  /\ buffer \in {"ready", "draining", "freed"}
  /\ head \in Nodes \cup {NULL}
  /\ tail \in Nodes \cup {NULL}
  /\ next \in [Nodes -> Nodes \cup {NULL}]
  /\ data \in [Nodes -> Readings \cup {NULL}]
  /\ live \in SUBSET Nodes
  /\ mutex \in Threads \cup {NULL}
  /\ rmutex \in Threads \cup {NULL}
  /\ pc \in [Threads -> PCs]
  /\ dummy \in [Threads -> Nodes \cup {NULL}]
  /\ out \in [Consumers -> Readings \cup {NULL}]
  /\ fault \in {"none", "null_dereference", "use_after_free"}
  /\ sent \in [Producers -> 0 .. MaxReadings]
  /\ got \in [Consumers -> Seq(Readings)]
  /\ chain \in Seq(Nodes)

\* A producer that has linked its node but not yet moved the tail.
Lagging == \E p \in Producers : pc[p] = "insert_move_tail"

\* The pointers describe one list: head is its first node, next leads from
\* each node to the one inserted after it and ends in NULL, and tail is its
\* last node except between the two assignments of sbuffer.c:98-99.  During
\* sbuffer_free the tail dangles, and nobody reads it.
LinksOK ==
  \A i \in 1 .. Len(chain) :
    next[chain[i]] = IF i < Len(chain) THEN chain[i + 1] ELSE NULL

HeadOK == head = IF chain = <<>> THEN NULL ELSE chain[1]

TailOK ==
  buffer = "ready" =>
    tail = IF Lagging THEN chain[Len(chain) - 1]
           ELSE IF chain = <<>> THEN NULL
           ELSE chain[Len(chain)]

ListShape == LinksOK /\ HeadOK /\ TailOK

\* The allocated nodes are the linked ones and the one each thread holds
\* between malloc and linking or between unlinking and free, and no node is
\* in two of these places: nothing leaks, nothing is freed while reachable,
\* and nothing is freed twice, in any interleaving of the operations.
Private(t) == pc[t] \in {"insert_lock", "insert_link", "remove_free"}

Linked == {chain[i] : i \in 1 .. Len(chain)}

Ownership ==
  /\ \A n \in Nodes :
       n \in live <=> \/ n \in Linked
                     \/ \E t \in Threads : Private(t) /\ dummy[t] = n
  /\ \A i, j \in 1 .. Len(chain) : chain[i] = chain[j] => i = j
  /\ \A t \in Threads : Private(t) => dummy[t] \in Nodes \ Linked
  /\ \A t, u \in Threads :
       Private(t) /\ Private(u) /\ dummy[t] = dummy[u] => t = u

\* When sbuffer_free has returned, no node is left allocated.
FreedLeavesNothing == buffer = "freed" => live = {}

\* Each thread runs one operation only, the mutex is owned by exactly the
\* threads between its lock and its unlock, and sbuffer_free starts after the
\* last thread has ended: the control part of the inductive invariant.
Control ==
  /\ \A p \in Producers : pc[p] \in {"idle", "insert_lock", "insert_link",
                            "insert_move_tail", "insert_unlock", "done"}
  /\ \A c \in Consumers : pc[c] \in {"idle", "remove_test", "remove_unlink",
                                     "remove_free", "remove_unlock", "done"}
  /\ \A r \in Readers : pc[r] \in ReadHolding \cup {"idle", "done"}
  /\ \A t \in Threads : pc[t] \in Holding <=> mutex = t
  /\ buffer # "ready" => Joined

\* A node not yet linked ends a list, every allocated node holds a reading,
\* and a lagging tail has a node after it: the data part.
Prepared ==
  /\ \A p \in Producers :
       pc[p] \in {"insert_lock", "insert_link"} => next[dummy[p]] = NULL
  /\ \A n \in live : data[n] \in Readings
  /\ Lagging => Len(chain) > 1

\* What a removal has copied is still the first reading when it unlinks.
Taking ==
  \A c \in Consumers : pc[c] = "remove_unlink" =>
    head # NULL /\ dummy[c] = head /\ out[c] = data[head]

\* No reading reaches two removals, whichever threads make them, and each
\* thread gets the readings of one producer in the order they were inserted:
\* what it already got precedes what it gets next and all that is queued.
Before(r, s) == r.from = s.from => r.seq < s.seq

DeliveredOnceInOrder ==
  /\ \A c \in Consumers : \A i, j \in 1 .. Len(got[c]) :
       i < j => Before(got[c][i], got[c][j])
  /\ \A c \in Consumers : \A i \in 1 .. Len(got[c]), j \in 1 .. Len(chain) :
       Before(got[c][i], data[chain[j]])
  /\ \A c, d \in Consumers :
       \A i \in 1 .. Len(got[c]), j \in 1 .. Len(got[d]) :
         got[c][i] = got[d][j] => c = d

\* The reading a producer is about to link is its latest, and later than all
\* its readings queued or delivered; the queue keeps each producer's order.
Numbered ==
  /\ \A p \in Producers :
       /\ \A c \in Consumers : \A i \in 1 .. Len(got[c]) :
            got[c][i].from = p => got[c][i].seq <= sent[p]
       /\ \A j \in 1 .. Len(chain) :
            data[chain[j]].from = p => data[chain[j]].seq <= sent[p]
  /\ \A p \in Producers : pc[p] \in {"insert_lock", "insert_link"} =>
       /\ data[dummy[p]] = [from |-> p, seq |-> sent[p]]
       /\ \A c \in Consumers : \A i \in 1 .. Len(got[c]) :
            Before(got[c][i], data[dummy[p]])
       /\ \A j \in 1 .. Len(chain) : Before(data[chain[j]], data[dummy[p]])
  /\ \A i, j \in 1 .. Len(chain) :
       i < j => Before(data[chain[i]], data[chain[j]])

\* The invariant that every step preserves; the ones above follow from it.
IInv ==
  /\ TypeOK /\ Control /\ ListShape /\ Ownership /\ Prepared /\ Taking
  /\ FreedLeavesNothing /\ DeliveredOnceInOrder /\ Numbered

\* The list implements the abstract queue: linking a node is Insert,
\* unlinking the head is Remove, every other step is invisible.
Q == INSTANCE ReadingQueue
       WITH queue <- [i \in 1 .. Len(chain) |-> data[chain[i]]],
            taken <- got

ImplementsQueue == Q!Spec

\* Nobody stays locked out: whatever the interleaving, the mutex is free again
\* and again, on the SBUFFER_NO_DATA path too, until sbuffer_get_data ends the
\* process, if it does.
MutexReleased == []<>(mutex = NULL \/ fault = "null_dereference")

\* Once all threads are joined, sbuffer_free drains the list to the end.
BufferFreed == Joined ~> (buffer = "freed")

\* sbuffer_get_data takes a mutex of its own, so what it reads through may be
\* freed or NULL; but only by a removal: no interleaving with insertions makes
\* it read through a bad pointer.
ReaderFaultNeedsRemoval ==
  fault # "none" => \E c \in Consumers : got[c] # <<>>
=============================================================================
