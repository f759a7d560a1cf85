--------------------------- MODULE SBufferProofs ----------------------------
(* Proofs about module SBuffer, for every set of threads and nodes. *)
EXTENDS SBuffer, Facts

-----------------------------------------------------------------------------
LEMMA InitInv == Init => IInv
<1> SUFFICES ASSUME Init PROVE IInv
  OBVIOUS
<1> USE SBufferAssumption
<1>0. Len(chain) = 0 /\ \A c \in Consumers : Len(got[c]) = 0
  BY DEF Init
<1>1. TypeOK
  BY DEF Init, TypeOK, PCs, Threads
<1>2. Control
  BY DEF Init, Control, Holding, ReadHolding, Threads
<1>3. ListShape
  BY <1>0 DEF Init, ListShape, LinksOK, HeadOK, TailOK, Lagging, Threads
<1>4. Ownership
  BY <1>0 DEF Init, Ownership, Linked, Private
<1>5. Prepared
  BY <1>0 DEF Init, Prepared, Lagging, Threads
<1>6. DeliveredOnceInOrder
  BY <1>0 DEF Init, DeliveredOnceInOrder
<1>7. Numbered
  BY <1>0 DEF Init, Numbered, Threads
<1>8. FreedLeavesNothing /\ Taking
  BY DEF Init, FreedLeavesNothing, Taking, Threads
<1> QED
  BY <1>1, <1>2, <1>3, <1>4, <1>5, <1>6, <1>7, <1>8 DEF IInv

(***************************************************************************)
(* The lock: whoever is between its lock and its unlock owns the mutex.    *)
(***************************************************************************)
LEMMA ControlStep == IInv /\ [Next]_vars => Control'
<1> SUFFICES ASSUME TypeOK, Control, [Next]_vars PROVE Control'
  BY DEF IInv
<1> USE SBufferAssumption
        DEF TypeOK, Control, Threads, Holding, ReadHolding, PCs, Goto,
            Joined, list
<1>1. ASSUME NEW p \in Producers, Producer(p) PROVE Control'
  <2>1. CASE InsertAlloc(p)      BY <2>1 DEF InsertAlloc
  <2>2. CASE InsertNoMemory(p)   BY <2>2 DEF InsertNoMemory
  <2>3. CASE InsertLock(p)       BY <2>3 DEF InsertLock, Acquire
  <2>4. CASE InsertFirst(p)      BY <2>4 DEF InsertFirst
  <2>5. CASE InsertLast(p)       BY <2>5 DEF InsertLast
  <2>6. CASE InsertMoveTail(p)   BY <2>6 DEF InsertMoveTail
  <2>7. CASE InsertUnlock(p)     BY <2>7 DEF InsertUnlock, Release
  <2> QED BY <1>1, <2>1, <2>2, <2>3, <2>4, <2>5, <2>6, <2>7 DEF Producer
<1>2. ASSUME NEW c \in Consumers, Consumer(c) PROVE Control'
  <2>1. CASE RemoveLock(c)       BY <2>1 DEF RemoveLock, Acquire
  <2>2. CASE RemoveNoData(c)     BY <2>2 DEF RemoveNoData, Release
  <2>3. CASE RemoveCopy(c)       BY <2>3 DEF RemoveCopy
  <2>4. CASE RemoveUnlink(c)     BY <2>4 DEF RemoveUnlink
  <2>5. CASE RemoveFree(c)       BY <2>5 DEF RemoveFree
  <2>6. CASE RemoveUnlock(c)     BY <2>6 DEF RemoveUnlock, Release
  <2> QED BY <1>2, <2>1, <2>2, <2>3, <2>4, <2>5, <2>6 DEF Consumer
<1>3. ASSUME NEW r \in Readers, Reader(r) PROVE Control'
  <2>1. /\ \E x \in ReadHolding \cup {"idle"} : pc' = [pc EXCEPT ![r] = x]
        /\ pc[r] \in ReadHolding \cup {"idle"}
        /\ mutex' = mutex /\ buffer' = buffer
    BY <1>3 DEF Reader, GetLock, GetNoData, GetTest, GetLoad, GetCopy,
                GetUnlock
  <2>2. buffer = "ready"
    BY <2>1
  <2> QED BY <2>1, <2>2
<1>4. ASSUME NEW t \in Threads, Retire(t) PROVE Control'
  BY <1>4 DEF Retire
<1>5. CASE Owner
  BY <1>5 DEF Owner, FreeBegin, FreeNode, FreeEnd
<1>6. CASE UNCHANGED vars
  BY <1>6 DEF vars
<1> QED
  BY <1>1, <1>2, <1>3, <1>4, <1>5, <1>6 DEF Next

(***************************************************************************)
(* Where the shared pointers lead in a reachable state.                    *)
(***************************************************************************)
LEMMA PointerFacts ==
  ASSUME IInv
  PROVE  /\ Len(chain) \in Nat
         /\ chain = <<>> <=> Len(chain) = 0
         /\ \A i \in 1 .. Len(chain) :
              chain[i] \in Nodes /\ chain[i] \in live /\ chain[i] \in Linked
         /\ \A n \in Linked : \E i \in 1 .. Len(chain) : n = chain[i]
         /\ head # NULL => chain # <<>> /\ head = chain[1] /\ head \in Nodes
         /\ \A t \in Threads : Private(t) => dummy[t] \in live
<1> USE SBufferAssumption DEF IInv, TypeOK
<1>1. /\ Len(chain) \in Nat
      /\ chain = <<>> <=> Len(chain) = 0
      /\ \A i \in 1 .. Len(chain) : chain[i] \in Nodes
  BY SeqFacts
<1>2. \A i \in 1 .. Len(chain) : chain[i] \in live /\ chain[i] \in Linked
  BY <1>1 DEF Ownership, Linked
<1>3. head # NULL => chain # <<>> /\ head = chain[1] /\ head \in Nodes
  BY <1>1 DEF ListShape, HeadOK
<1> QED
  BY <1>1, <1>2, <1>3 DEF Ownership, Linked

\* While a thread is inside the mutex no other is, and no one has been joined.
LEMMA LockFacts ==
  ASSUME IInv, NEW t \in Threads, pc[t] \in Holding
  PROVE  /\ \A u \in Threads : pc[u] \in Holding => u = t
         /\ buffer = "ready"
         /\ Lagging => t \in Producers /\ pc[t] = "insert_move_tail"
BY SBufferAssumption
   DEF IInv, Control, Joined, Holding, Lagging, Threads

\* Inside the mutex, and before moving it, the tail is the last node.
LEMMA TailFact ==
  ASSUME IInv, NEW t \in Threads, pc[t] \in Holding \ {"insert_move_tail"}
  PROVE  tail = IF chain = <<>> THEN NULL ELSE chain[Len(chain)]
BY LockFacts DEF IInv, ListShape, TailOK

\* Between its copy and its unlinking a removal holds the first node.
LEMMA TakingFacts ==
  ASSUME IInv, NEW c \in Consumers, pc[c] = "remove_unlink"
  PROVE  /\ pc[c] \in Holding \ {"insert_move_tail"} /\ ~Lagging
         /\ head # NULL /\ chain # <<>> /\ head = chain[1] /\ head \in Nodes
         /\ dummy[c] = head /\ out[c] = data[head] /\ data[head] \in Readings
<1>1. head # NULL /\ dummy[c] = head /\ out[c] = data[head]
  BY DEF IInv, Taking
<1>2. chain # <<>> /\ head = chain[1] /\ head \in Nodes /\ head \in live
  BY <1>1, PointerFacts
<1>3. pc[c] \in Holding \ {"insert_move_tail"} /\ ~Lagging
  BY LockFacts DEF Holding, Threads
<1> QED
  BY <1>1, <1>2, <1>3 DEF IInv, Prepared

-----------------------------------------------------------------------------
LEMMA TypeStep == IInv /\ [Next]_vars => TypeOK'
<1> SUFFICES ASSUME IInv, [Next]_vars PROVE TypeOK'
  OBVIOUS
<1> USE SBufferAssumption, PointerFacts
        DEF TypeOK, Threads, Goto, list, PCs
<1>0. TypeOK
  BY DEF IInv
<1>1. ASSUME NEW p \in Producers, Producer(p) PROVE TypeOK'
  <2>1. CASE InsertAlloc(p)
    <3>1. [from |-> p, seq |-> sent[p] + 1] \in Readings
      BY <1>0, <2>1 DEF InsertAlloc, Readings
    <3> QED BY <1>0, <2>1, <3>1 DEF InsertAlloc
  <2>2. CASE InsertNoMemory(p)   BY <1>0, <2>2 DEF InsertNoMemory
  <2>3. CASE InsertLock(p)       BY <1>0, <2>3 DEF InsertLock, Acquire
  <2>4. CASE InsertFirst(p)
    <3>1. dummy[p] \in Nodes /\ Append(chain, dummy[p]) \in Seq(Nodes)
      BY <1>0, <2>4, AppendFacts DEF IInv, Ownership, InsertFirst, Private
    <3> QED BY <1>0, <2>4, <3>1 DEF InsertFirst
  <2>5. CASE InsertLast(p)
    <3>1. dummy[p] \in Nodes /\ Append(chain, dummy[p]) \in Seq(Nodes)
      BY <1>0, <2>5, AppendFacts DEF IInv, Ownership, InsertLast, Private
    <3> QED BY <1>0, <2>5, <3>1 DEF InsertLast
  <2>6. CASE InsertMoveTail(p)
    <3>1. Lagging /\ pc[p] \in Holding
      BY <2>6 DEF InsertMoveTail, Lagging, Holding
    <3>2. tail \in Nodes
      BY <1>0, <3>1, LockFacts DEF IInv, ListShape, TailOK, Prepared
    <3> QED BY <1>0, <2>6, <3>2 DEF InsertMoveTail
  <2>7. CASE InsertUnlock(p)     BY <1>0, <2>7 DEF InsertUnlock, Release
  <2> QED BY <1>1, <2>1, <2>2, <2>3, <2>4, <2>5, <2>6, <2>7 DEF Producer
<1>2. ASSUME NEW c \in Consumers, Consumer(c) PROVE TypeOK'
  <2>1. CASE RemoveLock(c)       BY <1>0, <2>1 DEF RemoveLock, Acquire
  <2>2. CASE RemoveNoData(c)     BY <1>0, <2>2 DEF RemoveNoData, Release
  <2>3. CASE RemoveCopy(c)       BY <1>0, <2>3 DEF RemoveCopy
  <2>4. CASE RemoveUnlink(c)
    <3>1. chain # <<>> /\ head \in Nodes /\ out[c] \in Readings
      BY <2>4, TakingFacts DEF RemoveUnlink
    <3>2. Tail(chain) \in Seq(Nodes)
      BY <1>0, <3>1, TailFacts
    <3>3. Append(got[c], out[c]) \in Seq(Readings)
      BY <1>0, <3>1, AppendFacts
    <3> QED BY <1>0, <2>4, <3>1, <3>2, <3>3 DEF RemoveUnlink
  <2>5. CASE RemoveFree(c)       BY <1>0, <2>5 DEF RemoveFree
  <2>6. CASE RemoveUnlock(c)     BY <1>0, <2>6 DEF RemoveUnlock, Release
  <2> QED BY <1>2, <2>1, <2>2, <2>3, <2>4, <2>5, <2>6 DEF Consumer
<1>3. ASSUME NEW r \in Readers, Reader(r) PROVE TypeOK'
  <2>1. CASE GetLock(r)          BY <1>0, <2>1 DEF GetLock
  <2>2. CASE GetNoData(r)        BY <1>0, <2>2 DEF GetNoData
  <2>3. CASE GetTest(r)          BY <1>0, <2>3 DEF GetTest
  <2>4. CASE GetLoad(r)          BY <1>0, <2>4 DEF GetLoad
  <2>5. CASE GetCopy(r)          BY <1>0, <2>5 DEF GetCopy
  <2>6. CASE GetUnlock(r)        BY <1>0, <2>6 DEF GetUnlock
  <2> QED BY <1>3, <2>1, <2>2, <2>3, <2>4, <2>5, <2>6 DEF Reader
<1>4. ASSUME NEW t \in Threads, Retire(t) PROVE TypeOK'
  BY <1>0, <1>4 DEF Retire
<1>5. CASE Owner
  <2>1. CASE FreeBegin           BY <1>0, <2>1 DEF FreeBegin
  <2>2. CASE FreeNode
    <3>1. Tail(chain) \in Seq(Nodes)
      BY <1>0, <2>2, TailFacts DEF FreeNode
    <3> QED BY <1>0, <2>2, <3>1 DEF FreeNode
  <2>3. CASE FreeEnd             BY <1>0, <2>3 DEF FreeEnd
  <2> QED BY <1>5, <2>1, <2>2, <2>3 DEF Owner
<1>6. CASE UNCHANGED vars
  BY <1>0, <1>6 DEF vars
<1> QED
  BY <1>1, <1>2, <1>3, <1>4, <1>5, <1>6 DEF Next

(***************************************************************************)
(* Steps that neither relink, allocate nor free anything, and after which  *)
(* the tail lags exactly if it did before, keep the shape of the list.     *)
(***************************************************************************)
LEMMA QuietShape ==
  ASSUME IInv, UNCHANGED list, Lagging' <=> Lagging,
         buffer' = "ready" => buffer = "ready",
         \A p \in Producers :
           pc'[p] \in {"insert_lock", "insert_link"} =>
             pc[p] \in {"insert_lock", "insert_link"} /\ dummy'[p] = dummy[p]
  PROVE  ListShape' /\ Prepared'
BY DEF IInv, list, ListShape, LinksOK, HeadOK, TailOK, Prepared

LEMMA ShapeStep == IInv /\ [Next]_vars => ListShape' /\ Prepared'
<1> SUFFICES ASSUME IInv, [Next]_vars PROVE ListShape' /\ Prepared'
  OBVIOUS
<1> USE SBufferAssumption DEF Threads, Goto
<1>0. /\ TypeOK /\ Control /\ ListShape /\ Ownership /\ Prepared
      /\ Len(chain) \in Nat
  BY PointerFacts DEF IInv
<1>1. ASSUME NEW p \in Producers, Producer(p) PROVE ListShape' /\ Prepared'
  <2>1. CASE InsertAlloc(p)
    <3>1. PICK n \in Nodes \ live :
            /\ live' = live \cup {n}
            /\ data' = [data EXCEPT ![n] = [from |-> p, seq |-> sent[p] + 1]]
            /\ next' = [next EXCEPT ![n] = NULL]
            /\ dummy' = [dummy EXCEPT ![p] = n]
      BY <2>1 DEF InsertAlloc
    <3>2. \A i \in 1 .. Len(chain) : chain[i] \in Nodes /\ chain[i] # n
      BY PointerFacts, <3>1
    <3>3. Lagging' <=> Lagging
      BY <1>0, <2>1 DEF InsertAlloc, Lagging, TypeOK
    <3>4. ListShape'
      BY <1>0, <2>1, <3>1, <3>2, <3>3
         DEF InsertAlloc, ListShape, LinksOK, HeadOK, TailOK, TypeOK
    <3>5. [from |-> p, seq |-> sent[p] + 1] \in Readings
      BY <1>0, <2>1 DEF InsertAlloc, TypeOK, Readings
    <3>6. \A q \in Producers : pc'[q] \in {"insert_lock", "insert_link"} =>
             next'[dummy'[q]] = NULL
      BY <1>0, <2>1, <3>1, PointerFacts DEF InsertAlloc, Prepared, TypeOK, Private
    <3> QED
      BY <1>0, <2>1, <3>1, <3>3, <3>4, <3>5, <3>6
         DEF InsertAlloc, Prepared, TypeOK
  <2>2. CASE InsertNoMemory(p)
    BY <1>0, <2>2, QuietShape DEF InsertNoMemory, Lagging
  <2>3. CASE InsertLock(p)
    BY <1>0, <2>3, QuietShape DEF InsertLock, Lagging, TypeOK
  <2>4. CASE InsertFirst(p)
    <3>1. /\ pc[p] \in Holding \ {"insert_move_tail"} /\ Private(p)
          /\ pc[p] = "insert_link" /\ dummy[p] \in Nodes
      BY <1>0, <2>4 DEF InsertFirst, Holding, Private, Ownership
    <3>2. chain = <<>>
      BY <2>4, <3>1, TailFact, PointerFacts DEF InsertFirst
    <3>3. /\ Len(chain') = 1 /\ chain'[1] = dummy[p]
          /\ chain' # <<>> /\ chain' \in Seq(Nodes)
      BY <1>0, <2>4, <3>1, <3>2, AppendFacts, PointerFacts DEF InsertFirst, TypeOK
    <3>4. ~Lagging'
      BY <1>0, <2>4, <3>1, LockFacts DEF InsertFirst, Lagging, TypeOK, Holding
    <3>5. next'[dummy[p]] = NULL
      BY <1>0, <2>4, <3>1 DEF InsertFirst, Prepared
    <3>6. ListShape'
      BY <2>4, <3>3, <3>4, <3>5
         DEF InsertFirst, ListShape, LinksOK, HeadOK, TailOK
    <3> QED
      BY <1>0, <2>4, <3>4, <3>6 DEF InsertFirst, Prepared, TypeOK
  <2>5. CASE InsertLast(p)
    <3>1. /\ pc[p] \in Holding \ {"insert_move_tail"} /\ Private(p)
          /\ pc[p] = "insert_link" /\ dummy[p] \in Nodes
          /\ dummy[p] \notin Linked
      BY <1>0, <2>5 DEF InsertLast, Holding, Private, Ownership
    <3>2. chain # <<>> /\ tail = chain[Len(chain)] /\ Len(chain) > 0
      BY <2>5, <3>1, TailFact, PointerFacts DEF InsertLast
    <3>3. /\ chain' \in Seq(Nodes) /\ chain' # <<>>
          /\ Len(chain') = Len(chain) + 1
          /\ \A i \in 1 .. Len(chain) : chain'[i] = chain[i]
          /\ chain'[Len(chain) + 1] = dummy[p]
      BY <1>0, <2>5, <3>1, AppendFacts DEF InsertLast, TypeOK
    <3>4. Lagging'
      BY <1>0, <2>5 DEF InsertLast, Lagging, TypeOK
    <3>5. /\ next' = [next EXCEPT ![tail] = dummy[p]]
          /\ head' = head /\ tail' = tail /\ live' = live /\ data' = data
          /\ dummy' = dummy /\ pc' = [pc EXCEPT ![p] = "insert_move_tail"]
      BY <2>5 DEF InsertLast
    <3>6. \A i \in 1 .. Len(chain) : chain[i] = tail <=> i = Len(chain)
      BY <1>0, <3>2 DEF Ownership
    <3>7. tail \in Linked /\ next'[dummy[p]] = NULL
      BY <1>0, <3>1, <3>2, <3>5, PointerFacts DEF Prepared, TypeOK
    <3>8. LinksOK'
      <4> SUFFICES ASSUME NEW i \in 1 .. Len(chain')
                   PROVE  next'[chain'[i]] =
                            IF i < Len(chain') THEN chain'[i + 1] ELSE NULL
        BY DEF LinksOK
      <4>1. CASE i = Len(chain) + 1
        BY <1>0, <3>3, <3>7, <4>1
      <4>2. CASE i = Len(chain)
        BY <1>0, <3>2, <3>3, <3>5, <4>2, PointerFacts DEF TypeOK
      <4>3. CASE i < Len(chain)
        <5>1. chain'[i] = chain[i] /\ chain'[i + 1] = chain[i + 1]
          BY <1>0, <3>3, <4>3
        <5>2. next'[chain[i]] = next[chain[i]]
          BY <1>0, <3>5, <3>6, <4>3, PointerFacts DEF TypeOK
        <5> QED BY <1>0, <3>3, <4>3, <5>1, <5>2 DEF ListShape, LinksOK
      <4> QED BY <1>0, <3>3, <4>1, <4>2, <4>3
    <3>9. HeadOK' /\ TailOK'
      BY <1>0, <3>2, <3>3, <3>4, <3>5 DEF ListShape, HeadOK, TailOK
    <3>10. Prepared'
      <4>1. \A q \in Producers : pc'[q] \in {"insert_lock", "insert_link"} =>
               /\ q # p /\ pc[q] = pc'[q] /\ Private(q) /\ dummy[q] # tail
        BY <1>0, <3>5, <3>7 DEF TypeOK, Private, Ownership
      <4>2. \A q \in Producers : pc'[q] \in {"insert_lock", "insert_link"} =>
               next'[dummy'[q]] = NULL
        BY <1>0, <3>5, <4>1 DEF Prepared, TypeOK, Ownership
      <4> QED BY <1>0, <3>2, <3>3, <3>5, <4>2 DEF Prepared
    <3> QED BY <3>8, <3>9, <3>10 DEF ListShape
  <2>6. CASE InsertMoveTail(p)
    <3>1. pc[p] \in Holding /\ Lagging /\ Len(chain) > 1
      BY <1>0, <2>6 DEF InsertMoveTail, Lagging, Holding, Prepared
    <3>2. buffer = "ready" /\ tail = chain[Len(chain) - 1]
      BY <1>0, <3>1, LockFacts DEF ListShape, TailOK
    <3>3. tail' = chain[Len(chain)]
      BY <1>0, <2>6, <3>1, <3>2 DEF InsertMoveTail, ListShape, LinksOK
    <3>4. ~Lagging'
      BY <1>0, <2>6, <3>1, LockFacts DEF InsertMoveTail, Lagging, TypeOK, Holding
    <3> QED
      BY <1>0, <2>6, <3>1, <3>3, <3>4, PointerFacts
         DEF InsertMoveTail, ListShape, LinksOK, HeadOK, TailOK, Prepared, TypeOK
  <2>7. CASE InsertUnlock(p)
    BY <1>0, <2>7, QuietShape DEF InsertUnlock, Lagging, TypeOK
  <2> QED BY <1>1, <2>1, <2>2, <2>3, <2>4, <2>5, <2>6, <2>7 DEF Producer
<1>2. ASSUME NEW c \in Consumers, Consumer(c) PROVE ListShape' /\ Prepared'
  <2>1. CASE RemoveLock(c)
    BY <1>0, <2>1, QuietShape DEF RemoveLock, Lagging, TypeOK
  <2>2. CASE RemoveNoData(c)
    BY <1>0, <2>2, QuietShape DEF RemoveNoData, Lagging, TypeOK
  <2>3. CASE RemoveUnlink(c)
    <3>1. /\ pc[c] \in Holding \ {"insert_move_tail"} /\ ~Lagging
          /\ head # NULL /\ chain # <<>> /\ head = chain[1]
      BY <2>3, TakingFacts DEF RemoveUnlink
    <3>2. tail = chain[Len(chain)]
      BY <3>1, TailFact
    <3>3. /\ chain' \in Seq(Nodes) /\ Len(chain) > 0
          /\ Len(chain') = Len(chain) - 1
          /\ \A i \in 1 .. Len(chain') : chain'[i] = chain[i + 1]
          /\ chain' = <<>> <=> Len(chain') = 0
      BY <1>0, <2>3, <3>1, TailFacts, SeqFacts DEF RemoveUnlink, TypeOK
    <3>4. head = tail <=> Len(chain) = 1
      BY <1>0, <3>1, <3>2, <3>3 DEF Ownership
    <3>5. ~Lagging'
      BY <1>0, <2>3, <3>1 DEF RemoveUnlink, Lagging, TypeOK
    <3>6. /\ LinksOK'
          /\ \A q \in Producers : pc'[q] = pc[q]
          /\ next' = next /\ live' = live /\ data' = data
          /\ \A q \in Producers : dummy'[q] = dummy[q]
      BY <1>0, <2>3, <3>3 DEF RemoveUnlink, ListShape, LinksOK, TypeOK
    <3>7. HeadOK' /\ TailOK'
      <4>1. CASE Len(chain) = 1
        BY <2>3, <3>3, <3>4, <3>5, <4>1 DEF RemoveUnlink, HeadOK, TailOK
      <4>2. CASE Len(chain) > 1
        <5>0. head # tail
          BY <3>4, <4>2
        <5>1. head' = next[head] /\ tail' = tail
          BY <2>3, <5>0 DEF RemoveUnlink
        <5>2. head' = chain[2] /\ chain'[1] = chain[2]
          BY <1>0, <3>1, <3>3, <4>2, <5>1 DEF ListShape, LinksOK
        <5>3. chain'[Len(chain')] = chain[Len(chain)] /\ Len(chain') > 0
          BY <1>0, <3>3, <4>2
        <5> QED BY <3>2, <3>3, <3>5, <5>1, <5>2, <5>3 DEF HeadOK, TailOK
      <4> QED BY <1>0, <3>3, <4>1, <4>2
    <3> QED BY <1>0, <3>5, <3>6, <3>7 DEF ListShape, Prepared
  <2>4. CASE RemoveFree(c)
    <3>1. \A q \in Producers : pc'[q] = pc[q] /\ dummy'[q] = dummy[q]
      BY <1>0, <2>4 DEF RemoveFree, TypeOK
    <3>2. Lagging' <=> Lagging
      BY <3>1 DEF Lagging
    <3> QED
      BY <1>0, <2>4, <3>1, <3>2
         DEF RemoveFree, ListShape, LinksOK, HeadOK, TailOK, Prepared
  <2>5. CASE RemoveUnlock(c)
    BY <1>0, <2>5, QuietShape DEF RemoveUnlock, Lagging, TypeOK
  <2>6. CASE RemoveCopy(c)
    BY <1>0, <2>6, QuietShape DEF RemoveCopy, Lagging, TypeOK
  <2> QED BY <1>2, <2>1, <2>2, <2>3, <2>4, <2>5, <2>6 DEF Consumer
<1>3. ASSUME NEW r \in Readers, Reader(r) PROVE ListShape' /\ Prepared'
  <2>1. /\ UNCHANGED <<buffer, list>>
        /\ \A q \in Producers : pc'[q] = pc[q] /\ dummy'[q] = dummy[q]
    BY <1>0, <1>3 DEF Reader, GetLock, GetNoData, GetTest, GetLoad, GetCopy,
                      GetUnlock, TypeOK
  <2> QED BY <1>0, <2>1, QuietShape DEF Lagging
<1>4. ASSUME NEW t \in Threads, Retire(t) PROVE ListShape' /\ Prepared'
  BY <1>0, <1>4, QuietShape DEF Retire, Lagging, TypeOK
<1>5. CASE Owner
  <2>1. CASE FreeBegin
    BY <1>0, <2>1, QuietShape DEF FreeBegin, Lagging
  <2>2. CASE FreeNode
    <3>1. head # NULL /\ chain # <<>> /\ head = chain[1] /\ buffer' # "ready"
      BY <2>2, PointerFacts DEF FreeNode
    <3>2. /\ chain' \in Seq(Nodes) /\ Len(chain) > 0
          /\ Len(chain') = Len(chain) - 1
          /\ \A i \in 1 .. Len(chain') : chain'[i] = chain[i + 1]
          /\ chain' = <<>> <=> Len(chain') = 0
      BY <1>0, <2>2, <3>1, TailFacts, SeqFacts DEF FreeNode, TypeOK
    <3>3. LinksOK' /\ HeadOK'
      <4>1. \A i \in 1 .. Len(chain) :
              next[chain[i]] = IF i < Len(chain) THEN chain[i + 1] ELSE NULL
        BY <1>0 DEF ListShape, LinksOK
      <4>2. next' = next /\ head' = next[chain[1]]
        BY <2>2, <3>1 DEF FreeNode
      <4>3. HeadOK'
        BY <3>2, <4>1, <4>2 DEF HeadOK
      <4>4. \A i \in 1 .. Len(chain') :
              i + 1 \in 1 .. Len(chain) /\ chain'[i] = chain[i + 1]
        BY <1>0, <3>2
      <4>5. LinksOK'
        <5> SUFFICES ASSUME NEW i \in 1 .. Len(chain')
                     PROVE  next'[chain'[i]] = IF i < Len(chain')
                                               THEN chain'[i + 1] ELSE NULL
          BY DEF LinksOK
        <5>1. next'[chain'[i]] = IF i + 1 < Len(chain) THEN chain[i + 2] ELSE NULL
          BY <4>1, <4>2, <4>4
        <5>2. Len(chain) \in Nat
          BY <1>0, LenProperties DEF TypeOK
        <5>3. i < Len(chain') => chain'[i + 1] = chain[i + 2]
          BY <3>2, <5>2
        <5> QED BY <3>2, <5>1, <5>2, <5>3
      <4> QED BY <4>3, <4>5
    <3>4. ~Lagging'
      BY <1>0, <2>2 DEF FreeNode, Lagging, Control, Joined
    <3> QED
      BY <1>0, <2>2, <3>1, <3>3, <3>4 DEF FreeNode, ListShape, TailOK, Prepared
  <2>3. CASE FreeEnd
    BY <1>0, <2>3, QuietShape DEF FreeEnd, Lagging
  <2> QED BY <1>5, <2>1, <2>2, <2>3 DEF Owner
<1>6. CASE UNCHANGED vars
  BY <1>0, <1>6, QuietShape DEF vars, list, Lagging
<1> QED
  BY <1>1, <1>2, <1>3, <1>4, <1>5, <1>6 DEF Next

(***************************************************************************)
(* Steps that allocate, free and link nothing, and that leave the nodes    *)
(* threads hold where they are, keep the account of the nodes.             *)
(***************************************************************************)
LEMMA QuietOwnership ==
  ASSUME IInv, live' = live, chain' = chain,
         \A t \in Threads : Private(t)' <=> Private(t),
         \A t \in Threads : Private(t) => dummy'[t] = dummy[t]
  PROVE  Ownership'
<1>1. Linked' = Linked
  BY DEF Linked
<1> QED
  BY <1>1 DEF IInv, Ownership

\* Taking the first node off the list takes it out of the linked ones.
LEMMA TailLinked ==
  ASSUME IInv, chain # <<>>, chain' = Tail(chain)
  PROVE  /\ chain[1] \in Linked
         /\ Linked' = Linked \ {chain[1]}
         /\ \A i, j \in 1 .. Len(chain') : chain'[i] = chain'[j] => i = j
<1>1. /\ Len(chain) \in Nat /\ Len(chain) > 0
      /\ Len(chain') = Len(chain) - 1
      /\ \A i \in 1 .. Len(chain') : chain'[i] = chain[i + 1]
  BY PointerFacts, TailFacts DEF IInv, TypeOK
<1>2. \A i, j \in 1 .. Len(chain) : chain[i] = chain[j] => i = j
  BY DEF IInv, Ownership
<1>3. ASSUME NEW n \in Linked' PROVE n \in Linked \ {chain[1]}
  <2>1. PICK i \in 1 .. Len(chain') : n = chain'[i]
    BY <1>3 DEF Linked
  <2>2. i + 1 \in 1 .. Len(chain) /\ i + 1 # 1 /\ n = chain[i + 1]
    BY <1>1, <2>1
  <2> QED BY <1>1, <1>2, <2>2 DEF Linked
<1>4. ASSUME NEW n \in Linked, n # chain[1] PROVE n \in Linked'
  <2>1. PICK i \in 1 .. Len(chain) : n = chain[i]
    BY DEF Linked
  <2>2. i - 1 \in 1 .. Len(chain') /\ (i - 1) + 1 = i
    BY <1>1, <1>4, <2>1
  <2>3. n = chain'[i - 1]
    BY <1>1, <2>1, <2>2
  <2> QED BY <2>2, <2>3 DEF Linked
<1>5. chain[1] \in Linked
  BY <1>1 DEF Linked
<1>6. \A i, j \in 1 .. Len(chain') : chain'[i] = chain'[j] => i = j
  BY <1>1, <1>2
<1> QED
  BY <1>3, <1>4, <1>5, <1>6

LEMMA OwnershipStep == IInv /\ [Next]_vars => Ownership'
<1> SUFFICES ASSUME IInv, [Next]_vars PROVE Ownership'
  OBVIOUS
<1> USE SBufferAssumption DEF Threads, Goto
<1>0. /\ TypeOK /\ Ownership
      /\ Len(chain) \in Nat
      /\ dummy \in [Threads -> Nodes \cup {NULL}] /\ pc \in [Threads -> PCs]
  BY PointerFacts DEF IInv, TypeOK
<1>1. ASSUME NEW p \in Producers, Producer(p) PROVE Ownership'
  <2>1. CASE InsertAlloc(p)
    <3>1. PICK n \in Nodes \ live :
            /\ live' = live \cup {n}
            /\ dummy' = [dummy EXCEPT ![p] = n]
      BY <2>1 DEF InsertAlloc
    <3>2. chain' = chain /\ Linked' = Linked
      BY <2>1 DEF InsertAlloc, Linked
    <3>3. /\ Private(p)' /\ ~Private(p) /\ dummy'[p] = n
          /\ \A t \in Threads \ {p} :
               (Private(t)' <=> Private(t)) /\ dummy'[t] = dummy[t]
      BY <1>0, <2>1, <3>1 DEF InsertAlloc, Private
    <3>4. n \notin Linked /\ \A t \in Threads : Private(t) => dummy[t] # n
      BY PointerFacts, <3>1
    <3> QED BY <1>0, <3>1, <3>2, <3>3, <3>4 DEF Ownership
  <2>2. CASE InsertNoMemory(p)
    BY <2>2, QuietOwnership DEF InsertNoMemory, list, Private
  <2>3. CASE InsertLock(p)
    BY <1>0, <2>3, QuietOwnership DEF InsertLock, list, Private
  <2>4. CASE InsertFirst(p) \/ InsertLast(p)
    <3>1. /\ chain' = Append(chain, dummy[p])
          /\ live' = live /\ dummy' = dummy
          /\ Private(p) /\ ~Private(p)'
          /\ \A t \in Threads \ {p} : Private(t)' <=> Private(t)
      BY <1>0, <2>4 DEF InsertFirst, InsertLast, Private
    <3>2. dummy[p] \in Nodes \ Linked
      BY <1>0, <3>1 DEF Ownership
    <3>3. /\ Len(chain') = Len(chain) + 1
          /\ \A i \in 1 .. Len(chain) : chain'[i] = chain[i]
          /\ chain'[Len(chain) + 1] = dummy[p]
      BY <1>0, <3>1, <3>2, AppendFacts DEF TypeOK
    <3>4. Linked' = Linked \cup {dummy[p]}
      BY <1>0, <3>3 DEF Linked
    <3>5. \A i, j \in 1 .. Len(chain') : chain'[i] = chain'[j] => i = j
      BY <1>0, <3>2, <3>3, PointerFacts DEF Ownership
    <3> QED BY <1>0, <3>1, <3>2, <3>4, <3>5 DEF Ownership
  <2>5. CASE InsertMoveTail(p)
    BY <1>0, <2>5, QuietOwnership DEF InsertMoveTail, Private
  <2>6. CASE InsertUnlock(p)
    BY <1>0, <2>6, QuietOwnership DEF InsertUnlock, list, Private
  <2> QED BY <1>1, <2>1, <2>2, <2>3, <2>4, <2>5, <2>6 DEF Producer
<1>2. ASSUME NEW c \in Consumers, Consumer(c) PROVE Ownership'
  <2>1. CASE RemoveLock(c)
    BY <1>0, <2>1, QuietOwnership DEF RemoveLock, list, Private
  <2>2. CASE RemoveNoData(c)
    BY <1>0, <2>2, QuietOwnership DEF RemoveNoData, list, Private
  <2>3. CASE RemoveUnlink(c)
    <3>1. chain # <<>> /\ head = chain[1] /\ head \in Nodes /\ dummy[c] = head
      BY <2>3, TakingFacts DEF RemoveUnlink
    <3>2. /\ head \in Linked /\ Linked' = Linked \ {head}
          /\ \A i, j \in 1 .. Len(chain') : chain'[i] = chain'[j] => i = j
      BY <2>3, <3>1, TailLinked DEF RemoveUnlink
    <3>3. /\ live' = live /\ dummy' = dummy
          /\ Private(c)' /\ ~Private(c)
          /\ \A t \in Threads \ {c} : Private(t)' <=> Private(t)
      BY <1>0, <2>3 DEF RemoveUnlink, Private
    <3> QED BY <1>0, <3>1, <3>2, <3>3 DEF Ownership
  <2>4. CASE RemoveFree(c)
    <3>1. /\ chain' = chain /\ Linked' = Linked
          /\ live' = live \ {dummy[c]}
          /\ Private(c) /\ ~Private(c)'
          /\ \A t \in Threads \ {c} :
               (Private(t)' <=> Private(t)) /\ dummy'[t] = dummy[t]
      BY <1>0, <2>4 DEF RemoveFree, Private, Linked
    <3> QED BY <1>0, <3>1 DEF Ownership
  <2>5. CASE RemoveUnlock(c)
    BY <1>0, <2>5, QuietOwnership DEF RemoveUnlock, list, Private
  <2>6. CASE RemoveCopy(c)
    <3>1. /\ live' = live /\ chain' = chain /\ ~Private(c) /\ ~Private(c)'
          /\ \A t \in Threads \ {c} : pc'[t] = pc[t] /\ dummy'[t] = dummy[t]
      BY <1>0, <2>6 DEF RemoveCopy, list, Private
    <3> QED BY <1>0, <3>1, QuietOwnership DEF Private
  <2> QED BY <1>2, <2>1, <2>2, <2>3, <2>4, <2>5, <2>6 DEF Consumer
<1>3. ASSUME NEW r \in Readers, Reader(r) PROVE Ownership'
  <2>1. /\ live' = live /\ chain' = chain /\ ~Private(r) /\ ~Private(r)'
        /\ \A t \in Threads \ {r} : pc'[t] = pc[t] /\ dummy'[t] = dummy[t]
    BY <1>0, <1>3 DEF Reader, GetLock, GetNoData, GetTest, GetLoad, GetCopy,
                      GetUnlock, list, Private
  <2> QED BY <1>0, <2>1, QuietOwnership DEF Private
<1>4. ASSUME NEW t \in Threads, Retire(t) PROVE Ownership'
  BY <1>0, <1>4, QuietOwnership DEF Retire, list, Private
<1>5. CASE Owner
  <2>1. CASE FreeBegin \/ FreeEnd
    BY <2>1, QuietOwnership DEF FreeBegin, FreeEnd, list, Private
  <2>2. CASE FreeNode
    <3>1. /\ chain # <<>> /\ head = chain[1] /\ head \in Nodes
          /\ live' = live \ {head}
          /\ \A t \in Threads : ~Private(t) /\ ~Private(t)'
      BY <2>2, PointerFacts DEF FreeNode, IInv, Control, Joined, Private
    <3>2. /\ Linked' = Linked \ {head}
          /\ \A i, j \in 1 .. Len(chain') : chain'[i] = chain'[j] => i = j
      BY <2>2, <3>1, TailLinked DEF FreeNode
    <3> QED BY <1>0, <3>1, <3>2 DEF Ownership
  <2> QED BY <1>5, <2>1, <2>2 DEF Owner
<1>6. CASE UNCHANGED vars
  BY <1>6, QuietOwnership DEF vars, Private
<1> QED
  BY <1>1, <1>2, <1>3, <1>4, <1>5, <1>6 DEF Next

\* Freed means drained, and no thread is left to allocate.
LEMMA FreedStep == IInv /\ [Next]_vars => FreedLeavesNothing'
<1> SUFFICES ASSUME IInv, [Next]_vars, buffer' = "freed" PROVE live' = {}
  BY DEF FreedLeavesNothing
<1> USE SBufferAssumption
<1>1. CASE buffer = "freed"
  <2>1. live = {} /\ Joined
    BY <1>1 DEF IInv, FreedLeavesNothing, Control
  <2>2. live' = live
    BY <1>1, <2>1 DEF Next, Producer, InsertAlloc, InsertNoMemory, InsertLock,
         InsertFirst, InsertLast, InsertMoveTail, InsertUnlock, Consumer,
         RemoveLock, RemoveNoData, RemoveCopy, RemoveUnlink, RemoveFree,
         RemoveUnlock, Reader,
         GetLock, GetNoData, GetTest, GetLoad, GetCopy, GetUnlock, Retire,
         Owner, FreeBegin, FreeNode, FreeEnd, Goto, Joined, Threads, list, vars
  <2> QED BY <2>1, <2>2
<1>2. CASE buffer # "freed"
  <2>1. FreeEnd
    BY <1>2 DEF Next, Producer, InsertAlloc, InsertNoMemory, InsertLock,
         InsertFirst, InsertLast, InsertMoveTail, InsertUnlock, Consumer,
         RemoveLock, RemoveNoData, RemoveCopy, RemoveUnlink, RemoveFree,
         RemoveUnlock, Reader,
         GetLock, GetNoData, GetTest, GetLoad, GetCopy, GetUnlock, Retire,
         Owner, FreeBegin, FreeNode, vars
  <2>2. Len(chain) = 0 /\ \A t \in Threads : ~Private(t)
    <3>1. head = NULL /\ Joined
      BY <2>1 DEF FreeEnd, IInv, Control
    <3>2. chain # <<>> => chain[1] \in Nodes
      BY PointerFacts
    <3> QED BY <3>1, <3>2, PointerFacts
            DEF IInv, ListShape, HeadOK, Joined, Private
  <2>3. live' = live /\ live = {}
    BY <2>1, <2>2, PointerFacts, SMTT(20)
       DEF FreeEnd, list, IInv, Ownership, TypeOK
  <2> QED BY <2>3
<1> QED
  BY <1>1, <1>2

\* The nodes of the list and the histories hold readings, with a number each.
LEMMA ReadingFacts ==
  ASSUME IInv
  PROVE  /\ \A j \in 1 .. Len(chain) : data[chain[j]] \in Readings
         /\ \A c \in Consumers : \A i \in 1 .. Len(got[c]) : got[c][i] \in Readings
         /\ \A r \in Readings : r.seq \in Nat
<1>1. \A j \in 1 .. Len(chain) : data[chain[j]] \in Readings
  BY PointerFacts DEF IInv, Prepared
<1>2. \A c \in Consumers : got[c] \in Seq(Readings)
  BY DEF IInv, TypeOK
<1>3. \A c \in Consumers : \A i \in 1 .. Len(got[c]) : got[c][i] \in Readings
  BY <1>2, SeqFacts
<1>4. \A r \in Readings : r.seq \in Nat
  BY SBufferAssumption DEF Readings
<1> QED
  BY <1>1, <1>3, <1>4

(***************************************************************************)
(* Steps that enqueue and deliver nothing keep the order of delivery, also *)
(* when a producer gives an insertion up.                                  *)
(***************************************************************************)
LEMMA QuietDelivery ==
  ASSUME IInv, UNCHANGED <<chain, data, got>>,
         sent' = sent \/ \E p \in Producers :
                           /\ pc'[p] = "idle"
                           /\ sent' = [sent EXCEPT ![p] = @ + 1],
         \A p \in Producers :
           pc'[p] \in {"insert_lock", "insert_link"} =>
             pc[p] \in {"insert_lock", "insert_link"} /\ dummy'[p] = dummy[p]
  PROVE  DeliveredOnceInOrder' /\ Numbered'
<1>0. chain' = chain /\ data' = data /\ got' = got
  OBVIOUS
<1>1. DeliveredOnceInOrder'
  <2>1. DeliveredOnceInOrder
    BY DEF IInv
  <2> QED BY <1>0, <2>1 DEF DeliveredOnceInOrder, Before
<1>2. /\ \A p \in Producers : sent[p] \in Nat /\ sent'[p] \in Nat
      /\ \A p \in Producers : sent[p] <= sent'[p]
      /\ \A p \in Producers : pc'[p] # "idle" => sent'[p] = sent[p]
  <2>1. \A p \in Producers : sent[p] \in Nat
    BY SBufferAssumption DEF IInv, TypeOK
  <2>2. CASE sent' = sent
    BY <2>1, <2>2
  <2>3. ASSUME NEW q \in Producers, pc'[q] = "idle",
               sent' = [sent EXCEPT ![q] = @ + 1]
        PROVE  /\ sent'[q] = sent[q] + 1
               /\ \A p \in Producers \ {q} : sent'[p] = sent[p]
    BY <2>3 DEF IInv, TypeOK
  <2> QED BY <2>1, <2>2, <2>3
<1>3. /\ \A j \in 1 .. Len(chain) : data[chain[j]].seq \in Nat
      /\ \A c \in Consumers : \A i \in 1 .. Len(got[c]) : got[c][i].seq \in Nat
  BY ReadingFacts
<1>4. Numbered'
  <2>0. Numbered
    BY DEF IInv
  <2>1. \A p \in Producers :
          /\ \A c \in Consumers : \A i \in 1 .. Len(got[c]) :
               got[c][i].from = p => got[c][i].seq <= sent'[p]
          /\ \A j \in 1 .. Len(chain) :
               data[chain[j]].from = p => data[chain[j]].seq <= sent'[p]
    BY <1>2, <1>3, <2>0 DEF Numbered
  <2>2. ASSUME NEW p \in Producers,
               pc'[p] \in {"insert_lock", "insert_link"}
        PROVE  /\ sent'[p] = sent[p] /\ dummy'[p] = dummy[p]
               /\ pc[p] \in {"insert_lock", "insert_link"}
    BY <1>2, <2>2
  <2> QED BY <1>0, <2>0, <2>1, <2>2 DEF Numbered, Before
<1> QED
  BY <1>1, <1>4

\* While nothing more is taken, only what is queued has to be compared anew.
LEMMA DeliveredKept ==
  ASSUME DeliveredOnceInOrder, got' = got,
         \A c \in Consumers :
           \A i \in 1 .. Len(got[c]), j \in 1 .. Len(chain') :
             Before(got[c][i], data'[chain'[j]])
  PROVE  DeliveredOnceInOrder'
<1>1. /\ \A c \in Consumers : \A i, j \in 1 .. Len(got[c]) :
           i < j => Before(got[c][i], got[c][j])
      /\ \A c, d \in Consumers :
           \A i \in 1 .. Len(got[c]), j \in 1 .. Len(got[d]) :
             got[c][i] = got[d][j] => c = d
  BY DEF DeliveredOnceInOrder
<1> QED
  BY <1>1 DEF DeliveredOnceInOrder, Before

\* After a removal the history only has to be compared anew with what is
\* left: the counters and the readings on their way are as before.
LEMMA NumberedAfterRemoval ==
  ASSUME Numbered, UNCHANGED <<data, sent>>,
         \A q \in Producers : pc'[q] = pc[q] /\ dummy'[q] = dummy[q],
         \A q \in Producers : \A d \in Consumers : \A i \in 1 .. Len(got'[d]) :
           got'[d][i].from = q => got'[d][i].seq <= sent[q],
         \A q \in Producers : \A j \in 1 .. Len(chain') :
           data[chain'[j]].from = q => data[chain'[j]].seq <= sent[q],
         \A q \in Producers : pc[q] \in {"insert_lock", "insert_link"} =>
           /\ \A d \in Consumers : \A i \in 1 .. Len(got'[d]) :
                Before(got'[d][i], data[dummy[q]])
           /\ \A j \in 1 .. Len(chain') :
                Before(data[chain'[j]], data[dummy[q]]),
         \A i, j \in 1 .. Len(chain') :
           i < j => Before(data[chain'[i]], data[chain'[j]])
  PROVE  Numbered'
<1>1. \A p \in Producers :
        /\ \A c \in Consumers : \A i \in 1 .. Len(got'[c]) :
             got'[c][i].from = p => got'[c][i].seq <= sent'[p]
        /\ \A j \in 1 .. Len(chain') :
             data'[chain'[j]].from = p => data'[chain'[j]].seq <= sent'[p]
  OBVIOUS
<1>2. ASSUME NEW p \in Producers, pc'[p] \in {"insert_lock", "insert_link"}
      PROVE  /\ data'[dummy'[p]] = [from |-> p, seq |-> sent'[p]]
             /\ \A c \in Consumers : \A i \in 1 .. Len(got'[c]) :
                  Before(got'[c][i], data'[dummy'[p]])
             /\ \A j \in 1 .. Len(chain') :
                  Before(data'[chain'[j]], data'[dummy'[p]])
  <2>1. pc[p] \in {"insert_lock", "insert_link"} /\ dummy'[p] = dummy[p]
    BY <1>2
  <2>2. data[dummy[p]] = [from |-> p, seq |-> sent[p]]
    BY <2>1 DEF Numbered
  <2> QED BY <2>1, <2>2
<1>3. \A i, j \in 1 .. Len(chain') :
        i < j => Before(data'[chain'[i]], data'[chain'[j]])
  OBVIOUS
<1> QED
  BY <1>1, <1>2, <1>3 DEF Numbered, Before

(***************************************************************************)
(* The mutex keeps the head, and the reading in it, where a removal that   *)
(* has copied that reading found them.                                     *)
(***************************************************************************)
LEMMA TakingStep == IInv /\ [Next]_vars => Taking'
<1> SUFFICES ASSUME IInv, [Next]_vars,
                    NEW d \in Consumers, pc'[d] = "remove_unlink"
             PROVE  head' # NULL /\ dummy'[d] = head' /\ out'[d] = data'[head']
  BY DEF Taking
<1> USE SBufferAssumption DEF Goto, Threads
<1>0. /\ TypeOK /\ Control
      /\ pc \in [Threads -> PCs] /\ dummy \in [Threads -> Nodes \cup {NULL}]
      /\ out \in [Consumers -> Readings \cup {NULL}]
  BY DEF IInv, TypeOK
<1>1. CASE pc[d] # "remove_unlink"
  <2>1. ASSUME NEW p \in Producers, Producer(p) PROVE FALSE
    BY <1>0, <1>1, <2>1
       DEF Producer, InsertAlloc, InsertNoMemory, InsertLock, InsertFirst,
           InsertLast, InsertMoveTail, InsertUnlock
  <2>2. ASSUME NEW r \in Readers, Reader(r) PROVE FALSE
    BY <1>0, <1>1, <2>2
       DEF Reader, GetLock, GetNoData, GetTest, GetLoad, GetCopy, GetUnlock
  <2>3. ASSUME NEW t \in Threads, Retire(t) PROVE FALSE
    BY <1>0, <1>1, <2>3 DEF Retire
  <2>4. ASSUME NEW c \in Consumers, Consumer(c) PROVE RemoveCopy(d)
    BY <1>0, <1>1, <2>4
       DEF Consumer, RemoveLock, RemoveNoData, RemoveCopy, RemoveUnlink,
           RemoveFree, RemoveUnlock
  <2>5. RemoveCopy(d)
    BY <1>1, <2>1, <2>2, <2>3, <2>4
       DEF Next, Owner, FreeBegin, FreeNode, FreeEnd, vars
  <2> QED BY <1>0, <2>5 DEF RemoveCopy, list, TypeOK
<1>2. CASE pc[d] = "remove_unlink"
  <2>1. /\ head # NULL /\ head \in Nodes /\ head \in live
        /\ dummy[d] = head /\ out[d] = data[head]
    BY <1>2, TakingFacts, PointerFacts
  <2>2. /\ buffer = "ready" /\ ~Joined /\ mutex = d
        /\ \A t \in Threads \ {d} : pc[t] \notin Holding
    BY <1>0, <1>2, LockFacts DEF Control, Holding, Joined
  <2>3. ASSUME NEW p \in Producers, Producer(p)
        PROVE  UNCHANGED <<head, out>> /\ dummy'[d] = dummy[d]
                 /\ data'[head] = data[head]
    <3>1. CASE InsertAlloc(p)
      BY <1>0, <2>1, <3>1 DEF InsertAlloc, TypeOK
    <3> QED BY <1>0, <2>2, <2>3, <3>1
            DEF Producer, InsertNoMemory, InsertLock, Acquire, InsertFirst,
                InsertLast, InsertMoveTail, InsertUnlock, Holding, list
  <2>4. ASSUME NEW c \in Consumers, Consumer(c)
        PROVE  UNCHANGED <<head, data, out>> /\ dummy'[d] = dummy[d]
    BY <1>0, <1>2, <2>2, <2>4 DEF Consumer, RemoveLock, Acquire, RemoveNoData,
       RemoveCopy, RemoveUnlink, RemoveFree, RemoveUnlock, Holding, list
  <2>5. ASSUME NEW r \in Readers, Reader(r)
        PROVE  UNCHANGED <<head, data, out>> /\ dummy'[d] = dummy[d]
    BY <1>0, <2>5 DEF Reader, GetLock, GetNoData, GetTest, GetLoad, GetCopy,
       GetUnlock, list
  <2>6. ASSUME NEW t \in Threads, Retire(t)
        PROVE  UNCHANGED <<head, data, out, dummy>>
    BY <2>6 DEF Retire, list
  <2>7. ~Owner
    BY <2>2 DEF Owner, FreeBegin, FreeNode, FreeEnd
  <2> QED
    BY <2>1, <2>3, <2>4, <2>5, <2>6, <2>7 DEF Next, vars
<1> QED
  BY <1>1, <1>2

LEMMA DeliveryStep == IInv /\ [Next]_vars => DeliveredOnceInOrder' /\ Numbered'
<1> SUFFICES ASSUME IInv, [Next]_vars
             PROVE  DeliveredOnceInOrder' /\ Numbered'
  OBVIOUS
<1> USE SBufferAssumption DEF Goto
<1>0. /\ TypeOK /\ DeliveredOnceInOrder /\ Numbered
      /\ pc \in [Threads -> PCs] /\ dummy \in [Threads -> Nodes \cup {NULL}]
      /\ Len(chain) \in Nat
      /\ \A c \in Consumers : Len(got[c]) \in Nat
      /\ \A p \in Producers : sent[p] \in Nat
  BY PointerFacts, SeqFacts DEF IInv, TypeOK
<1>a. /\ \A j \in 1 .. Len(chain) : data[chain[j]] \in Readings
      /\ \A c \in Consumers : \A i \in 1 .. Len(got[c]) : got[c][i] \in Readings
      /\ \A r \in Readings : r.seq \in Nat
  BY ReadingFacts
<1>b. /\ \A j \in 1 .. Len(chain) : data[chain[j]].seq \in Nat
      /\ \A c \in Consumers : \A i \in 1 .. Len(got[c]) : got[c][i].seq \in Nat
      /\ \A q \in Producers : sent[q] \in Nat
  BY <1>0, <1>a DEF TypeOK
<1>1. ASSUME NEW p \in Producers, Producer(p)
      PROVE  DeliveredOnceInOrder' /\ Numbered'
  <2>1. CASE InsertAlloc(p)
    <3>1. PICK n \in Nodes \ live :
            /\ data' = [data EXCEPT ![n] = [from |-> p, seq |-> sent[p] + 1]]
            /\ dummy' = [dummy EXCEPT ![p] = n]
      BY <2>1 DEF InsertAlloc
    <3>2. /\ chain' = chain /\ got' = got
          /\ sent' = [sent EXCEPT ![p] = @ + 1]
          /\ pc' = [pc EXCEPT ![p] = "insert_lock"]
      BY <2>1 DEF InsertAlloc
    <3>3. \A j \in 1 .. Len(chain) : data'[chain[j]] = data[chain[j]]
      BY <1>0, <3>1, PointerFacts DEF TypeOK
    <3>4. /\ data'[dummy'[p]] = [from |-> p, seq |-> sent[p] + 1]
          /\ sent'[p] = sent[p] + 1
          /\ \A q \in Producers \ {p} :
               /\ sent'[q] = sent[q] /\ pc'[q] = pc[q] /\ dummy'[q] = dummy[q]
               /\ pc[q] \in {"insert_lock", "insert_link"} =>
                    data'[dummy[q]] = data[dummy[q]]
      BY <1>0, <3>1, <3>2, PointerFacts DEF TypeOK, Threads, Private
    <3>5. DeliveredOnceInOrder'
      <4>1. \A c \in Consumers :
              \A i \in 1 .. Len(got'[c]), j \in 1 .. Len(chain') :
                Before(got'[c][i], data'[chain'[j]])
        BY <1>0, <3>2, <3>3 DEF DeliveredOnceInOrder
      <4> QED BY <1>0, <3>2, <4>1, DeliveredKept
    <3>6. \A q \in Producers :
            /\ \A c \in Consumers : \A i \in 1 .. Len(got[c]) :
                 got[c][i].from = q => got[c][i].seq <= sent'[q]
            /\ \A j \in 1 .. Len(chain) :
                 data[chain[j]].from = q => data[chain[j]].seq <= sent'[q]
      <4>1. \A q \in Producers :
              /\ \A c \in Consumers : \A i \in 1 .. Len(got[c]) :
                   got[c][i].from = q => got[c][i].seq <= sent[q]
              /\ \A j \in 1 .. Len(chain) :
                   data[chain[j]].from = q => data[chain[j]].seq <= sent[q]
        BY <1>0 DEF Numbered
      <4>2. \A q \in Producers : sent'[q] = sent[q] \/ sent'[q] = sent[q] + 1
        BY <3>4
      <4> QED BY <1>b, <4>1, <4>2
    <3>7. ASSUME NEW q \in Producers,
                 pc'[q] \in {"insert_lock", "insert_link"}
          PROVE  /\ data'[dummy'[q]] = [from |-> q, seq |-> sent'[q]]
                 /\ \A c \in Consumers : \A i \in 1 .. Len(got[c]) :
                      Before(got[c][i], data'[dummy'[q]])
                 /\ \A j \in 1 .. Len(chain) :
                      Before(data[chain[j]], data'[dummy'[q]])
      <4>1. CASE q = p
        <5>0. /\ \A c \in Consumers : \A i \in 1 .. Len(got[c]) :
                   got[c][i].from = p => got[c][i].seq <= sent[p]
              /\ \A j \in 1 .. Len(chain) :
                   data[chain[j]].from = p => data[chain[j]].seq <= sent[p]
          BY <1>0 DEF Numbered
        <5>1. \A c \in Consumers : \A i \in 1 .. Len(got[c]) :
                Before(got[c][i], [from |-> p, seq |-> sent[p] + 1])
          BY <1>b, <5>0 DEF Before
        <5>2. \A j \in 1 .. Len(chain) :
                Before(data[chain[j]], [from |-> p, seq |-> sent[p] + 1])
          BY <1>b, <5>0 DEF Before
        <5> QED BY <3>4, <4>1, <5>1, <5>2
      <4>2. CASE q # p
        BY <1>0, <3>4, <3>7, <4>2 DEF Numbered
      <4> QED BY <4>1, <4>2
    <3>8. Numbered'
      <4>1. \A i, j \in 1 .. Len(chain) :
              i < j => Before(data'[chain[i]], data'[chain[j]])
        BY <1>0, <3>3 DEF Numbered
      <4> QED BY <3>2, <3>3, <3>6, <3>7, <4>1 DEF Numbered, Before
    <3> QED BY <3>5, <3>8
  <2>2. CASE InsertNoMemory(p)
    BY <2>2, QuietDelivery DEF InsertNoMemory, list
  <2>3. CASE InsertLock(p)
    BY <1>0, <2>3, QuietDelivery DEF InsertLock, list, Threads
  <2>4. CASE InsertFirst(p) \/ InsertLast(p)
    <3>1. /\ chain' = Append(chain, dummy[p]) /\ UNCHANGED <<data, got, sent>>
          /\ dummy' = dummy
          /\ pc[p] = "insert_link"
          /\ pc'[p] \notin {"insert_lock", "insert_link"}
          /\ \A q \in Producers \ {p} : pc'[q] = pc[q]
      <4>1. CASE InsertFirst(p)
        BY <1>0, <4>1 DEF InsertFirst, Threads
      <4>2. CASE InsertLast(p)
        BY <1>0, <4>2 DEF InsertLast, Threads
      <4> QED BY <2>4, <4>1, <4>2
    <3>2. dummy[p] \in Nodes
      BY <3>1 DEF IInv, Ownership, Private, Threads
    <3>3. /\ Len(chain') = Len(chain) + 1
          /\ \A i \in 1 .. Len(chain) : chain'[i] = chain[i]
          /\ chain'[Len(chain) + 1] = dummy[p]
      BY <1>0, <3>1, <3>2, AppendFacts DEF TypeOK
    <3>4. /\ data[dummy[p]] = [from |-> p, seq |-> sent[p]]
          /\ \A c \in Consumers : \A i \in 1 .. Len(got[c]) :
               Before(got[c][i], data[dummy[p]])
          /\ \A j \in 1 .. Len(chain) : Before(data[chain[j]], data[dummy[p]])
      BY <1>0, <3>1 DEF Numbered
    <3>5. DeliveredOnceInOrder'
      <4>1. ASSUME NEW c \in Consumers, NEW i \in 1 .. Len(got[c]),
                   NEW j \in 1 .. Len(chain')
            PROVE  Before(got[c][i], data[chain'[j]])
        <5>1. CASE j \in 1 .. Len(chain)
          BY <1>0, <3>3, <5>1 DEF DeliveredOnceInOrder
        <5>2. CASE j = Len(chain) + 1
          BY <3>3, <3>4, <5>2
        <5> QED BY <1>0, <3>3, <5>1, <5>2
      <4> QED BY <1>0, <3>1, <4>1, DeliveredKept
    <3>6. \A q \in Producers : \A j \in 1 .. Len(chain') :
            data[chain'[j]].from = q => data[chain'[j]].seq <= sent[q]
      BY <1>0, <3>3, <3>4 DEF Numbered
    <3>7. \A q \in Producers : pc'[q] \in {"insert_lock", "insert_link"} =>
            \A j \in 1 .. Len(chain') : Before(data[chain'[j]], data[dummy[q]])
      <4> SUFFICES ASSUME NEW q \in Producers,
                          pc'[q] \in {"insert_lock", "insert_link"},
                          NEW j \in 1 .. Len(chain')
                   PROVE  Before(data[chain'[j]], data[dummy[q]])
        OBVIOUS
      <4>1. q # p /\ pc[q] \in {"insert_lock", "insert_link"}
        BY <3>1
      <4>2. CASE j \in 1 .. Len(chain)
        BY <1>0, <3>3, <4>1, <4>2 DEF Numbered
      <4>3. CASE j = Len(chain) + 1
        <5>0. data[dummy[q]] = [from |-> q, seq |-> sent[q]]
          BY <1>0, <4>1 DEF Numbered
        <5>1. data[dummy[q]].from = q /\ data[dummy[p]].from = p
          BY <3>4, <5>0
        <5> QED BY <3>3, <4>1, <4>3, <5>1 DEF Before
      <4> QED BY <1>0, <3>3, <4>2, <4>3
    <3>8. \A i, j \in 1 .. Len(chain') :
            i < j => Before(data[chain'[i]], data[chain'[j]])
      BY <1>0, <3>3, <3>4 DEF Numbered
    <3>9. \A q \in Producers : pc'[q] \in {"insert_lock", "insert_link"} =>
            pc[q] \in {"insert_lock", "insert_link"}
      BY <3>1
    <3> QED
      BY <1>0, <3>1, <3>5, <3>6, <3>7, <3>8, <3>9 DEF Numbered, Before
  <2>5. CASE InsertMoveTail(p)
    BY <1>0, <2>5, QuietDelivery DEF InsertMoveTail, Threads
  <2>6. CASE InsertUnlock(p)
    BY <1>0, <2>6, QuietDelivery DEF InsertUnlock, list, Threads
  <2> QED BY <1>1, <2>1, <2>2, <2>3, <2>4, <2>5, <2>6 DEF Producer
<1>2. ASSUME NEW c \in Consumers, Consumer(c)
      PROVE  DeliveredOnceInOrder' /\ Numbered'
  <2>1. CASE RemoveLock(c)
    BY <1>0, <2>1, QuietDelivery DEF RemoveLock, list, Threads
  <2>2. CASE RemoveNoData(c)
    BY <1>0, <2>2, QuietDelivery DEF RemoveNoData, list, Threads
  <2>3. CASE RemoveUnlink(c)
    <3>0. chain # <<>> /\ out[c] = data[chain[1]] /\ data[chain[1]] \in Readings
      BY <2>3, TakingFacts DEF RemoveUnlink
    <3>1. Len(chain) > 0 /\ data[chain[1]] \in Readings
      BY <1>0, <3>0, PointerFacts
    <3>2. /\ Len(chain') = Len(chain) - 1
          /\ \A i \in 1 .. Len(chain') : chain'[i] = chain[i + 1]
      BY <1>0, <2>3, <3>0, TailFacts DEF RemoveUnlink, TypeOK
    <3>3. /\ UNCHANGED <<data, sent>>
          /\ \A q \in Producers : pc'[q] = pc[q] /\ dummy'[q] = dummy[q]
      BY <1>0, <2>3 DEF RemoveUnlink, Threads
    <3>4. /\ got'[c] = Append(got[c], data[chain[1]])
          /\ \A d \in Consumers \ {c} : got'[d] = got[d]
      BY <1>0, <2>3, <3>0 DEF RemoveUnlink, TypeOK
    <3>5. /\ Len(got'[c]) = Len(got[c]) + 1
          /\ \A i \in 1 .. Len(got[c]) : got'[c][i] = got[c][i]
          /\ got'[c][Len(got[c]) + 1] = data[chain[1]]
      BY <1>0, <3>1, <3>4, AppendFacts DEF TypeOK
    <3>6. \A d \in Consumers : \A i \in 1 .. Len(got'[d]) :
            \/ i \in 1 .. Len(got[d]) /\ got'[d][i] = got[d][i]
            \/ d = c /\ i = Len(got[c]) + 1 /\ got'[d][i] = data[chain[1]]
      <4> SUFFICES ASSUME NEW d \in Consumers, NEW i \in 1 .. Len(got'[d])
                   PROVE
            \/ i \in 1 .. Len(got[d]) /\ got'[d][i] = got[d][i]
            \/ d = c /\ i = Len(got[c]) + 1 /\ got'[d][i] = data[chain[1]]
        OBVIOUS
      <4>1. CASE d # c
        BY <3>4, <4>1
      <4>2. CASE d = c
        BY <1>0, <3>5, <4>2
      <4> QED BY <4>1, <4>2
    <3>7. \A d \in Consumers : \A i \in 1 .. Len(got[d]) :
            /\ Before(got[d][i], data[chain[1]])
            /\ got[d][i] # data[chain[1]]
      BY <1>0, <1>a, <3>1 DEF DeliveredOnceInOrder, Before
    <3>8. \A j \in 1 .. Len(chain') :
            \E k \in 1 .. Len(chain) : k = j + 1 /\ chain'[j] = chain[k]
      BY <1>0, <3>1, <3>2
    <3>9. DeliveredOnceInOrder'
      <4>1. \A d \in Consumers : \A i, j \in 1 .. Len(got'[d]) :
              i < j => Before(got'[d][i], got'[d][j])
        BY <1>0, <3>6, <3>7 DEF DeliveredOnceInOrder
      <4>2. \A j \in 1 .. Len(chain') :
              Before(data[chain[1]], data[chain'[j]])
        BY <1>0, <3>1, <3>2 DEF Numbered
      <4>3. \A d \in Consumers :
              \A i \in 1 .. Len(got'[d]), j \in 1 .. Len(chain') :
                Before(got'[d][i], data[chain'[j]])
        <5>1. \A d \in Consumers :
                \A i \in 1 .. Len(got[d]), j \in 1 .. Len(chain) :
                  Before(got[d][i], data[chain[j]])
          BY <1>0 DEF DeliveredOnceInOrder
        <5>2. \A d \in Consumers :
                \A i \in 1 .. Len(got[d]), j \in 1 .. Len(chain') :
                  Before(got[d][i], data[chain'[j]])
          BY <5>1, <3>8
        <5> QED BY <3>6, <4>2, <5>2
      <4>4. \A d, e \in Consumers :
              \A i \in 1 .. Len(got'[d]), j \in 1 .. Len(got'[e]) :
                got'[d][i] = got'[e][j] => d = e
        BY <1>0, <3>6, <3>7 DEF DeliveredOnceInOrder
      <4> QED BY <3>3, <4>1, <4>3, <4>4 DEF DeliveredOnceInOrder, Before
    <3>10. \A q \in Producers : \A d \in Consumers :
            \A i \in 1 .. Len(got'[d]) :
              got'[d][i].from = q => got'[d][i].seq <= sent[q]
      <4>1. \A q \in Producers :
              /\ \A d \in Consumers : \A i \in 1 .. Len(got[d]) :
                   got[d][i].from = q => got[d][i].seq <= sent[q]
              /\ data[chain[1]].from = q => data[chain[1]].seq <= sent[q]
        BY <1>0, <3>1 DEF Numbered
      <4> QED BY <3>6, <4>1
    <3>11. \A q \in Producers : \A j \in 1 .. Len(chain') :
            data[chain'[j]].from = q => data[chain'[j]].seq <= sent[q]
      BY <1>0, <3>8 DEF Numbered
    <3>12. \A q \in Producers : pc[q] \in {"insert_lock", "insert_link"} =>
            /\ \A d \in Consumers : \A i \in 1 .. Len(got'[d]) :
                 Before(got'[d][i], data[dummy[q]])
            /\ \A j \in 1 .. Len(chain') :
                 Before(data[chain'[j]], data[dummy[q]])
      <4> SUFFICES ASSUME NEW q \in Producers,
                          pc[q] \in {"insert_lock", "insert_link"}
                   PROVE
            /\ \A d \in Consumers : \A i \in 1 .. Len(got'[d]) :
                 Before(got'[d][i], data[dummy[q]])
            /\ \A j \in 1 .. Len(chain') :
                 Before(data[chain'[j]], data[dummy[q]])
        OBVIOUS
      <4>1. /\ \A d \in Consumers : \A i \in 1 .. Len(got[d]) :
                 Before(got[d][i], data[dummy[q]])
            /\ \A j \in 1 .. Len(chain) :
                 Before(data[chain[j]], data[dummy[q]])
        BY <1>0 DEF Numbered
      <4>2. Before(data[chain[1]], data[dummy[q]])
        BY <1>0, <3>1, <4>1
      <4> QED BY <3>6, <3>8, <4>1, <4>2
    <3>13. \A i, j \in 1 .. Len(chain') :
            i < j => Before(data[chain'[i]], data[chain'[j]])
      BY <1>0, <3>2, <3>8 DEF Numbered
    <3>14. Numbered'
      BY <1>0, <3>3, <3>10, <3>11, <3>12, <3>13, NumberedAfterRemoval
    <3> QED BY <3>9, <3>14
  <2>4. CASE RemoveFree(c)
    BY <1>0, <2>4, QuietDelivery DEF RemoveFree, Threads
  <2>5. CASE RemoveUnlock(c)
    BY <1>0, <2>5, QuietDelivery DEF RemoveUnlock, list, Threads
  <2>6. CASE RemoveCopy(c)
    BY <1>0, <2>6, QuietDelivery DEF RemoveCopy, list, Threads
  <2> QED BY <1>2, <2>1, <2>2, <2>3, <2>4, <2>5, <2>6 DEF Consumer
<1>3. ASSUME NEW r \in Readers, Reader(r)
      PROVE  DeliveredOnceInOrder' /\ Numbered'
  <2>1. /\ UNCHANGED <<chain, data, got, sent>>
        /\ \A q \in Producers : pc'[q] = pc[q] /\ dummy'[q] = dummy[q]
    BY <1>0, <1>3 DEF Reader, GetLock, GetNoData, GetTest, GetLoad, GetCopy,
                      GetUnlock, list, Threads
  <2> QED BY <2>1, QuietDelivery
<1>4. ASSUME NEW t \in Threads, Retire(t)
      PROVE  DeliveredOnceInOrder' /\ Numbered'
  BY <1>0, <1>4, QuietDelivery DEF Retire, list, Threads
<1>5. CASE Owner
  <2>1. CASE FreeBegin \/ FreeEnd
    BY <2>1, QuietDelivery DEF FreeBegin, FreeEnd, list
  <2>2. CASE FreeNode
    <3>1. chain # <<>> /\ Len(chain) > 0
      BY <1>0, <2>2, PointerFacts DEF FreeNode
    <3>2. /\ Len(chain') = Len(chain) - 1
          /\ \A i \in 1 .. Len(chain') : chain'[i] = chain[i + 1]
      BY <1>0, <2>2, <3>1, TailFacts DEF FreeNode, TypeOK
    <3>3. \A j \in 1 .. Len(chain') :
            \E k \in 1 .. Len(chain) : k = j + 1 /\ chain'[j] = chain[k]
      BY <1>0, <3>1, <3>2
    <3>4. UNCHANGED <<data, sent, got, pc, dummy>>
      BY <2>2 DEF FreeNode
    <3>5. DeliveredOnceInOrder'
      <4>1. \A d \in Consumers :
              \A i \in 1 .. Len(got[d]), j \in 1 .. Len(chain') :
                Before(got[d][i], data[chain'[j]])
        <5>1. \A d \in Consumers :
                \A i \in 1 .. Len(got[d]), j \in 1 .. Len(chain) :
                  Before(got[d][i], data[chain[j]])
          BY <1>0 DEF DeliveredOnceInOrder
        <5> QED BY <3>3, <5>1
      <4> QED BY <1>0, <3>4, <4>1, DeliveredKept
    <3>6. \A i, j \in 1 .. Len(chain') :
            i < j => Before(data[chain'[i]], data[chain'[j]])
      BY <1>0, <3>2, <3>3 DEF Numbered
    <3>7. \A q \in Producers : \A d \in Consumers :
            \A i \in 1 .. Len(got'[d]) :
              got'[d][i].from = q => got'[d][i].seq <= sent[q]
      BY <1>0, <3>4 DEF Numbered
    <3>8. \A q \in Producers : \A j \in 1 .. Len(chain') :
            data[chain'[j]].from = q => data[chain'[j]].seq <= sent[q]
      BY <1>0, <3>3 DEF Numbered
    <3>9. \A q \in Producers : pc[q] \in {"insert_lock", "insert_link"} =>
            /\ \A d \in Consumers : \A i \in 1 .. Len(got'[d]) :
                 Before(got'[d][i], data[dummy[q]])
            /\ \A j \in 1 .. Len(chain') :
                 Before(data[chain'[j]], data[dummy[q]])
      <4> SUFFICES ASSUME NEW q \in Producers,
                          pc[q] \in {"insert_lock", "insert_link"}
                   PROVE
            /\ \A d \in Consumers : \A i \in 1 .. Len(got'[d]) :
                 Before(got'[d][i], data[dummy[q]])
            /\ \A j \in 1 .. Len(chain') :
                 Before(data[chain'[j]], data[dummy[q]])
        OBVIOUS
      <4>1. /\ \A d \in Consumers : \A i \in 1 .. Len(got[d]) :
                 Before(got[d][i], data[dummy[q]])
            /\ \A j \in 1 .. Len(chain) :
                 Before(data[chain[j]], data[dummy[q]])
        BY <1>0 DEF Numbered
      <4> QED BY <3>3, <3>4, <4>1
    <3>10. Numbered'
      BY <1>0, <3>4, <3>6, <3>7, <3>8, <3>9, NumberedAfterRemoval
    <3> QED BY <3>5, <3>10
  <2> QED BY <1>5, <2>1, <2>2 DEF Owner
<1>6. CASE UNCHANGED vars
  BY <1>6, QuietDelivery DEF vars
<1> QED
  BY <1>1, <1>2, <1>3, <1>4, <1>5, <1>6 DEF Next

LEMMA IndInv == IInv /\ [Next]_vars => IInv'
BY ControlStep, TypeStep, ShapeStep, OwnershipStep, FreedStep, TakingStep,
   DeliveryStep
   DEF IInv

-----------------------------------------------------------------------------
\* The inductive invariant holds in every reachable state.
THEOREM Invariance == Spec => []IInv
BY InitInv, IndInv, PTL DEF Spec

\* Every variable keeps its type, whatever the interleaving.
THEOREM TypeCorrect == Spec => []TypeOK
<1>1. IInv => TypeOK
  BY DEF IInv
<1> QED
  BY Invariance, <1>1, PTL

\* Head, links and tail always describe one list, also between the two
\* assignments with which sbuffer_insert appends a node.
THEOREM ListWellFormed == Spec => []ListShape
<1>1. IInv => ListShape
  BY DEF IInv
<1> QED
  BY Invariance, <1>1, PTL

\* No node leaks, is freed twice, or is freed while the list still leads to
\* it; and sbuffer_free leaves none behind.
THEOREM NodesAccountedFor == Spec => [](Ownership /\ FreedLeavesNothing)
<1>1. IInv => Ownership /\ FreedLeavesNothing
  BY DEF IInv
<1> QED
  BY Invariance, <1>1, PTL

\* Once sbuffer_free has run, no node is left allocated.
THEOREM FreedForGood == Spec => []FreedLeavesNothing
<1>1. IInv => FreedLeavesNothing
  BY DEF IInv
<1> QED
  BY Invariance, <1>1, PTL

\* A reading is handed out at most once, and every thread gets the readings
\* of one producer in the order of their insertion.
THEOREM Delivery == Spec => []DeliveredOnceInOrder
<1>1. IInv => DeliveredOnceInOrder
  BY DEF IInv
<1> QED
  BY Invariance, <1>1, PTL

-----------------------------------------------------------------------------
(***************************************************************************)
(* The linked list implements the abstract queue of ReadingQueue.          *)
(***************************************************************************)
LEMMA MappedSeq ==
  ASSUME NEW N, NEW T, NEW s \in Seq(N), NEW d,
         \A i \in 1 .. Len(s) : d[s[i]] \in T
  PROVE  /\ [i \in 1 .. Len(s) |-> d[s[i]]] \in Seq(T)
         /\ Len([i \in 1 .. Len(s) |-> d[s[i]]]) = Len(s)
<1>1. Len(s) \in Nat
  BY LenProperties
<1>2. [i \in 1 .. Len(s) |-> d[s[i]]] \in [1 .. Len(s) -> T]
  OBVIOUS
<1>3. [i \in 1 .. Len(s) |-> d[s[i]]] \in Seq(T)
  BY <1>1, <1>2, SeqDef
<1> QED
  BY <1>1, <1>3, LenProperties

\* The queue the list stands for, and what it contains.
Queue == [i \in 1 .. Len(chain) |-> data[chain[i]]]

QueueOK ==
  /\ Queue \in Seq(Readings)
  /\ Len(Queue) = Len(chain)
  /\ \A i \in 1 .. Len(chain) : Queue[i] = data[chain[i]]

LEMMA QueueFacts == IInv => QueueOK
<1> SUFFICES ASSUME IInv PROVE QueueOK
  OBVIOUS
<1>1. chain \in Seq(Nodes) /\ \A i \in 1 .. Len(chain) : data[chain[i]] \in Readings
  BY ReadingFacts DEF IInv, TypeOK
<1>2. Queue \in Seq(Readings) /\ Len(Queue) = Len(chain)
  BY <1>1, MappedSeq DEF Queue
<1>3. \A i \in 1 .. Len(chain) : Queue[i] = data[chain[i]]
  BY DEF Queue
<1> QED
  BY <1>2, <1>3 DEF QueueOK

LEMMA NextQueueFacts == IInv' => QueueOK'
BY QueueFacts, PTL

LEMMA RefinedInit == Init => Q!Init
<1> SUFFICES ASSUME Init PROVE Q!Init
  OBVIOUS
<1>1. Queue \in Seq(Readings) /\ Len(Queue) = 0
  BY InitInv, QueueFacts DEF Init, QueueOK
<1>2. Queue = <<>>
  BY <1>1, EmptySeq, LenProperties
<1> QED
  BY <1>2 DEF Init, Q!Init, Queue

\* One appended node is one Insert.
LEMMA RefinedInsert ==
  ASSUME IInv, IInv', NEW p \in Producers, InsertFirst(p) \/ InsertLast(p)
  PROVE  Q!Next
<1>1. /\ chain' = Append(chain, dummy[p]) /\ data' = data /\ got' = got
      /\ pc[p] = "insert_link"
  BY DEF InsertFirst, InsertLast, Goto
<1>2. dummy[p] \in Nodes /\ data[dummy[p]] \in Readings
  BY <1>1 DEF IInv, Ownership, Prepared, Private, Threads
<1>3. /\ Len(chain) \in Nat
      /\ Len(chain') = Len(chain) + 1
      /\ \A i \in 1 .. Len(chain) : chain'[i] = chain[i]
      /\ chain'[Len(chain) + 1] = dummy[p]
  BY <1>1, <1>2, PointerFacts, AppendFacts DEF IInv, TypeOK
<1>4. /\ Queue' \in Seq(Readings) /\ Len(Queue') = Len(chain')
      /\ \A i \in 1 .. Len(chain') : Queue'[i] = data'[chain'[i]]
  BY NextQueueFacts DEF QueueOK
<1>5. /\ Append(Queue, data[dummy[p]]) \in Seq(Readings)
      /\ Len(Append(Queue, data[dummy[p]])) = Len(chain) + 1
      /\ \A i \in 1 .. Len(chain) :
           Append(Queue, data[dummy[p]])[i] = data[chain[i]]
      /\ Append(Queue, data[dummy[p]])[Len(chain) + 1] = data[dummy[p]]
  BY <1>2, QueueFacts, AppendFacts DEF QueueOK
<1>6. Queue' = Append(Queue, data[dummy[p]])
  BY <1>1, <1>3, <1>4, <1>5, SeqEqual
<1> QED
  BY <1>1, <1>2, <1>6 DEF Q!Next, Q!Insert, Queue

\* Without its first node the list stands for the tail of the queue.
LEMMA RefinedTail ==
  ASSUME IInv, IInv', chain # <<>>, chain' = Tail(chain), data' = data
  PROVE  Queue # <<>> /\ Queue' = Tail(Queue) /\ Head(Queue) = data[chain[1]]
<1>1. /\ Len(chain) \in Nat /\ Len(chain) > 0
      /\ Len(chain') = Len(chain) - 1
      /\ \A i \in 1 .. Len(chain') : chain'[i] = chain[i + 1]
  BY PointerFacts, TailFacts DEF IInv, TypeOK
<1>2. Queue # <<>> /\ Queue[1] = data[chain[1]]
  BY <1>1, QueueFacts, SeqFacts DEF QueueOK
<1>3. /\ Queue' \in Seq(Readings) /\ Len(Queue') = Len(chain')
      /\ \A i \in 1 .. Len(chain') : Queue'[i] = data'[chain'[i]]
  BY NextQueueFacts DEF QueueOK
<1>4. /\ Tail(Queue) \in Seq(Readings) /\ Len(Tail(Queue)) = Len(chain) - 1
      /\ \A i \in 1 .. Len(Tail(Queue)) : Tail(Queue)[i] = Queue[i + 1]
      /\ Head(Queue) = Queue[1]
  BY <1>2, QueueFacts, TailFacts DEF QueueOK
<1>5. \A i \in 1 .. Len(chain') : Queue[i + 1] = data[chain[i + 1]]
  BY <1>1, QueueFacts DEF QueueOK
<1>6. \A i \in 1 .. Len(chain') : Queue'[i] = Tail(Queue)[i]
  BY <1>1, <1>3, <1>4, <1>5
<1>7. Queue' = Tail(Queue)
  BY <1>1, <1>3, <1>4, <1>6, SeqEqual
<1> QED
  BY <1>2, <1>4, <1>7

LEMMA RefinedStep ==
  IInv /\ IInv' /\ [Next]_vars => [Q!Next]_(Q!qvars)
<1> SUFFICES ASSUME IInv, IInv', [Next]_vars PROVE [Q!Next]_(Q!qvars)
  OBVIOUS
<1>1. ASSUME NEW p \in Producers, Producer(p) PROVE [Q!Next]_(Q!qvars)
  <2>1. CASE InsertAlloc(p)
    <3>1. \A i \in 1 .. Len(chain) : data'[chain[i]] = data[chain[i]]
      BY <2>1, PointerFacts DEF InsertAlloc, IInv, TypeOK
    <3> QED BY <2>1, <3>1 DEF InsertAlloc, Q!qvars
  <2>2. CASE InsertFirst(p) \/ InsertLast(p)
    BY <2>2, RefinedInsert
  <2> QED
    BY <1>1, <2>1, <2>2 DEF Producer, InsertNoMemory, InsertLock,
       InsertMoveTail, InsertUnlock, list, Q!qvars
<1>2. ASSUME NEW c \in Consumers, Consumer(c) PROVE [Q!Next]_(Q!qvars)
  <2>1. CASE RemoveUnlink(c)
    <3>1. chain # <<>> /\ head = chain[1] /\ out[c] = data[head]
      BY <2>1, TakingFacts DEF RemoveUnlink, Goto
    <3>2. Queue # <<>> /\ Queue' = Tail(Queue) /\ Head(Queue) = out[c]
      BY <2>1, <3>1, RefinedTail DEF RemoveUnlink
    <3>3. got' = [got EXCEPT ![c] = Append(@, Head(Queue))]
      BY <2>1, <3>2 DEF RemoveUnlink
    <3> QED BY <3>2, <3>3 DEF Q!Next, Q!Remove, Queue
  <2> QED
    BY <1>2, <2>1 DEF Consumer, RemoveLock, RemoveNoData, RemoveCopy,
       RemoveFree, RemoveUnlock, list, Q!qvars
<1>3. ASSUME NEW r \in Readers, Reader(r) PROVE [Q!Next]_(Q!qvars)
  BY <1>3 DEF Reader, GetLock, GetNoData, GetTest, GetLoad, GetCopy,
     GetUnlock, list, Q!qvars
<1>4. ASSUME NEW t \in Threads, Retire(t) PROVE [Q!Next]_(Q!qvars)
  BY <1>4 DEF Retire, list, Q!qvars
<1>5. CASE Owner
  <2>1. CASE FreeNode
    <3>1. chain # <<>>
      BY <2>1, PointerFacts DEF FreeNode
    <3>2. Queue # <<>> /\ Queue' = Tail(Queue)
      BY <2>1, <3>1, RefinedTail DEF FreeNode
    <3> QED BY <2>1, <3>2 DEF FreeNode, Q!Next, Q!Discard, Queue
  <2> QED BY <1>5, <2>1 DEF Owner, FreeBegin, FreeEnd, list, Q!qvars
<1>6. CASE UNCHANGED vars
  BY <1>6 DEF vars, Q!qvars
<1> QED
  BY <1>1, <1>2, <1>3, <1>4, <1>5, <1>6 DEF Next

\* sbuffer.c is a first-in first-out queue shared by its threads: linking a
\* node inserts a reading, unlinking the head hands the oldest one out, and
\* no other step of any thread is visible to the callers.
THEOREM Refinement == Spec => ImplementsQueue
<1>1. IInv' /\ IInv /\ [Next]_vars => [Q!Next]_(Q!qvars)
  BY RefinedStep
<1> QED
  BY RefinedInit, Invariance, <1>1, PTL DEF Spec, ImplementsQueue, Q!Spec

-----------------------------------------------------------------------------
(***************************************************************************)
(* sbuffer_get_data.  As long as nothing was removed, the node a reader    *)
(* tested or loaded stays linked.                                          *)
(***************************************************************************)
NoRemoval == \A c \in Consumers : got[c] = <<>>

ReaderInv ==
  /\ fault # "none" => ~NoRemoval
  /\ \A r \in Readers :
       /\ NoRemoval /\ pc[r] = "get_load" => head # NULL
       /\ NoRemoval /\ pc[r] = "get_copy" => dummy[r] \in Linked

\* A step of a writer, a remover or the owner after which nothing has been
\* removed keeps a list that was not empty, and the nodes that were linked.
LEMMA KeptByOthers ==
  ASSUME IInv, NoRemoval',
         \/ \E p \in Producers : Producer(p)
         \/ \E c \in Consumers : Consumer(c)
         \/ Owner
  PROVE  /\ NoRemoval /\ fault' = fault
         /\ \A r \in Readers :
              /\ pc'[r] = pc[r] /\ dummy'[r] = dummy[r]
              /\ pc[r] # "done" => /\ head # NULL => head' # NULL
                                  /\ Linked \subseteq Linked'
<1> USE SBufferAssumption DEF Goto, Threads
<1>0. /\ pc \in [Threads -> PCs] /\ dummy \in [Threads -> Nodes \cup {NULL}]
      /\ got \in [Consumers -> Seq(Readings)] /\ chain \in Seq(Nodes)
  BY DEF IInv, TypeOK
<1>1. CASE Owner
  BY <1>1 DEF Owner, FreeBegin, FreeNode, FreeEnd, Joined, IInv, Control,
              list, NoRemoval
<1>2. ASSUME NEW p \in Producers, Producer(p)
      PROVE  /\ UNCHANGED <<got, fault>>
             /\ head # NULL => head' # NULL
             /\ Linked \subseteq Linked'
             /\ \A r \in Readers : pc'[r] = pc[r] /\ dummy'[r] = dummy[r]
  <2>1. CASE InsertFirst(p) \/ InsertLast(p)
    <3>1. dummy[p] \in Nodes
      BY <2>1 DEF InsertFirst, InsertLast, IInv, Ownership, Private
    <3>0. chain' = Append(chain, dummy[p])
      BY <2>1 DEF InsertFirst, InsertLast
    <3>2. /\ Len(chain') = Len(chain) + 1 /\ Len(chain) \in Nat
          /\ \A i \in 1 .. Len(chain) : chain'[i] = chain[i]
      BY <1>0, <3>0, <3>1, AppendFacts, PointerFacts
    <3>3. Linked \subseteq Linked'
      BY <3>2 DEF Linked
    <3> QED BY <1>0, <2>1, <3>1, <3>3 DEF InsertFirst, InsertLast
  <2>2. CASE chain' = chain
    <3>1. Linked' = Linked
      BY <2>2 DEF Linked
    <3> QED
      BY <1>0, <1>2, <2>1, <3>1 DEF Producer, InsertAlloc, InsertNoMemory,
         InsertLock, InsertMoveTail, InsertUnlock, list
  <2> QED
    BY <1>2, <2>1, <2>2 DEF Producer, InsertAlloc, InsertNoMemory,
       InsertLock, InsertMoveTail, InsertUnlock, list
<1>3. ASSUME NEW c \in Consumers, Consumer(c)
      PROVE  /\ UNCHANGED <<got, fault, head, chain>>
             /\ \A r \in Readers : pc'[r] = pc[r] /\ dummy'[r] = dummy[r]
  <2>1. CASE RemoveUnlink(c)
    <3>1. got'[c] = Append(got[c], out[c]) /\ out[c] \in Readings
      BY <1>0, <2>1, TakingFacts DEF RemoveUnlink
    <3>2. got'[c] # <<>>
      BY <1>0, <3>1, AppendFacts
    <3> QED BY <3>2 DEF NoRemoval
  <2> QED
    BY <1>0, <1>3, <2>1 DEF Consumer, RemoveLock, RemoveNoData, RemoveCopy,
       RemoveFree, RemoveUnlock, list
<1> QED
  BY <1>1, <1>2, <1>3 DEF NoRemoval, Linked

LEMMA ReaderStep == IInv /\ ReaderInv /\ [Next]_vars => ReaderInv'
<1> SUFFICES ASSUME IInv, ReaderInv, [Next]_vars PROVE ReaderInv'
  OBVIOUS
<1> USE SBufferAssumption DEF Goto, Threads
<1>0. /\ pc \in [Threads -> PCs] /\ dummy \in [Threads -> Nodes \cup {NULL}]
      /\ Control
  BY DEF IInv, TypeOK
<1>1. ASSUME NEW s \in Readers, Reader(s) PROVE ReaderInv'
  <2>1. UNCHANGED <<head, got, live, chain>>
    BY <1>1 DEF Reader, GetLock, GetNoData, GetTest, GetLoad, GetCopy,
                GetUnlock, list
  <2>2. Linked' = Linked /\ NoRemoval' = NoRemoval
    BY <2>1 DEF Linked, NoRemoval
  <2>3. CASE GetTest(s)
    BY <1>0, <2>1, <2>2, <2>3 DEF ReaderInv, GetTest
  <2>4. CASE GetLoad(s)
    <3>1. head # NULL => head \in Linked
      BY PointerFacts
    <3> QED BY <1>0, <2>1, <2>2, <2>4, <3>1 DEF ReaderInv, GetLoad
  <2>5. CASE GetCopy(s)
    <3>1. Linked \subseteq live
      BY PointerFacts
    <3> QED BY <1>0, <2>1, <2>2, <2>5, <3>1 DEF ReaderInv, GetCopy
  <2> QED
    BY <1>0, <1>1, <2>1, <2>2, <2>3, <2>4, <2>5
       DEF ReaderInv, Reader, GetLock, GetNoData, GetUnlock
<1>2. CASE \/ \E p \in Producers : Producer(p)
           \/ \E c \in Consumers : Consumer(c)
           \/ Owner
  <2>1. CASE NoRemoval'
    BY <1>2, <2>1, KeptByOthers DEF ReaderInv
  <2>2. CASE ~NoRemoval'
    BY <2>2 DEF ReaderInv
  <2> QED BY <2>1, <2>2
<1>3. ASSUME NEW t \in Threads, Retire(t) PROVE ReaderInv'
  BY <1>0, <1>3 DEF Retire, ReaderInv, NoRemoval, Linked, list
<1>4. CASE UNCHANGED vars
  BY <1>4 DEF vars, ReaderInv, NoRemoval, Linked
<1> QED
  BY <1>1, <1>2, <1>3, <1>4 DEF Next

\* No interleaving with insertions alone makes sbuffer_get_data read through
\* a null or freed pointer, although it takes the wrong mutex.
THEOREM ReadersSafeFromInsertions == Spec => []ReaderFaultNeedsRemoval
<1>1. Init => ReaderInv
  BY SBufferAssumption DEF Init, ReaderInv, Threads
<1>2. ReaderInv => ReaderFaultNeedsRemoval
  BY DEF ReaderInv, NoRemoval, ReaderFaultNeedsRemoval
<1> QED
  BY Invariance, ReaderStep, <1>1, <1>2, PTL DEF Spec

=============================================================================
