---------------------------- MODULE DPListProofs ----------------------------
(* Proofs about module DPList, for any number of nodes and any elements.     *)
EXTENDS DPList, Facts

\* A list of nodes that is well formed, seen through its chain.
LEMMA ChainFacts ==
  ASSUME TypeOK, ListShape
  PROVE  /\ chain \in Seq(Nodes) /\ Len(chain) \in Nat
         /\ \A k \in 1 .. Len(chain) : chain[k] \in Nodes /\ chain[k] # NULL
         /\ \A k : Neighbour(k) \in Nodes \cup {NULL}
         /\ size = Len(chain)
         /\ Listed \in Seq(Elements) /\ Len(Listed) = Len(chain)
         /\ \A k \in 1 .. Len(chain) : Listed[k] = element[chain[k]]
<1>1. /\ chain \in Seq(Nodes) /\ Len(chain) \in Nat
      /\ \A k \in 1 .. Len(chain) : chain[k] \in Nodes /\ chain[k] # NULL
  BY SeqFacts, DPListAssumption DEF TypeOK
<1>2. \A k \in 1 .. Len(chain) : element[chain[k]] \in Elements
  BY DEF ListShape
<1>3. /\ Listed \in Seq(Elements) /\ Len(Listed) = Len(chain)
      /\ \A k \in 1 .. Len(chain) : Listed[k] = element[chain[k]]
  BY <1>1, <1>2 DEF Listed
<1> QED BY <1>1, <1>3 DEF Neighbour, ListShape

-----------------------------------------------------------------------------
(* Walking along next *)

\* The loop "for i" in dpl_get_reference_at_index comes to the node at i.
LEMMA FollowFacts ==
  ASSUME TypeOK, ListShape, NEW i \in 0 .. Len(chain) - 1
  PROVE  Follow(i) = chain[i + 1]
<1> DEFINE at == CHOOSE f : f = [k \in 0 .. i |->
                                  IF k = 0 THEN head ELSE next[f[k - 1]]]
           g == [k \in 0 .. i |-> chain[k + 1]]
           S == {k \in Nat : k <= i => at[k] = chain[k + 1]}
<1>1. Len(chain) \in Nat /\ i \in Nat
  BY ChainFacts
<1>2. /\ head = chain[1]
      /\ \A k \in 1 .. Len(chain) - 1 : next[chain[k]] = chain[k + 1]
  BY <1>1 DEF ListShape, Neighbour
<1>3. g = [k \in 0 .. i |-> IF k = 0 THEN head ELSE next[g[k - 1]]]
  <2>1. ASSUME NEW k \in 0 .. i
        PROVE  g[k] = IF k = 0 THEN head ELSE next[g[k - 1]]
    <3>1. CASE k = 0
      BY <1>1, <1>2, <3>1
    <3>2. CASE k # 0
      <4>1. k \in 1 .. Len(chain) - 1 /\ k - 1 \in 0 .. i /\ (k - 1) + 1 = k
        BY <1>1, <3>2
      <4>2. g[k - 1] = chain[k] /\ g[k] = chain[k + 1]
        BY <4>1
      <4> HIDE DEF g
      <4> QED BY <1>2, <3>2, <4>1, <4>2
    <3> QED BY <3>1, <3>2
  <2> QED BY <2>1
<1>4. at = [k \in 0 .. i |-> IF k = 0 THEN head ELSE next[at[k - 1]]]
  <2> HIDE DEF g
  <2> QED BY <1>3
<1> HIDE DEF at, g
<1>5. at[0] = head /\ \A k \in 1 .. i : at[k] = next[at[k - 1]]
  BY <1>1, <1>4
<1>6. 0 \in S
  BY <1>2, <1>5
<1>7. ASSUME NEW k \in Nat, k \in S PROVE k + 1 \in S
  <2> SUFFICES ASSUME k + 1 <= i PROVE at[k + 1] = chain[(k + 1) + 1]
    OBVIOUS
  <2>1. at[k] = chain[k + 1] /\ k + 1 \in 1 .. i /\ (k + 1) - 1 = k
    BY <1>1, <1>7
  <2>2. at[k + 1] = next[at[k]]
    BY <1>5, <2>1
  <2> QED BY <1>1, <1>2, <2>1, <2>2
<1>8. Nat \subseteq S
  <2> HIDE DEF S
  <2> QED BY <1>6, <1>7, SetInduction
<1>9. at[i] = chain[i + 1]
  BY <1>1, <1>8
<1> QED BY <1>9 DEF Follow, at

\* The loop from the head to null passes every node.
LEMMA PlacesFacts ==
  ASSUME TypeOK, ListShape
  PROVE  Places = 0 .. Len(chain) - 1
<1>1. Len(chain) \in Nat /\ size = Len(chain)
  BY ChainFacts
<1>2. ASSUME NEW i \in 0 .. Len(chain) - 1, NEW k \in 0 .. i
      PROVE  Follow(k) # NULL
  <2>1. k \in 0 .. Len(chain) - 1 /\ k + 1 \in 1 .. Len(chain)
    BY <1>1
  <2> QED BY <2>1, FollowFacts, ChainFacts
<1> QED BY <1>1, <1>2 DEF Places

\* The search of a place gives the first one, or -1.
LEMMA FirstFacts ==
  ASSUME NEW found \in SUBSET Nat
  PROVE  \/ found = {} /\ First(found) = -1
         \/ /\ First(found) \in found
            /\ \A j \in found : First(found) <= j
<1>1. found # {} => \E i \in found : \A j \in found : i <= j
  BY LeastNumber
<1> QED BY <1>1 DEF First

\* dpl_get_reference_at_index, for every index.
LEMMA ReferenceFacts ==
  ASSUME TypeOK, ListShape, NEW i \in Int
  PROVE  dpl_get_reference_at_index(i) =
           IF Len(chain) = 0 THEN NULL
           ELSE IF i <= 0 THEN chain[1]
           ELSE IF i >= Len(chain) THEN chain[Len(chain)]
           ELSE chain[i + 1]
<1>1. Len(chain) \in Nat /\ size = Len(chain)
  BY ChainFacts
<1>2. Len(chain) # 0 => head = chain[1] /\ tail = chain[Len(chain)]
  BY <1>1 DEF ListShape, Neighbour
<1>3. i > 0 /\ i < Len(chain) => Follow(i) = chain[i + 1]
  BY <1>1, FollowFacts
<1> QED BY <1>1, <1>2, <1>3 DEF dpl_get_reference_at_index

\* dpl_get_reference_of_element: a node of the list that holds x, or null.
LEMMA SearchFacts ==
  ASSUME TypeOK, ListShape, NEW x \in Elements
  PROVE  \/ /\ dpl_get_reference_of_element(x) = NULL
            /\ dpl_get_index_of_element(x) = -1
            /\ \A k \in 1 .. Len(chain) : Listed[k] # x
         \/ \E k \in 1 .. Len(chain) :
              /\ dpl_get_reference_of_element(x) = chain[k]
              /\ dpl_get_index_of_element(x) = k - 1
              /\ Listed[k] = x
              /\ \A j \in 1 .. k - 1 : Listed[j] # x
<1> DEFINE found == {i \in Places : element[Follow(i)] = x}
           i0 == dpl_get_index_of_element(x)
<1>1. found = {i \in 0 .. Len(chain) - 1 : Listed[i + 1] = x}
  BY PlacesFacts, FollowFacts, ChainFacts
<1>2. Len(chain) \in Nat /\ found \in SUBSET Nat
  BY <1>1, ChainFacts
<1>3. i0 = First(found)
  BY DEF dpl_get_index_of_element
<1>4. dpl_get_reference_of_element(x) = IF i0 = -1 THEN NULL ELSE Follow(i0)
  BY DEF dpl_get_reference_of_element
<1> HIDE DEF found, i0
<1>5. CASE found = {}
  <2>1. i0 = -1
    BY <1>2, <1>3, <1>5, FirstFacts
  <2>2. ASSUME NEW k \in 1 .. Len(chain) PROVE Listed[k] # x
    <3>1. k - 1 \in 0 .. Len(chain) - 1 /\ (k - 1) + 1 = k
      BY <1>2
    <3> QED BY <1>1, <1>5, <3>1
  <2> QED BY <1>4, <2>1, <2>2 DEF i0
<1>6. CASE found # {}
  <2>1. i0 \in found /\ \A j \in found : i0 <= j
    BY <1>2, <1>3, <1>6, FirstFacts
  <2>2. i0 + 1 \in 1 .. Len(chain) /\ Listed[i0 + 1] = x /\ i0 \in 0 .. Len(chain) - 1
    BY <1>1, <1>2, <2>1
  <2>3. dpl_get_reference_of_element(x) = chain[i0 + 1]
    BY <1>4, <2>2, FollowFacts
  <2>4. ASSUME NEW j \in 1 .. (i0 + 1) - 1 PROVE Listed[j] # x
    <3>1. j - 1 \in 0 .. Len(chain) - 1 /\ (j - 1) + 1 = j /\ ~(i0 <= j - 1)
      BY <1>2, <2>2
    <3> QED BY <1>1, <2>1, <3>1
  <2>5. i0 = (i0 + 1) - 1
    BY <2>2
  <2> QED BY <2>2, <2>3, <2>4, <2>5 DEF i0
<1> QED BY <1>5, <1>6

-----------------------------------------------------------------------------
(* What a step does to the list, pointer by pointer *)

\* A new node n with element x is put in at place p.
InsertsAt(p, n, x) ==
  /\ n \notin live
  /\ chain' \in Seq(Nodes) /\ Len(chain') = Len(chain) + 1
  /\ \A i \in 1 .. Len(chain) + 1 :
       chain'[i] = IF i < p THEN chain[i] ELSE IF i = p THEN n ELSE chain[i - 1]
  /\ next' \in [Nodes -> Nodes \cup {NULL}]
  /\ prev' \in [Nodes -> Nodes \cup {NULL}]
  /\ \A m \in Nodes :
       /\ next'[m] = IF m = n THEN Neighbour(p)
                     ELSE IF m = Neighbour(p - 1) THEN n ELSE next[m]
       /\ prev'[m] = IF m = n THEN Neighbour(p - 1)
                     ELSE IF m = Neighbour(p) THEN n ELSE prev[m]
  /\ head' = IF p = 1 THEN n ELSE head
  /\ tail' = IF p = Len(chain) + 1 THEN n ELSE tail
  /\ size' = size + 1
  /\ live' = live \cup {n}
  /\ element' = [element EXCEPT ![n] = x]
  /\ UNCHANGED <<ref, sort, fault>>

\* The node at place p is taken out.
RemovesAt(p) ==
  /\ chain' \in Seq(Nodes) /\ Len(chain') = Len(chain) - 1
  /\ \A i \in 1 .. Len(chain) - 1 :
       chain'[i] = IF i < p THEN chain[i] ELSE chain[i + 1]
  /\ next' \in [Nodes -> Nodes \cup {NULL}]
  /\ prev' \in [Nodes -> Nodes \cup {NULL}]
  /\ \A m \in Nodes :
       /\ next'[m] = IF m = chain[p] THEN NULL
                     ELSE IF m = Neighbour(p - 1) THEN Neighbour(p + 1) ELSE next[m]
       /\ prev'[m] = IF m = chain[p] THEN NULL
                     ELSE IF m = Neighbour(p + 1) THEN Neighbour(p - 1) ELSE prev[m]
  /\ head' = IF p = 1 THEN Neighbour(2) ELSE head
  /\ tail' = IF p = Len(chain) THEN Neighbour(p - 1) ELSE tail
  /\ size' = size - 1
  /\ live' = live \ {chain[p]}
  /\ element' = [element EXCEPT ![chain[p]] = NULL]
  /\ UNCHANGED <<ref, sort, fault>>

\* All nodes are freed.
Clears ==
  /\ head' = NULL /\ tail' = NULL /\ size' = 0 /\ live' = {} /\ chain' = <<>>
  /\ next' = [n \in Nodes |-> NULL]
  /\ prev' = [n \in Nodes |-> NULL]
  /\ element' = [n \in Nodes |-> NULL]
  /\ UNCHANGED <<ref, sort, fault>>

\* Only references move, or the process ends.
KeepsList ==
  /\ UNCHANGED <<head, tail, size, next, prev, live, element, chain>>
  /\ ref' \in Nodes \cup {NULL}
  /\ fault' \in {"none", "null_in_remove", "null_in_sort", "use_after_free"}

LEMMA LinkFirstInserts ==
  ASSUME TypeOK, ListShape, NEW n, NEW x \in Elements,
         Malloc(n, x), LinkFirst(n), UNCHANGED <<ref, sort, fault>>
  PROVE  InsertsAt(1, n, x)
<1>1. n \in Nodes /\ n \notin live /\ n # NULL
  BY DPListAssumption DEF Malloc
<1>2. /\ head = Neighbour(1) /\ (head = NULL <=> Len(chain) = 0)
      /\ Neighbour(0) = NULL
  <2>1. Len(chain) # 0 => chain[1] # NULL
    BY ChainFacts
  <2> QED BY <2>1, ChainFacts DEF ListShape, Neighbour
<1>3. /\ chain' \in Seq(Nodes) /\ Len(chain') = Len(chain) + 1
      /\ \A i \in 1 .. Len(chain) + 1 :
           chain'[i] = IF i < 1 THEN chain[i] ELSE IF i = 1 THEN n ELSE chain[i - 1]
  <2> DEFINE c == <<n>> \o chain
  <2>1. <<n>> \in Seq(Nodes) /\ Len(<<n>>) = 1 /\ <<n>>[1] = n
    BY <1>1
  <2>2. /\ c \in Seq(Nodes) /\ Len(c) = 1 + Len(chain)
        /\ \A i \in 1 .. 1 + Len(chain) : c[i] = IF i <= 1 THEN n ELSE chain[i - 1]
    BY <2>1, ChainFacts, ConcatProperties
  <2>3. chain' = c
    BY DEF LinkFirst
  <2> HIDE DEF c
  <2> QED BY <2>2, <2>3, ChainFacts
<1>4. /\ next \in [Nodes -> Nodes \cup {NULL}] /\ prev \in [Nodes -> Nodes \cup {NULL}]
      /\ head \in Nodes \cup {NULL}
  BY DEF TypeOK
<1>5. /\ next' = [next EXCEPT ![n] = head]
      /\ prev' = IF head = NULL THEN [prev EXCEPT ![n] = NULL]
                 ELSE [[prev EXCEPT ![n] = NULL] EXCEPT ![head] = n]
      /\ tail' = IF head = NULL THEN n ELSE tail
      /\ head' = n
  BY DEF LinkFirst, Set
<1>6. head # n
  BY <1>1, <1>2 DEF ListShape, Neighbour
<1>7. /\ size' = size + 1 /\ live' = live \cup {n}
      /\ element' = [element EXCEPT ![n] = x]
  BY DEF Malloc
<1>8. /\ next' \in [Nodes -> Nodes \cup {NULL}]
      /\ prev' \in [Nodes -> Nodes \cup {NULL}]
  BY <1>1, <1>4, <1>5
<1>9. ASSUME NEW m \in Nodes
      PROVE  /\ next'[m] = IF m = n THEN Neighbour(1)
                           ELSE IF m = Neighbour(1 - 1) THEN n ELSE next[m]
             /\ prev'[m] = IF m = n THEN Neighbour(1 - 1)
                           ELSE IF m = Neighbour(1) THEN n ELSE prev[m]
  <2>1. m # NULL
    BY DPListAssumption
  <2> QED BY <1>1, <1>2, <1>4, <1>5, <1>6, <2>1
<1>10. tail' = IF 1 = Len(chain) + 1 THEN n ELSE tail
  BY <1>2, <1>5, ChainFacts
<1> QED BY <1>1, <1>3, <1>5, <1>7, <1>8, <1>9, <1>10 DEF InsertsAt

LEMMA LinkLastInserts ==
  ASSUME TypeOK, ListShape, NEW n, NEW x \in Elements,
         Malloc(n, x), LinkLast(n), UNCHANGED <<ref, sort, fault>>
  PROVE  InsertsAt(Len(chain) + 1, n, x)
<1> DEFINE p == Len(chain) + 1
<1>1. n \in Nodes /\ n \notin live /\ n # NULL
  BY DPListAssumption DEF Malloc
<1>2. /\ tail = Neighbour(p - 1) /\ (tail = NULL <=> Len(chain) = 0)
      /\ Neighbour(p) = NULL /\ p \in Nat
  BY ChainFacts DEF ListShape, Neighbour
<1>3. /\ chain' \in Seq(Nodes) /\ Len(chain') = Len(chain) + 1
      /\ \A i \in 1 .. Len(chain) + 1 :
           chain'[i] = IF i < p THEN chain[i] ELSE IF i = p THEN n ELSE chain[i - 1]
  <2>1. chain' = Append(chain, n)
    BY DEF LinkLast
  <2> QED BY <1>1, <2>1, AppendFacts, ChainFacts
<1>4. /\ next \in [Nodes -> Nodes \cup {NULL}] /\ prev \in [Nodes -> Nodes \cup {NULL}]
      /\ tail \in Nodes \cup {NULL}
  BY DEF TypeOK
<1>5. /\ prev' = [prev EXCEPT ![n] = tail]
      /\ next' = IF tail = NULL THEN [next EXCEPT ![n] = NULL]
                 ELSE [[next EXCEPT ![n] = NULL] EXCEPT ![tail] = n]
      /\ head' = IF tail = NULL THEN n ELSE head
      /\ tail' = n
  BY DEF LinkLast, Set
<1>6. tail # n
  BY <1>1, <1>2 DEF ListShape, Neighbour
<1>7. /\ size' = size + 1 /\ live' = live \cup {n}
      /\ element' = [element EXCEPT ![n] = x]
  BY DEF Malloc
<1>8. /\ next' \in [Nodes -> Nodes \cup {NULL}]
      /\ prev' \in [Nodes -> Nodes \cup {NULL}]
  BY <1>1, <1>4, <1>5
<1>9. ASSUME NEW m \in Nodes
      PROVE  /\ next'[m] = IF m = n THEN Neighbour(p)
                           ELSE IF m = Neighbour(p - 1) THEN n ELSE next[m]
             /\ prev'[m] = IF m = n THEN Neighbour(p - 1)
                           ELSE IF m = Neighbour(p) THEN n ELSE prev[m]
  <2>1. m # NULL
    BY DPListAssumption
  <2> HIDE DEF p
  <2> QED BY <1>1, <1>2, <1>4, <1>5, <1>6, <2>1
<1>10. head' = IF p = 1 THEN n ELSE head
  BY <1>2, <1>5, ChainFacts
<1> QED BY <1>1, <1>3, <1>5, <1>7, <1>8, <1>9, <1>10 DEF InsertsAt

\* Behind the node r at place q.
LEMMA LinkAfterInserts ==
  ASSUME TypeOK, ListShape, NEW n, NEW x \in Elements,
         NEW q \in 1 .. Len(chain),
         Malloc(n, x), LinkAfter(n, chain[q]), UNCHANGED <<ref, sort, fault>>
  PROVE  InsertsAt(q + 1, n, x)
<1> DEFINE r == chain[q]
           p == q + 1
<1>1. n \in Nodes /\ n \notin live /\ n # NULL
  BY DPListAssumption DEF Malloc
<1>2. /\ q \in Nat /\ p \in 1 .. Len(chain) + 1 /\ p - 1 = q /\ Len(chain) \in Nat
      /\ r \in Nodes /\ r \in live /\ next[r] = Neighbour(p) /\ Neighbour(p - 1) = r
      /\ (next[r] = NULL <=> p = Len(chain) + 1)
  BY ChainFacts DEF ListShape, Neighbour
<1>3. PlaceOf(r) = q
  <2>1. \A k \in 1 .. Len(chain) : chain[k] = r => k = q
    BY DEF ListShape
  <2> QED BY <2>1 DEF PlaceOf
<1>4. /\ chain' \in Seq(Nodes) /\ Len(chain') = Len(chain) + 1
      /\ \A i \in 1 .. Len(chain) + 1 :
           chain'[i] = IF i < p THEN chain[i] ELSE IF i = p THEN n ELSE chain[i - 1]
  <2>1. chain' = InsertAt(chain, p, n)
    BY <1>3 DEF LinkAfter
  <2>2. chain \in Seq(Nodes)
    BY ChainFacts
  <2>3. /\ InsertAt(chain, p, n) \in Seq(Nodes)
        /\ Len(InsertAt(chain, p, n)) = Len(chain) + 1
        /\ \A i \in 1 .. Len(chain) + 1 :
             InsertAt(chain, p, n)[i] =
               IF i < p THEN chain[i] ELSE IF i = p THEN n ELSE chain[i - 1]
    <3>1. p \in 1 .. Len(chain) + 1 /\ n \in Nodes
      BY <1>1, <1>2
    <3> HIDE DEF p, r
    <3> QED BY ONLY <3>1, <2>2, InsertAtFacts
  <2> HIDE DEF p, r
  <2> QED BY <2>1, <2>3
<1>5. /\ next \in [Nodes -> Nodes \cup {NULL}] /\ prev \in [Nodes -> Nodes \cup {NULL}]
      /\ next[r] \in Nodes \cup {NULL}
  BY <1>2 DEF TypeOK
<1>6. /\ prev' = IF next[r] = NULL THEN [prev EXCEPT ![n] = r]
                 ELSE [[prev EXCEPT ![n] = r] EXCEPT ![next[r]] = n]
      /\ next' = [next EXCEPT ![n] = next[r], ![r] = n]
      /\ tail' = IF next[r] = NULL THEN n ELSE tail
      /\ head' = head
  BY DEF LinkAfter, Set
<1>7. r # n /\ next[r] # n
  BY <1>1, <1>2 DEF ListShape, Neighbour
<1>8. /\ size' = size + 1 /\ live' = live \cup {n}
      /\ element' = [element EXCEPT ![n] = x]
  BY DEF Malloc
<1> HIDE DEF r, p
<1>9. /\ next' \in [Nodes -> Nodes \cup {NULL}]
      /\ prev' \in [Nodes -> Nodes \cup {NULL}]
  BY <1>1, <1>2, <1>5, <1>6
<1>10. ASSUME NEW m \in Nodes
      PROVE  /\ next'[m] = IF m = n THEN Neighbour(p)
                           ELSE IF m = Neighbour(p - 1) THEN n ELSE next[m]
             /\ prev'[m] = IF m = n THEN Neighbour(p - 1)
                           ELSE IF m = Neighbour(p) THEN n ELSE prev[m]
  <2>1. m # NULL
    BY DPListAssumption
  <2> QED BY <1>1, <1>2, <1>5, <1>6, <1>7, <2>1
<1>11. /\ head' = IF p = 1 THEN n ELSE head
       /\ tail' = IF p = Len(chain) + 1 THEN n ELSE tail
  BY <1>2, <1>6 DEF p
<1>12. InsertsAt(p, n, x)
  BY <1>1, <1>4, <1>8, <1>9, <1>10, <1>11 DEF InsertsAt
<1> QED BY <1>12 DEF p

\* A removal, by what it does to the fields around the node at place p.
LEMMA RemovalFacts ==
  ASSUME TypeOK, ListShape, NEW p \in 1 .. Len(chain),
         chain' = RemoveAt(chain, p), Free(chain[p]),
         next' = Forget(Set(next, Neighbour(p - 1), Neighbour(p + 1)), chain[p]),
         prev' = Forget(Set(prev, Neighbour(p + 1), Neighbour(p - 1)), chain[p]),
         head' = IF p = 1 THEN Neighbour(2) ELSE head,
         tail' = IF p = Len(chain) THEN Neighbour(p - 1) ELSE tail,
         UNCHANGED <<ref, sort, fault>>
  PROVE  RemovesAt(p)
<1> DEFINE r == chain[p]
           before == Neighbour(p - 1)
           after == Neighbour(p + 1)
<1>1. /\ chain \in Seq(Nodes) /\ r \in Nodes
      /\ before \in Nodes \cup {NULL} /\ after \in Nodes \cup {NULL}
  BY ChainFacts
<1>2. /\ chain' \in Seq(Nodes) /\ Len(chain') = Len(chain) - 1
      /\ \A i \in 1 .. Len(chain) - 1 :
           chain'[i] = IF i < p THEN chain[i] ELSE chain[i + 1]
  BY <1>1, RemoveAtFacts
<1>3. next \in [Nodes -> Nodes \cup {NULL}] /\ prev \in [Nodes -> Nodes \cup {NULL}]
  BY DEF TypeOK
<1>4. /\ next' = [(IF before = NULL THEN next ELSE [next EXCEPT ![before] = after])
                    EXCEPT ![r] = NULL]
      /\ prev' = [(IF after = NULL THEN prev ELSE [prev EXCEPT ![after] = before])
                    EXCEPT ![r] = NULL]
  BY DEF Forget, Set
<1>5. /\ size' = size - 1 /\ live' = live \ {r}
      /\ element' = [element EXCEPT ![r] = NULL]
  BY DEF Free
<1> HIDE DEF r, before, after
<1>6. /\ next' \in [Nodes -> Nodes \cup {NULL}]
      /\ prev' \in [Nodes -> Nodes \cup {NULL}]
  BY <1>1, <1>3, <1>4
<1>7. ASSUME NEW m \in Nodes
      PROVE  /\ next'[m] = IF m = r THEN NULL ELSE IF m = before THEN after ELSE next[m]
             /\ prev'[m] = IF m = r THEN NULL ELSE IF m = after THEN before ELSE prev[m]
  <2>1. m # NULL
    BY DPListAssumption
  <2> QED BY <1>1, <1>3, <1>4, <2>1
<1> QED BY <1>2, <1>5, <1>6, <1>7 DEF RemovesAt, r, before, after

LEMMA UnlinkFirstRemoves ==
  ASSUME TypeOK, ListShape, Len(chain) > 0,
         UnlinkFirst, UNCHANGED <<ref, sort, fault>>
  PROVE  RemovesAt(1)
<1>1. /\ 1 \in 1 .. Len(chain) /\ Len(chain) \in Nat
      /\ chain \in Seq(Nodes) /\ head = chain[1] /\ head = Neighbour(1)
      /\ Neighbour(1 - 1) = NULL
  BY ChainFacts DEF ListShape, Neighbour
<1>2. next[head] = Neighbour(1 + 1) /\ Neighbour(1 + 1) = Neighbour(2)
  <2>1. \A k \in 1 .. Len(chain) : next[chain[k]] = Neighbour(k + 1)
    BY DEF ListShape
  <2>2. next[chain[1]] = Neighbour(1 + 1)
    BY <1>1, <2>1
  <2> QED BY <1>1, <2>2
<1>3. Neighbour(2) = NULL <=> 1 = Len(chain)
  <2>1. Len(chain) \in Nat /\ Len(chain) # 0
    BY <1>1
  <2>2. \A n \in Nat : n # 0 /\ n # 1 => 2 \in 1 .. n
    OBVIOUS
  <2> QED BY <1>1, <2>1, <2>2, ChainFacts DEF Neighbour
<1>4. chain' = RemoveAt(chain, 1)
  <2>1. /\ Tail(chain) \in Seq(Nodes) /\ Len(Tail(chain)) = Len(chain) - 1
        /\ \A i \in 1 .. Len(chain) - 1 : Tail(chain)[i] = chain[i + 1]
    BY <1>1, TailFacts, SeqFacts
  <2>2. /\ RemoveAt(chain, 1) \in Seq(Nodes) /\ Len(RemoveAt(chain, 1)) = Len(chain) - 1
        /\ \A i \in 1 .. Len(chain) - 1 :
             RemoveAt(chain, 1)[i] = IF i < 1 THEN chain[i] ELSE chain[i + 1]
    BY <1>1, RemoveAtFacts
  <2>3. Tail(chain) = RemoveAt(chain, 1)
    <3>1. \A i \in 1 .. Len(chain) - 1 : Tail(chain)[i] = RemoveAt(chain, 1)[i]
      BY <2>1, <2>2
    <3> QED BY <2>1, <2>2, <3>1, SameSeq
  <2> QED BY <2>3 DEF UnlinkFirst
<1>5. /\ Free(chain[1])
      /\ next' = Forget(Set(next, Neighbour(1 - 1), Neighbour(1 + 1)), chain[1])
      /\ prev' = Forget(Set(prev, Neighbour(1 + 1), Neighbour(1 - 1)), chain[1])
      /\ head' = IF 1 = 1 THEN Neighbour(2) ELSE head
      /\ tail' = IF 1 = Len(chain) THEN Neighbour(1 - 1) ELSE tail
  BY <1>1, <1>2, <1>3 DEF UnlinkFirst, Set
<1> QED BY <1>1, <1>4, <1>5, RemovalFacts

LEMMA UnlinkLastRemoves ==
  ASSUME TypeOK, ListShape, Len(chain) > 0,
         UnlinkLast, UNCHANGED <<ref, sort, fault>>
  PROVE  RemovesAt(Len(chain))
<1> DEFINE p == Len(chain)
<1>1. /\ p \in 1 .. Len(chain) /\ p \in Nat
      /\ chain \in Seq(Nodes) /\ tail = chain[p]
      /\ Neighbour(p + 1) = NULL
  BY ChainFacts DEF ListShape, Neighbour
<1>2. prev[tail] = Neighbour(p - 1) /\ head = Neighbour(1)
  BY <1>1 DEF ListShape
<1>3. Neighbour(p - 1) = NULL <=> p = 1
  <2>1. p # 1 => p - 1 \in 1 .. Len(chain)
    <3>1. \A n \in Nat : n # 0 /\ n # 1 => n - 1 \in 1 .. n
      OBVIOUS
    <3>2. p # 0 /\ Len(chain) = p
      BY <1>1
    <3> HIDE DEF p
    <3> QED BY <1>1, <3>1, <3>2
  <2> QED BY <1>1, <2>1, ChainFacts DEF Neighbour
<1>4. chain' = RemoveAt(chain, p)
  <2>1. /\ Front(chain) \in Seq(Nodes) /\ Len(Front(chain)) = p - 1
        /\ \A i \in 1 .. p - 1 : Front(chain)[i] = chain[i]
    <3>1. \A i \in 1 .. p - 1 : chain[i] \in Nodes
      BY <1>1, SeqFacts
    <3>2. /\ SubSeq(chain, 1, p - 1) \in Seq(Nodes)
          /\ Len(SubSeq(chain, 1, p - 1)) = p - 1
          /\ \A i \in 1 .. p - 1 : SubSeq(chain, 1, p - 1)[i] = chain[i]
      <4> HIDE DEF p
      <4> QED BY <1>1, <3>1, SubSeqProperties
    <3> QED BY <3>2 DEF Front
  <2>2. /\ RemoveAt(chain, p) \in Seq(Nodes) /\ Len(RemoveAt(chain, p)) = p - 1
        /\ \A i \in 1 .. p - 1 :
             RemoveAt(chain, p)[i] = IF i < p THEN chain[i] ELSE chain[i + 1]
    BY <1>1, RemoveAtFacts
  <2>3. Front(chain) = RemoveAt(chain, p)
    <3>1. \A i \in 1 .. p - 1 : Front(chain)[i] = RemoveAt(chain, p)[i]
      BY <1>1, <2>1, <2>2
    <3> QED BY <2>1, <2>2, <3>1, SameSeq
  <2> QED BY <2>3 DEF UnlinkLast
<1>5. Neighbour(p - 1) = NULL => Neighbour(2) = NULL
  BY <1>1, <1>3 DEF Neighbour
<1>6. /\ Free(chain[p])
      /\ next' = Forget(Set(next, Neighbour(p - 1), Neighbour(p + 1)), chain[p])
      /\ prev' = Forget(Set(prev, Neighbour(p + 1), Neighbour(p - 1)), chain[p])
      /\ head' = IF p = 1 THEN Neighbour(2) ELSE head
      /\ tail' = IF p = Len(chain) THEN Neighbour(p - 1) ELSE tail
  <2> HIDE DEF p
  <2> QED BY <1>1, <1>2, <1>3, <1>5 DEF UnlinkLast, Set, p
<1> QED BY <1>1, <1>4, <1>6, RemovalFacts

LEMMA UnlinkRemoves ==
  ASSUME TypeOK, ListShape, NEW p \in 1 .. Len(chain),
         Unlink(chain[p]), UNCHANGED <<ref, sort, fault>>
  PROVE  RemovesAt(p)
<1> DEFINE r == chain[p]
<1>1. /\ p \in Nat /\ Len(chain) \in Nat /\ chain \in Seq(Nodes)
      /\ next[r] = Neighbour(p + 1) /\ prev[r] = Neighbour(p - 1)
  BY ChainFacts DEF ListShape
<1>2. \A k \in 1 .. Len(chain) : chain[k] = r => k = p
  BY DEF ListShape
<1>3. PlaceOf(r) = p
  BY <1>2 DEF PlaceOf
<1>4. /\ r = head <=> p = 1
      /\ r = tail <=> p = Len(chain)
  BY <1>1, <1>2 DEF ListShape, Neighbour
<1>5. p = 1 => Neighbour(p + 1) = Neighbour(2)
  OBVIOUS
<1>6. /\ chain' = RemoveAt(chain, p) /\ Free(chain[p])
      /\ next' = Forget(Set(next, Neighbour(p - 1), Neighbour(p + 1)), chain[p])
      /\ prev' = Forget(Set(prev, Neighbour(p + 1), Neighbour(p - 1)), chain[p])
      /\ head' = IF p = 1 THEN Neighbour(2) ELSE head
      /\ tail' = IF p = Len(chain) THEN Neighbour(p - 1) ELSE tail
  BY <1>1, <1>3, <1>4, <1>5 DEF Unlink
<1> QED BY <1>6, RemovalFacts

-----------------------------------------------------------------------------
(* The calls *)

Inserts == \E p \in 1 .. Len(chain) + 1, n \in Nodes, x \in Elements :
             InsertsAt(p, n, x)

Removes == \E p \in 1 .. Len(chain) : RemovesAt(p)

LEMMA InsertAtIndexPlace ==
  ASSUME TypeOK, ListShape, NEW x \in Elements, NEW i \in Int,
         dpl_insert_at_index(x, i)
  PROVE  InsertPlace(i) \in 1 .. Len(chain) + 1
         /\ \E n \in Nodes : InsertsAt(InsertPlace(i), n, x)
<1>1. PICK n \in Nodes :
        /\ Malloc(n, x)
        /\ IF i <= 0 THEN LinkFirst(n)
           ELSE IF i >= size THEN LinkLast(n)
           ELSE LinkAfter(n, Follow(i - 1))
  BY DEF dpl_insert_at_index
<1>2. /\ UNCHANGED <<ref, sort, fault>>
      /\ Len(chain) \in Nat /\ size = Len(chain)
  BY ChainFacts DEF dpl_insert_at_index
<1>3. CASE i <= 0
  <2>1. InsertsAt(1, n, x)
    BY <1>1, <1>2, <1>3, LinkFirstInserts
  <2>2. InsertPlace(i) = 1 /\ 1 \in 1 .. Len(chain) + 1
    BY <1>2, <1>3 DEF InsertPlace
  <2> QED BY <2>1, <2>2
<1>4. CASE i > 0 /\ i >= size
  <2>1. InsertsAt(Len(chain) + 1, n, x)
    BY <1>1, <1>2, <1>4, LinkLastInserts
  <2>2. InsertPlace(i) = Len(chain) + 1 /\ Len(chain) + 1 \in 1 .. Len(chain) + 1
    BY <1>2, <1>4 DEF InsertPlace
  <2> QED BY <2>1, <2>2
<1>5. CASE i > 0 /\ i < size
  <2>1. Follow(i - 1) = chain[i] /\ i \in 1 .. Len(chain)
    <3>1. i - 1 \in 0 .. Len(chain) - 1 /\ (i - 1) + 1 = i /\ i \in 1 .. Len(chain)
      BY <1>2, <1>5
    <3> QED BY <3>1, FollowFacts
  <2>2. LinkAfter(n, chain[i])
    BY <1>1, <1>5, <2>1, <1>2
  <2>3. InsertsAt(i + 1, n, x)
    BY <1>1, <1>2, <2>1, <2>2, LinkAfterInserts
  <2>4. InsertPlace(i) = i + 1 /\ i + 1 \in 1 .. Len(chain) + 1
    BY <1>2, <1>5, <2>1 DEF InsertPlace
  <2> QED BY <2>3, <2>4
<1> QED BY <1>2, <1>3, <1>4, <1>5

LEMMA InsertAtIndex ==
  ASSUME TypeOK, ListShape, NEW x \in Elements, NEW i \in Int,
         dpl_insert_at_index(x, i)
  PROVE  Inserts
BY InsertAtIndexPlace DEF Inserts

\* Behind a node of the list, or in front without one.
\* Without a reference the new node comes first, with one behind its node.
LEMMA ReferencePlace ==
  ASSUME TypeOK, ListShape, NEW x \in Elements, NEW r \in live \cup {NULL},
         dpl_insert_at_reference(x, r)
  PROVE  \/ r = NULL /\ \E n \in Nodes : InsertsAt(1, n, x)
         \/ \E q \in 1 .. Len(chain), n \in Nodes : r = chain[q] /\ InsertsAt(q + 1, n, x)
<1>1. PICK n \in Nodes :
        Malloc(n, x) /\ IF r = NULL THEN LinkFirst(n) ELSE LinkAfter(n, r)
  BY DEF dpl_insert_at_reference
<1>2. UNCHANGED <<ref, sort, fault>> /\ Len(chain) \in Nat
  BY ChainFacts DEF dpl_insert_at_reference
<1>3. CASE r = NULL
  BY <1>1, <1>2, <1>3, LinkFirstInserts
<1>4. CASE r # NULL
  <2>1. PICK q \in 1 .. Len(chain) : r = chain[q]
    BY <1>4 DEF ListShape
  <2>2. InsertsAt(q + 1, n, x)
    BY <1>1, <1>2, <1>4, <2>1, LinkAfterInserts
  <2> QED BY <2>1, <2>2
<1> QED BY <1>3, <1>4

LEMMA InsertAtReference ==
  ASSUME TypeOK, ListShape, NEW x \in Elements, NEW r \in live \cup {NULL},
         dpl_insert_at_reference(x, r)
  PROVE  Inserts
<1>1. 1 \in 1 .. Len(chain) + 1 /\ \A q \in 1 .. Len(chain) : q + 1 \in 1 .. Len(chain) + 1
  <2>1. Len(chain) \in Nat
    BY ChainFacts
  <2> QED BY <2>1
<1> QED BY <1>1, ReferencePlace DEF Inserts

\* dpl_insert_sorted inserts behind a node that is not less, or in front of
\* all if there is none.
LEMMA SortedPlace ==
  ASSUME TypeOK, ListShape, NEW x \in Elements, dpl_insert_sorted(x)
  PROVE  \/ /\ \A k \in 1 .. Len(chain) : ~(Listed[k] >= x)
            /\ \E n \in Nodes : InsertsAt(1, n, x)
         \/ \E k \in 1 .. Len(chain), n \in Nodes :
              Listed[k] >= x /\ InsertsAt(k + 1, n, x)
<1> DEFINE found == {k \in Places : element[Follow(k)] >= x}
           i == First(found)
           r == IF i = -1 THEN NULL ELSE Follow(i)
<1>1. /\ Len(chain) \in Nat
      /\ found = {k \in 0 .. Len(chain) - 1 : Listed[k + 1] >= x}
      /\ \A k \in 1 .. Len(chain) : chain[k] # NULL /\ chain[k] \in live
  <2>1. /\ Len(chain) \in Nat
        /\ \A k \in 1 .. Len(chain) : chain[k] # NULL /\ Listed[k] = element[chain[k]]
    BY ChainFacts
  <2>2. \A k \in 0 .. Len(chain) - 1 : Follow(k) = chain[k + 1] /\ k + 1 \in 1 .. Len(chain)
    BY <2>1, FollowFacts
  <2>3. \A k \in 1 .. Len(chain) : chain[k] \in live
    BY DEF ListShape
  <2> QED BY <2>1, <2>2, <2>3, PlacesFacts
<1>2. dpl_insert_at_reference(x, r)
  BY DEF dpl_insert_sorted
<1>3. found \in SUBSET Nat
  BY <1>1
<1> HIDE DEF found
<1>4. CASE found = {}
  <2>1. r = NULL
    BY <1>3, <1>4, FirstFacts
  <2>2. ASSUME NEW k \in 1 .. Len(chain) PROVE ~(Listed[k] >= x)
    <3>1. k - 1 \in 0 .. Len(chain) - 1 /\ (k - 1) + 1 = k
      BY <1>1
    <3> QED BY <1>1, <1>4, <3>1
  <2> QED BY <1>1, <1>2, <2>1, <2>2, ReferencePlace
<1>5. CASE found # {}
  <2>1. i \in found
    BY <1>3, <1>5, FirstFacts
  <2> HIDE DEF i
  <2>2. /\ i \in 0 .. Len(chain) - 1 /\ i # -1 /\ i + 1 \in 1 .. Len(chain)
        /\ Listed[i + 1] >= x
    BY <1>1, <2>1
  <2>3. r = chain[i + 1] /\ r # NULL /\ r \in live
    BY <1>1, <2>2, FollowFacts
  <2> HIDE DEF r
  <2>4. PICK q \in 1 .. Len(chain), n \in Nodes : r = chain[q] /\ InsertsAt(q + 1, n, x)
    BY <1>2, <2>3, ReferencePlace
  <2>5. q = i + 1
    BY <2>2, <2>3, <2>4 DEF ListShape
  <2> QED BY <2>2, <2>4, <2>5
<1> QED BY <1>4, <1>5

LEMMA InsertSorted ==
  ASSUME TypeOK, ListShape, NEW x \in Elements, dpl_insert_sorted(x)
  PROVE  Inserts
<1>1. 1 \in 1 .. Len(chain) + 1 /\ \A q \in 1 .. Len(chain) : q + 1 \in 1 .. Len(chain) + 1
  <2>1. Len(chain) \in Nat
    BY ChainFacts
  <2> QED BY <2>1
<1> QED BY <1>1, SortedPlace DEF Inserts

LEMMA RemoveAtIndexPlace ==
  ASSUME TypeOK, ListShape, NEW i \in Int, dpl_remove_at_index(i)
  PROVE  \/ RemovePlace(i) \in 1 .. Len(chain) /\ RemovesAt(RemovePlace(i))
         \/ Crash("null_in_remove")
<1>1. /\ Len(chain) \in Nat /\ size = Len(chain) /\ Len(chain) > 0
      /\ 1 \in 1 .. Len(chain) /\ Len(chain) \in 1 .. Len(chain)
  BY ChainFacts DEF dpl_remove_at_index
<1>2. CASE i <= 0
  <2>1. RemovesAt(1)
    BY <1>1, <1>2, UnlinkFirstRemoves DEF dpl_remove_at_index
  <2>2. RemovePlace(i) = 1
    BY <1>2 DEF RemovePlace
  <2> QED BY <1>1, <2>1, <2>2
<1>3. CASE i > 0 /\ i >= size
  <2>1. RemovesAt(Len(chain))
    BY <1>1, <1>3, UnlinkLastRemoves DEF dpl_remove_at_index
  <2>2. RemovePlace(i) = Len(chain)
    BY <1>1, <1>3 DEF RemovePlace
  <2> QED BY <1>1, <2>1, <2>2
<1>4. CASE i > 0 /\ i < size
  <2>1. Follow(i) = chain[i + 1] /\ i + 1 \in 1 .. Len(chain)
    <3>1. i \in 0 .. Len(chain) - 1 /\ i + 1 \in 1 .. Len(chain)
      BY <1>1, <1>4
    <3> QED BY <3>1, FollowFacts
  <2>2. \/ Crash("null_in_remove")
        \/ Unlink(chain[i + 1]) /\ UNCHANGED <<ref, sort, fault>>
    BY <1>1, <1>4, <2>1 DEF dpl_remove_at_index
  <2>3. RemovePlace(i) = i + 1
    BY <1>1, <1>4 DEF RemovePlace
  <2>4. CASE Unlink(chain[i + 1]) /\ UNCHANGED <<ref, sort, fault>>
    <3>1. RemovesAt(i + 1)
      BY <2>1, <2>4, UnlinkRemoves
    <3> QED BY <2>1, <2>3, <3>1
  <2> QED BY <2>2, <2>4
<1> QED BY <1>1, <1>2, <1>3, <1>4

LEMMA RemoveAtIndex ==
  ASSUME TypeOK, ListShape, NEW i \in Int, dpl_remove_at_index(i)
  PROVE  Removes \/ Crash("null_in_remove")
BY RemoveAtIndexPlace DEF Removes

LEMMA RemoveAtReference ==
  ASSUME TypeOK, ListShape, NEW r \in live \cup {NULL},
         dpl_remove_at_reference(r)
  PROVE  Removes
<1>1. r # NULL /\ Unlink(r) /\ UNCHANGED <<ref, sort, fault>>
  BY DEF dpl_remove_at_reference
<1>2. PICK p \in 1 .. Len(chain) : r = chain[p]
  BY <1>1 DEF ListShape
<1> QED BY <1>1, <1>2, UnlinkRemoves DEF Removes

LEMMA FreeClears ==
  ASSUME TypeOK, ListShape, dpl_free
  PROVE  Clears
<1>1. live = {Follow(i) : i \in Places}
  <2>1. Len(chain) \in Nat /\ Places = 0 .. Len(chain) - 1
    BY ChainFacts, PlacesFacts
  <2>2. \A i \in 0 .. Len(chain) - 1 : Follow(i) = chain[i + 1]
    BY FollowFacts
  <2>3. live = {chain[k] : k \in 1 .. Len(chain)}
    BY DEF ListShape
  <2>4. ASSUME NEW k \in 1 .. Len(chain)
        PROVE  k - 1 \in 0 .. Len(chain) - 1 /\ (k - 1) + 1 = k
    BY <2>1
  <2>5. ASSUME NEW i \in 0 .. Len(chain) - 1
        PROVE  i + 1 \in 1 .. Len(chain)
    BY <2>1
  <2>6. \A n \in live : \E i \in 0 .. Len(chain) - 1 : n = Follow(i)
    BY <2>2, <2>3, <2>4
  <2>7. \A i \in 0 .. Len(chain) - 1 : Follow(i) \in live
    BY <2>2, <2>3, <2>5
  <2> QED BY <2>1, <2>6, <2>7
<1>2. live \ {Follow(i) : i \in Places} = {}
  BY <1>1
<1> QED BY <1>2 DEF dpl_free, Clears

\* A call but dpl_sort inserts one element, removes one, removes all, or
\* leaves the list as it is.
LEMMA CallStep ==
  ASSUME TypeOK, ListShape, fault = "none", Call
  PROVE  \/ Inserts \/ Removes \/ Clears
         \/ /\ KeepsList
            /\ UNCHANGED sort \/ (head # NULL /\ cursor' = head /\ swapped' = FALSE)
<1> DEFINE Goal == \/ Inserts \/ Removes \/ Clears
                   \/ /\ KeepsList
                      /\ \/ UNCHANGED sort
                         \/ head # NULL /\ cursor' = head /\ swapped' = FALSE
<1>1. \A what \in {"null_in_remove", "null_in_sort", "use_after_free"} :
        Crash(what) => KeepsList /\ UNCHANGED sort
  BY DEF Crash, KeepsList, TypeOK
<1>2. \A r \in Nodes \cup {NULL} : KeepReference(r) => KeepsList /\ UNCHANGED sort
  BY DEF KeepReference, KeepsList
<1>3. /\ Len(chain) \in Nat /\ size = Len(chain)
      /\ -1 .. size + 1 \subseteq Int /\ -1 .. size \subseteq Int
      /\ 0 \in Int /\ -1 \in Int
      /\ {head, tail, ref} \subseteq Nodes \cup {NULL}
      /\ live \subseteq Nodes
  BY ChainFacts DEF TypeOK
<1>4. \A i \in Int : dpl_get_reference_at_index(i) \in Nodes \cup {NULL}
  <2> SUFFICES ASSUME NEW i \in Int
               PROVE  dpl_get_reference_at_index(i) \in Nodes \cup {NULL}
    OBVIOUS
  <2>1. Len(chain) # 0 => 1 \in 1 .. Len(chain) /\ Len(chain) \in 1 .. Len(chain)
    BY <1>3
  <2>2. i > 0 /\ i < Len(chain) => i + 1 \in 1 .. Len(chain)
    BY <1>3
  <2> QED BY <1>3, <2>1, <2>2, ReferenceFacts, ChainFacts
<1>5. \A x \in Elements : dpl_get_reference_of_element(x) \in live \cup {NULL}
  BY SearchFacts DEF ListShape
<1>6. ASSUME NEW x \in Elements, NEW i \in Int, dpl_insert_at_index(x, i)
      PROVE  Inserts
  BY <1>6, InsertAtIndex
<1>7. ASSUME NEW i \in Int, dpl_remove_at_index(i)
      PROVE  Goal
  <2>1. Removes \/ Crash("null_in_remove")
    BY <1>7, RemoveAtIndex
  <2> QED BY <2>1, <1>1
<1>8. CASE \/ \E x \in Elements, i \in -1 .. size + 1 : dpl_insert_at_index(x, i)
           \/ \E x \in Elements : dpl_insert_first(x)
           \/ \E x \in Elements : dpl_insert_last(x)
  BY <1>3, <1>6, <1>8 DEF dpl_insert_first, dpl_insert_last
<1>9. CASE \E x \in Elements : dpl_insert_sorted(x)
  BY <1>9, InsertSorted
<1>10. CASE \/ \E i \in -1 .. size + 1 : dpl_remove_at_index(i)
            \/ dpl_remove_first \/ dpl_remove_last
  <2>1. Goal
    <3> HIDE DEF Goal
    <3> QED BY <1>3, <1>7, <1>10 DEF dpl_remove_first, dpl_remove_last
  <2> QED BY <2>1
<1>11. CASE \E x \in Elements : dpl_remove_element(x)
  BY <1>5, <1>11, RemoveAtReference DEF dpl_remove_element
<1>12. CASE dpl_free
  BY <1>12, FreeClears
<1>13. CASE SortBegin
  <2>1. CASE head = NULL
    <3>1. Crash("null_in_sort")
      BY <1>13, <2>1 DEF SortBegin
    <3> QED BY <1>1, <3>1
  <2>2. CASE head # NULL
    <3>1. KeepsList /\ cursor' = head /\ swapped' = FALSE
      BY <1>13, <2>2, <1>3 DEF SortBegin, KeepsList, Contents, TypeOK
    <3> QED BY <2>2, <3>1
  <2> QED BY <2>1, <2>2
<1>14. CASE \/ \E i \in -1 .. size : KeepReference(dpl_get_reference_at_index(i))
            \/ \E x \in Elements : KeepReference(dpl_get_reference_of_element(x))
            \/ KeepReference(dpl_get_first_reference)
            \/ KeepReference(dpl_get_last_reference)
  <2>1. PICK r \in Nodes \cup {NULL} : KeepReference(r)
    BY <1>3, <1>4, <1>5, <1>14 DEF dpl_get_first_reference, dpl_get_last_reference
  <2> QED BY <1>2, <2>1
<1>15. CASE dpl_get_next_reference \/ dpl_get_previous_reference
  <2>1. \A f \in [Nodes -> Nodes \cup {NULL}] :
          Through(f) => KeepsList /\ UNCHANGED sort
    <3> SUFFICES ASSUME NEW f \in [Nodes -> Nodes \cup {NULL}], Through(f)
                 PROVE  KeepsList /\ UNCHANGED sort
      OBVIOUS
    <3>1. CASE ref = NULL
      BY <3>1, <1>3 DEF Through, KeepsList, vars, sort, TypeOK
    <3>2. CASE ref # NULL /\ ref \notin live
      <4>1. Crash("use_after_free")
        BY <3>2 DEF Through
      <4> QED BY <1>1, <4>1
    <3>3. CASE ref # NULL /\ ref \in live
      BY <3>3, <1>3 DEF Through, KeepsList, TypeOK
    <3> QED BY <3>1, <3>2, <3>3
  <2>2. Through(next) \/ Through(prev)
    BY <1>15 DEF dpl_get_next_reference, dpl_get_previous_reference
  <2> QED BY <2>1, <2>2 DEF TypeOK
<1>16. CASE ByReference
  <2>1. CASE ref \in live \cup {NULL}
    <3>1. \/ \E x \in Elements : dpl_insert_at_reference(x, ref)
          \/ dpl_remove_at_reference(ref)
      BY <1>16, <2>1 DEF ByReference
    <3> QED BY <2>1, <3>1, InsertAtReference, RemoveAtReference
  <2>2. CASE ref \notin live \cup {NULL}
    <3>1. Crash("use_after_free")
      BY <1>16, <2>2 DEF ByReference
    <3> QED BY <1>1, <3>1
  <2> QED BY <2>1, <2>2
<1> QED
  BY <1>8, <1>9, <1>10, <1>11, <1>12, <1>13, <1>14, <1>15, <1>16 DEF Call

-----------------------------------------------------------------------------
(* The shape of the list after a step *)

LEMMA ShapeOfInsert ==
  ASSUME TypeOK, ListShape, NEW p \in 1 .. Len(chain) + 1,
         NEW n \in Nodes, NEW x \in Elements, InsertsAt(p, n, x)
  PROVE  TypeOK' /\ ListShape'
<1> DEFINE N == Len(chain)
           After(k) == IF k \in 1 .. N + 1 THEN chain'[k] ELSE NULL
<1>1. /\ N \in Nat /\ p \in Nat /\ size = N
      /\ chain' \in Seq(Nodes) /\ Len(chain') = N + 1
      /\ \A i \in 1 .. N + 1 :
           chain'[i] = IF i < p THEN chain[i] ELSE IF i = p THEN n ELSE chain[i - 1]
      /\ \A k \in 1 .. N : chain[k] \in Nodes /\ chain[k] \in live /\ chain[k] # n
      /\ n # NULL
  <2>1. /\ N \in Nat /\ size = N
        /\ \A k \in 1 .. N : chain[k] \in Nodes /\ chain[k] \in live
    BY ChainFacts DEF ListShape
  <2>2. /\ chain' \in Seq(Nodes) /\ Len(chain') = N + 1 /\ n \notin live
        /\ \A i \in 1 .. N + 1 :
             chain'[i] = IF i < p THEN chain[i] ELSE IF i = p THEN n ELSE chain[i - 1]
    BY DEF InsertsAt
  <2>3. p \in Nat /\ n # NULL
    BY <2>1, DPListAssumption
  <2> QED BY <2>1, <2>2, <2>3
<1>2. \A j, k \in 1 .. N : chain[j] = chain[k] => j = k
  BY DEF ListShape
<1>3. /\ \A k \in 1 .. N : Neighbour(k) = chain[k]
      /\ Neighbour(0) = NULL /\ Neighbour(N + 1) = NULL
  BY <1>1 DEF Neighbour
<1>4. /\ \A i \in 1 .. N + 1 : After(i) = chain'[i]
      /\ After(0) = NULL /\ After(N + 2) = NULL
  <2>1. 0 \notin 1 .. N + 1 /\ N + 2 \notin 1 .. N + 1
    BY <1>1
  <2> QED BY <2>1
<1> HIDE DEF After
<1>5. TypeOK'
  <2>1. {head', tail', ref', cursor'} \subseteq Nodes \cup {NULL}
    BY DEF InsertsAt, TypeOK, sort
  <2>2. size' \in 0 .. Len(chain')
    BY <1>1 DEF InsertsAt
  <2>3. element' \in [Nodes -> Elements \cup {NULL}] /\ live' \in SUBSET Nodes
    BY DEF InsertsAt, TypeOK
  <2> QED BY <1>1, <2>1, <2>2, <2>3 DEF InsertsAt, TypeOK, sort
<1>6. head' = After(1)
  <2>1. 1 \in 1 .. N + 1
    BY <1>1
  <2>2. CASE p = 1
    BY <1>1, <1>4, <2>1, <2>2 DEF InsertsAt
  <2>3. CASE p # 1
    <3>1. 1 < p /\ 1 \in 1 .. N
      BY <1>1, <2>3
    <3> QED BY <1>1, <1>3, <1>4, <2>1, <2>3, <3>1 DEF InsertsAt, ListShape
  <2> QED BY <2>2, <2>3
<1>7. tail' = After(N + 1)
  <2>1. After(N + 1) = chain'[N + 1] /\ N + 1 \in 1 .. N + 1
    <3>1. \A k \in Nat : k + 1 \in 1 .. k + 1
      OBVIOUS
    <3> HIDE DEF N
    <3> QED BY <1>1, <1>4, <3>1
  <2>2. CASE p = N + 1
    BY <1>1, <2>1, <2>2 DEF InsertsAt
  <2>3. CASE p # N + 1
    <3>1. chain'[N + 1] = chain[N] /\ N \in 1 .. N
      BY <1>1, <2>1, <2>3
    <3> QED BY <1>3, <2>1, <2>3, <3>1 DEF InsertsAt, ListShape
  <2> QED BY <2>2, <2>3
<1>8. ASSUME NEW k \in 1 .. N + 1
      PROVE  /\ next'[chain'[k]] = After(k + 1)
             /\ prev'[chain'[k]] = After(k - 1)
             /\ element'[chain'[k]] \in Elements
  <2>1. \A m \in Nodes :
          /\ next'[m] = IF m = n THEN Neighbour(p)
                        ELSE IF m = Neighbour(p - 1) THEN n ELSE next[m]
          /\ prev'[m] = IF m = n THEN Neighbour(p - 1)
                        ELSE IF m = Neighbour(p) THEN n ELSE prev[m]
    BY DEF InsertsAt
  <2>2. \A j \in 1 .. N : /\ next[chain[j]] = Neighbour(j + 1)
                          /\ prev[chain[j]] = Neighbour(j - 1)
                          /\ element[chain[j]] \in Elements
    BY DEF ListShape
  <2>3. /\ \A m \in Nodes : element'[m] = IF m = n THEN x ELSE element[m]
    BY DEF InsertsAt, TypeOK
  <2>4. CASE k = p
    <3>1. chain'[k] = n
      BY <1>1, <2>4
    <3>2. next'[n] = After(p + 1)
      <4>1. CASE p = N + 1
        <5>1. p + 1 = N + 2
          BY <1>1, <4>1
        <5> QED BY <2>1, <1>3, <1>4, <4>1, <5>1
      <4>2. CASE p # N + 1
        <5>1. p + 1 \in 1 .. N + 1 /\ p \in 1 .. N /\ (p + 1) - 1 = p
          BY <1>1, <4>2
        <5>2. chain'[p + 1] = chain[p]
          BY <1>1, <5>1
        <5> QED BY <2>1, <1>3, <1>4, <5>1, <5>2
      <4> QED BY <4>1, <4>2
    <3>3. prev'[n] = After(p - 1)
      <4>1. CASE p = 1
        BY <2>1, <1>3, <1>4, <4>1
      <4>2. CASE p # 1
        <5>1. p - 1 \in 1 .. N + 1 /\ p - 1 \in 1 .. N /\ p - 1 < p
          BY <1>1, <4>2
        <5>2. chain'[p - 1] = chain[p - 1]
          BY <1>1, <5>1
        <5> QED BY <2>1, <1>3, <1>4, <5>1, <5>2
      <4> QED BY <4>1, <4>2
    <3> QED BY <2>3, <2>4, <3>1, <3>2, <3>3
  <2>5. CASE k < p
    <3>1. /\ k \in 1 .. N /\ chain'[k] = chain[k] /\ chain[k] \in Nodes
          /\ chain[k] # n /\ Neighbour(k) = chain[k] /\ k # p
      BY <1>1, <1>3, <2>5
    <3>2. next'[chain[k]] = After(k + 1)
      <4>1. CASE k = p - 1
        <5>1. k + 1 = p /\ After(p) = n
          BY <1>1, <1>4, <4>1
        <5> QED BY <2>1, <3>1, <4>1, <5>1
      <4>2. CASE k # p - 1
        <5>1. /\ k + 1 \in 1 .. N /\ k + 1 < p /\ k + 1 \in 1 .. N + 1
          BY <1>1, <2>5, <4>2
        <5>2. After(k + 1) = chain[k + 1] /\ Neighbour(k + 1) = chain[k + 1]
          BY <1>1, <1>3, <1>4, <5>1
        <5>3. chain[k] # Neighbour(p - 1)
          <6>1. p - 1 \in 1 .. N /\ Neighbour(p - 1) = chain[p - 1]
            BY <1>1, <1>3, <2>5
          <6> QED BY <1>2, <3>1, <4>2, <6>1
        <5> QED BY <2>1, <2>2, <3>1, <5>2, <5>3
      <4> QED BY <4>1, <4>2
    <3>3. prev'[chain[k]] = After(k - 1)
      <4>1. chain[k] # Neighbour(p)
        BY <1>1, <1>2, <1>3, <3>1, ChainFacts DEF Neighbour
      <4>2. After(k - 1) = Neighbour(k - 1)
        <5>1. CASE k = 1
          BY <1>3, <1>4, <5>1
        <5>2. CASE k # 1
          <6>1. k - 1 \in 1 .. N /\ k - 1 \in 1 .. N + 1 /\ k - 1 < p
            BY <1>1, <2>5, <3>1, <5>2
          <6> QED BY <1>1, <1>3, <1>4, <6>1
        <5> QED BY <5>1, <5>2
      <4> QED BY <2>1, <2>2, <3>1, <4>1, <4>2
    <3> QED BY <2>2, <2>3, <3>1, <3>2, <3>3
  <2>6. CASE k > p
    <3> DEFINE j == k - 1
    <3>1. j \in 1 .. N /\ j + 1 = k /\ j >= p /\ j \in 1 .. N + 1
      BY <1>1, <2>6
    <3> HIDE DEF j
    <3>2. /\ chain'[k] = chain[j] /\ chain[j] \in Nodes
          /\ chain[j] # n /\ Neighbour(j) = chain[j]
      BY <1>1, <1>3, <2>6 DEF j
    <3>3. next'[chain[j]] = After(k + 1)
      <4>1. chain[j] # Neighbour(p - 1)
        <5>1. p = 1 \/ p - 1 \in 1 .. N
          BY <1>1
        <5> QED BY <1>1, <1>2, <1>3, <3>1, <3>2, <5>1, ChainFacts
      <4>2. After(k + 1) = Neighbour(j + 1)
        <5>1. CASE k = N + 1
          <6>1. k + 1 = N + 2
            BY <1>1, <5>1
          <6> QED BY <1>3, <1>4, <3>1, <5>1, <6>1
        <5>2. CASE k # N + 1
          <6>1. k + 1 \in 1 .. N + 1 /\ k \in 1 .. N /\ k + 1 > p /\ (k + 1) - 1 = k
            BY <1>1, <2>6, <5>2
          <6>2. chain'[k + 1] = chain[k]
            BY <1>1, <6>1
          <6> QED BY <1>3, <1>4, <3>1, <6>1, <6>2
        <5> QED BY <5>1, <5>2
      <4> QED BY <2>1, <2>2, <3>1, <3>2, <4>1, <4>2
    <3>4. prev'[chain[j]] = After(k - 1)
      <4>1. CASE j = p
        <5>1. After(k - 1) = n
          BY <1>1, <1>4, <3>1, <4>1 DEF j
        <5> QED BY <2>1, <3>2, <4>1, <5>1
      <4>2. CASE j # p
        <5>1. chain[j] # Neighbour(p)
          <6>1. p \in 1 .. N
            BY <1>1, <3>1
          <6> QED BY <1>2, <1>3, <3>1, <4>2, <6>1
        <5>2. j - 1 \in 1 .. N /\ j \in 1 .. N + 1 /\ j > p
          BY <1>1, <3>1, <4>2
        <5>3. After(j) = chain[j - 1] /\ Neighbour(j - 1) = chain[j - 1]
          BY <1>1, <1>3, <1>4, <5>2
        <5> QED BY <2>1, <2>2, <3>1, <3>2, <5>1, <5>3 DEF j
      <4> QED BY <4>1, <4>2
    <3> QED BY <2>2, <2>3, <3>1, <3>2, <3>3, <3>4
  <2> QED BY <1>1, <2>4, <2>5, <2>6
<1>9. live' = {chain'[k] : k \in 1 .. N + 1}
  <2>1. live' = live \cup {n} /\ live = {chain[k] : k \in 1 .. N}
    BY DEF InsertsAt, ListShape
  <2>2. ASSUME NEW k \in 1 .. N PROVE \E i \in 1 .. N + 1 : chain'[i] = chain[k]
    <3>1. CASE k < p
      BY <1>1, <3>1
    <3>2. CASE k >= p
      <4>1. k + 1 \in 1 .. N + 1 /\ k + 1 > p /\ (k + 1) - 1 = k
        BY <1>1, <3>2
      <4>2. chain'[k + 1] = chain[k]
        BY <1>1, <4>1
      <4> QED BY <4>1, <4>2
    <3> QED BY <1>1, <3>1, <3>2
  <2>3. chain'[p] = n
    BY <1>1
  <2>4. ASSUME NEW i \in 1 .. N + 1
        PROVE  chain'[i] = n \/ \E k \in 1 .. N : chain'[i] = chain[k]
    <3>1. CASE i < p
      BY <1>1, <3>1
    <3>2. CASE i = p
      BY <2>3, <3>2
    <3>3. CASE i > p
      <4>1. i - 1 \in 1 .. N
        BY <1>1, <3>3
      <4> QED BY <1>1, <3>3, <4>1
    <3> QED BY <1>1, <3>1, <3>2, <3>3
  <2>5. live' \subseteq {chain'[k] : k \in 1 .. N + 1}
    BY <1>1, <2>1, <2>2, <2>3
  <2>6. {chain'[k] : k \in 1 .. N + 1} \subseteq live'
    BY <2>1, <2>4
  <2> QED BY <2>5, <2>6
<1>10. ASSUME NEW j \in 1 .. N + 1, NEW k \in 1 .. N + 1, chain'[j] = chain'[k]
       PROVE  j = k
  <2>1. \A i \in 1 .. N + 1 :
          \/ i = p /\ chain'[i] = n
          \/ i < p /\ i \in 1 .. N /\ chain'[i] = chain[i] /\ chain[i] # n
          \/ i > p /\ i - 1 \in 1 .. N /\ chain'[i] = chain[i - 1] /\ chain[i - 1] # n
    BY <1>1
  <2> QED BY <1>1, <1>2, <1>10, <2>1
<1>11. size' = Len(chain')
  BY <1>1 DEF InsertsAt
<1>12. ListShape'
  <2>1. \A k : Neighbour(k)' = After(k)
    BY <1>1 DEF Neighbour, After
  <2>2. Len(chain') = N + 1
    BY <1>1
  <2>3. /\ head' = Neighbour(1)'
        /\ tail' = Neighbour(Len(chain))'
        /\ \A k \in 1 .. Len(chain') :
             /\ next'[chain'[k]] = Neighbour(k + 1)'
             /\ prev'[chain'[k]] = Neighbour(k - 1)'
             /\ element'[chain'[k]] \in Elements
    <3> HIDE DEF N
    <3> QED BY <2>1, <2>2, <1>6, <1>7, <1>8
  <2>4. /\ size' = Len(chain')
        /\ live' = {chain'[k] : k \in 1 .. Len(chain')}
        /\ \A j, k \in 1 .. Len(chain') : chain'[j] = chain'[k] => j = k
    <3> HIDE DEF N
    <3> QED BY <2>2, <1>9, <1>10, <1>11
  <2> QED BY <2>3, <2>4 DEF ListShape
<1> QED BY <1>5, <1>12

LEMMA ShapeOfRemove ==
  ASSUME TypeOK, ListShape, NEW p \in 1 .. Len(chain), RemovesAt(p)
  PROVE  TypeOK' /\ ListShape'
<1> DEFINE N == Len(chain)
           After(k) == IF k \in 1 .. N - 1 THEN chain'[k] ELSE NULL
<1>1. /\ N \in Nat /\ p \in Nat /\ p >= 1 /\ p <= N /\ size = N
      /\ \A k \in 1 .. N : chain[k] \in Nodes /\ chain[k] # NULL
  <2>1. /\ N \in Nat /\ size = N
        /\ \A k \in 1 .. N : chain[k] \in Nodes /\ chain[k] # NULL
    BY ChainFacts
  <2> QED BY <2>1
<1>2. /\ chain' \in Seq(Nodes) /\ Len(chain') = N - 1
      /\ \A i \in 1 .. N - 1 :
           chain'[i] = IF i < p THEN chain[i] ELSE chain[i + 1]
  BY DEF RemovesAt
<1>3. \A j, k \in 1 .. N : chain[j] = chain[k] => j = k
  BY DEF ListShape
<1>4. /\ \A k \in 1 .. N : Neighbour(k) = chain[k]
      /\ \A k : k \notin 1 .. N => Neighbour(k) = NULL
  BY DEF Neighbour
<1>5. \A i \in 0 .. N : After(i) = IF i < p THEN Neighbour(i) ELSE Neighbour(i + 1)
  <2> SUFFICES ASSUME NEW i \in 0 .. N
               PROVE  After(i) = IF i < p THEN Neighbour(i) ELSE Neighbour(i + 1)
    OBVIOUS
  <2>1. CASE i = 0
    <3>1. i \notin 1 .. N /\ i \notin 1 .. N - 1 /\ i < p
      BY <1>1, <2>1
    <3> QED BY <1>4, <3>1
  <2>2. CASE i \in 1 .. N - 1
    <3>1. i \in 1 .. N /\ i + 1 \in 1 .. N
      BY <1>1, <2>2
    <3> QED BY <1>2, <1>4, <2>2, <3>1
  <2>3. CASE i = N
    <3>1. i \notin 1 .. N - 1 /\ i + 1 \notin 1 .. N /\ ~(i < p)
      BY <1>1, <2>3
    <3> QED BY <1>4, <3>1
  <2>4. i = 0 \/ i \in 1 .. N - 1 \/ i = N
    BY <1>1
  <2> QED BY <2>1, <2>2, <2>3, <2>4
<1>6. ASSUME NEW k \in 1 .. N, NEW i \in Int, chain[k] = Neighbour(i)
      PROVE  i = k
  <2>1. i \in 1 .. N
    BY <1>1, <1>4, <1>6
  <2> QED BY <1>3, <1>4, <1>6, <2>1
<1> HIDE DEF After
<1>7. /\ \A m \in Nodes :
           /\ next'[m] = IF m = chain[p] THEN NULL
                         ELSE IF m = Neighbour(p - 1) THEN Neighbour(p + 1) ELSE next[m]
           /\ prev'[m] = IF m = chain[p] THEN NULL
                         ELSE IF m = Neighbour(p + 1) THEN Neighbour(p - 1) ELSE prev[m]
      /\ \A j \in 1 .. N : /\ next[chain[j]] = Neighbour(j + 1)
                           /\ prev[chain[j]] = Neighbour(j - 1)
                           /\ element[chain[j]] \in Elements
      /\ \A m \in Nodes : m # chain[p] => element'[m] = element[m]
  BY DEF RemovesAt, ListShape, TypeOK
<1>8. TypeOK'
  <2>1. {head', tail', ref', cursor'} \subseteq Nodes \cup {NULL}
    BY ChainFacts DEF RemovesAt, TypeOK, sort
  <2>2. size' \in 0 .. Len(chain')
    BY <1>1, <1>2 DEF RemovesAt
  <2>3. element' \in [Nodes -> Elements \cup {NULL}] /\ live' \in SUBSET Nodes
    BY DEF RemovesAt, TypeOK
  <2> QED BY <1>2, <2>1, <2>2, <2>3 DEF RemovesAt, TypeOK, sort
<1>9. head' = After(1)
  <2>1. 1 \in 0 .. N /\ (1 < p <=> p # 1) /\ 1 + 1 = 2
    BY <1>1
  <2>2. head = Neighbour(1) /\ head' = IF p = 1 THEN Neighbour(2) ELSE head
    BY DEF RemovesAt, ListShape
  <2> QED BY <1>5, <2>1, <2>2
<1>10. tail' = After(N - 1)
  <2>1. N - 1 \in 0 .. N /\ (N - 1 < p <=> p = N) /\ (N - 1) + 1 = N
    BY <1>1
  <2>2. tail = Neighbour(N) /\ tail' = IF p = N THEN Neighbour(p - 1) ELSE tail
    BY DEF RemovesAt, ListShape
  <2> QED BY <1>5, <2>1, <2>2
<1>11. ASSUME NEW k \in 1 .. N - 1
       PROVE  /\ next'[chain'[k]] = After(k + 1)
              /\ prev'[chain'[k]] = After(k - 1)
              /\ element'[chain'[k]] \in Elements
  <2>1. k \in Nat /\ k \in 1 .. N /\ k + 1 \in 1 .. N /\ k + 1 \in 0 .. N /\ k - 1 \in 0 .. N
    BY <1>1
  <2>2. CASE k < p
    <3>1. chain'[k] = chain[k] /\ chain[k] \in Nodes /\ chain[k] # chain[p]
      BY <1>1, <1>2, <1>3, <2>1, <2>2
    <3>2. next'[chain[k]] = After(k + 1)
      <4>1. CASE k = p - 1
        <5>1. k + 1 = p /\ ~(k + 1 < p)
          BY <1>1, <4>1
        <5>2. Neighbour(p - 1) = chain[k]
          BY <1>4, <2>1, <4>1
        <5>3. After(k + 1) = Neighbour((k + 1) + 1) /\ (k + 1) + 1 = p + 1
          BY <1>1, <1>5, <2>1, <5>1
        <5>4. next'[chain[k]] = Neighbour(p + 1)
          BY <1>7, <3>1, <5>2
        <5> QED BY <5>3, <5>4
      <4>2. CASE k # p - 1
        <5>1. k + 1 < p /\ chain[k] # Neighbour(p - 1)
          BY <1>1, <1>6, <2>1, <2>2, <4>2
        <5>2. next'[chain[k]] = next[chain[k]]
          BY <1>7, <3>1, <5>1
        <5>3. After(k + 1) = Neighbour(k + 1)
          BY <1>5, <2>1, <5>1
        <5> QED BY <1>7, <2>1, <5>2, <5>3
      <4> QED BY <4>1, <4>2
    <3>3. prev'[chain[k]] = After(k - 1)
      <4>1. k - 1 < p /\ chain[k] # Neighbour(p + 1)
        BY <1>1, <1>6, <2>1, <2>2
      <4>2. prev'[chain[k]] = prev[chain[k]]
        BY <1>7, <3>1, <4>1
      <4>3. After(k - 1) = Neighbour(k - 1)
        BY <1>5, <2>1, <4>1
      <4> QED BY <1>7, <2>1, <4>2, <4>3
    <3>4. element'[chain[k]] \in Elements
      <4>1. element'[chain[k]] = element[chain[k]]
        BY <1>7, <3>1
      <4> QED BY <1>7, <2>1, <4>1
    <3> QED BY <3>1, <3>2, <3>3, <3>4
  <2>3. CASE k >= p
    <3> DEFINE j == k + 1
    <3>1. j \in 1 .. N /\ j - 1 = k /\ j > p
      BY <1>1, <2>1, <2>3
    <3>2. chain'[k] = chain[j] /\ chain[j] \in Nodes /\ chain[j] # chain[p]
      BY <1>1, <1>2, <1>3, <2>1, <2>3, <3>1
    <3>3. next'[chain[j]] = After(k + 1)
      <4>1. ~(k + 1 < p) /\ chain[j] # Neighbour(p - 1)
        BY <1>1, <1>6, <2>1, <2>3, <3>1
      <4>2. After(k + 1) = Neighbour(j + 1)
        BY <1>5, <2>1, <4>1
      <4> HIDE DEF j
      <4> QED BY <1>7, <3>1, <3>2, <4>1, <4>2
    <3>4. prev'[chain[j]] = After(k - 1)
      <4>1. CASE k = p
        <5>1. k - 1 < p /\ chain[j] = Neighbour(p + 1) /\ k - 1 = p - 1
          BY <1>1, <1>4, <2>1, <4>1, <3>1
        <5>2. After(k - 1) = Neighbour(p - 1)
          BY <1>5, <2>1, <5>1
        <5> HIDE DEF j
        <5> QED BY <1>7, <3>1, <3>2, <5>1, <5>2
      <4>2. CASE k # p
        <5>1. ~(k - 1 < p) /\ chain[j] # Neighbour(p + 1) /\ (k - 1) + 1 = j - 1
          BY <1>1, <1>6, <2>1, <2>3, <4>2, <3>1
        <5>2. After(k - 1) = Neighbour(j - 1)
          BY <1>5, <2>1, <5>1
        <5> HIDE DEF j
        <5> QED BY <1>7, <3>1, <3>2, <5>1, <5>2
      <4> QED BY <4>1, <4>2
    <3> HIDE DEF j
    <3>5. element'[chain[j]] \in Elements
      BY <1>7, <3>1, <3>2
    <3> QED BY <3>2, <3>3, <3>4, <3>5
  <2> QED BY <1>1, <2>1, <2>2, <2>3
<1>12. live' = {chain'[k] : k \in 1 .. N - 1}
  <2>1. live' = live \ {chain[p]} /\ live = {chain[k] : k \in 1 .. N}
    BY DEF RemovesAt, ListShape
  <2>2. ASSUME NEW k \in 1 .. N, k # p
        PROVE  \E i \in 1 .. N - 1 : chain'[i] = chain[k]
    <3>1. CASE k < p
      <4>1. k \in 1 .. N - 1
        BY <1>1, <3>1
      <4> QED BY <1>2, <3>1, <4>1
    <3>2. CASE k > p
      <4>1. k - 1 \in 1 .. N - 1 /\ ~(k - 1 < p) /\ (k - 1) + 1 = k
        BY <1>1, <3>2
      <4>2. chain'[k - 1] = chain[k]
        BY <1>2, <4>1
      <4> QED BY <4>1, <4>2
    <3> QED BY <1>1, <2>2, <3>1, <3>2
  <2>3. ASSUME NEW i \in 1 .. N - 1
        PROVE  \E k \in 1 .. N : k # p /\ chain'[i] = chain[k]
    <3>1. i \in 1 .. N /\ i + 1 \in 1 .. N
      BY <1>1
    <3>2. i < p => i # p
      BY <1>1
    <3>3. ~(i < p) => i + 1 # p
      BY <1>1
    <3> QED BY <1>2, <3>1, <3>2, <3>3
  <2>4. \A k \in 1 .. N : k # p => chain[k] # chain[p]
    BY <1>3
  <2>5. ASSUME NEW m \in live'
        PROVE  m \in {chain'[k] : k \in 1 .. N - 1}
    <3>1. PICK k \in 1 .. N : m = chain[k] /\ k # p
      BY <2>1
    <3> QED BY <2>2, <3>1
  <2>6. ASSUME NEW m \in {chain'[k] : k \in 1 .. N - 1}
        PROVE  m \in live'
    <3>1. PICK k \in 1 .. N : k # p /\ m = chain[k]
      BY <2>3
    <3> QED BY <2>1, <2>4, <3>1
  <2> QED BY <2>5, <2>6
<1>13. ASSUME NEW j \in 1 .. N - 1, NEW k \in 1 .. N - 1, chain'[j] = chain'[k]
       PROVE  j = k
  <2>1. \A i \in 1 .. N - 1 :
          \/ i < p /\ i \in 1 .. N /\ chain'[i] = chain[i]
          \/ i >= p /\ i + 1 \in 1 .. N /\ chain'[i] = chain[i + 1]
    BY <1>1, <1>2
  <2> QED BY <1>1, <1>3, <1>13, <2>1
<1>14. ListShape'
  <2>1. \A k : Neighbour(k)' = After(k)
    BY <1>2 DEF Neighbour, After
  <2>2. Len(chain') = N - 1 /\ size' = N - 1
    BY <1>1, <1>2 DEF RemovesAt
  <2>3. /\ head' = Neighbour(1)'
        /\ tail' = Neighbour(Len(chain))'
        /\ \A k \in 1 .. Len(chain') :
             /\ next'[chain'[k]] = Neighbour(k + 1)'
             /\ prev'[chain'[k]] = Neighbour(k - 1)'
             /\ element'[chain'[k]] \in Elements
    <3> HIDE DEF N
    <3> QED BY <2>1, <2>2, <1>9, <1>10, <1>11
  <2>4. /\ size' = Len(chain')
        /\ live' = {chain'[k] : k \in 1 .. Len(chain')}
        /\ \A j, k \in 1 .. Len(chain') : chain'[j] = chain'[k] => j = k
    <3> HIDE DEF N
    <3> QED BY <2>2, <1>12, <1>13
  <2> QED BY <2>3, <2>4 DEF ListShape
<1> QED BY <1>8, <1>14

LEMMA ShapeOfClear ==
  ASSUME TypeOK, Clears
  PROVE  TypeOK' /\ ListShape'
<1>1. chain' \in Seq(Nodes) /\ Len(chain') = 0
  BY EmptySeq DEF Clears
<1>2. TypeOK'
  <2>1. {head', tail', ref', cursor'} \subseteq Nodes \cup {NULL}
    BY DEF Clears, TypeOK, sort
  <2>2. /\ next' \in [Nodes -> Nodes \cup {NULL}]
        /\ prev' \in [Nodes -> Nodes \cup {NULL}]
        /\ element' \in [Nodes -> Elements \cup {NULL}]
    BY DEF Clears
  <2>3. size' \in 0 .. Len(chain')
    BY <1>1 DEF Clears
  <2> QED BY <1>1, <2>1, <2>2, <2>3 DEF Clears, TypeOK, sort
<1>3. \A k : Neighbour(k)' = NULL
  BY <1>1 DEF Neighbour
<1>4. ListShape'
  BY <1>1, <1>3 DEF Clears, ListShape
<1> QED BY <1>2, <1>4

LEMMA ShapeOfKeep ==
  ASSUME TypeOK, ListShape, KeepsList,
         cursor' \in Nodes \cup {NULL}, swapped' \in BOOLEAN
  PROVE  TypeOK' /\ ListShape'
<1>1. TypeOK'
  BY DEF KeepsList, TypeOK
<1>2. ListShape'
  BY DEF KeepsList, ListShape, Neighbour
<1> QED BY <1>1, <1>2

-----------------------------------------------------------------------------
(* dpl_sort *)

\* The exchange of the elements at place k and the next, when they are out
\* of order.
Exchanges(k) ==
  /\ UNCHANGED <<Contents, fault>>
  /\ element[chain[k]] > element[chain[k + 1]]
  /\ element' = [element EXCEPT ![chain[k]]     = element[chain[k + 1]],
                                ![chain[k + 1]] = element[chain[k]]]

\* A step of dpl_sort from place k: it goes on to the next place, having
\* exchanged two elements or found them in order, or begins again, or returns.
LEMMA SortGoes ==
  ASSUME TypeOK, ListShape, NEW k \in 1 .. Len(chain), cursor = chain[k], dpl_sort
  PROVE  \/ /\ k < Len(chain) /\ cursor' = chain[k + 1]
            /\ \/ Exchanges(k) /\ swapped' = TRUE
               \/ /\ UNCHANGED <<Contents, fault, element, swapped>>
                  /\ Listed[k] <= Listed[k + 1]
         \/ /\ k = Len(chain) /\ swapped' = FALSE
            /\ UNCHANGED <<Contents, fault, element>>
            /\ cursor' = IF swapped THEN head ELSE NULL
<1>1. /\ Len(chain) \in Nat /\ k \in Nat
      /\ \A i \in 1 .. Len(chain) : chain[i] # NULL /\ Listed[i] = element[chain[i]]
  BY ChainFacts
<1>2. next[chain[k]] = IF k < Len(chain) THEN chain[k + 1] ELSE NULL
  <2>1. next[chain[k]] = Neighbour(k + 1)
    BY DEF ListShape
  <2>2. k + 1 \in 1 .. Len(chain) <=> k < Len(chain)
    BY <1>1
  <2> QED BY <2>1, <2>2 DEF Neighbour
<1>3. CASE SortStep
  <2>1. /\ k < Len(chain) /\ next[cursor] = chain[k + 1] /\ cursor' = chain[k + 1]
        /\ k + 1 \in 1 .. Len(chain)
    BY <1>1, <1>2, <1>3 DEF SortStep
  <2>2. CASE element[chain[k]] > element[chain[k + 1]]
    <3>1. Exchanges(k) /\ swapped' = TRUE
      BY <1>3, <2>1, <2>2 DEF SortStep, Exchanges
    <3> QED BY <2>1, <3>1
  <2>3. CASE ~(element[chain[k]] > element[chain[k + 1]])
    <3>1. UNCHANGED <<Contents, fault, element, swapped>>
      BY <1>3, <2>1, <2>3 DEF SortStep
    <3>2. element[chain[k]] \in Int /\ element[chain[k + 1]] \in Int
      BY <2>1, DPListAssumption DEF ListShape
    <3>3. Listed[k] <= Listed[k + 1]
      BY <1>1, <2>1, <2>3, <3>2
    <3> QED BY <2>1, <3>1, <3>3
  <2> QED BY <2>2, <2>3
<1>4. CASE SortEndPass
  BY <1>1, <1>2, <1>4 DEF SortEndPass
<1> QED BY <1>3, <1>4 DEF dpl_sort

LEMMA ShapeOfExchange ==
  ASSUME TypeOK, ListShape, NEW k \in 1 .. Len(chain) - 1, Exchanges(k),
         cursor' \in Nodes \cup {NULL}, swapped' \in BOOLEAN
  PROVE  TypeOK' /\ ListShape'
<1>1. /\ Len(chain) \in Nat /\ k \in 1 .. Len(chain) /\ k + 1 \in 1 .. Len(chain)
      /\ \A i \in 1 .. Len(chain) : chain[i] \in Nodes /\ element[chain[i]] \in Elements
  <2>1. /\ Len(chain) \in Nat
        /\ \A i \in 1 .. Len(chain) : chain[i] \in Nodes
    BY ChainFacts
  <2>2. \A i \in 1 .. Len(chain) : element[chain[i]] \in Elements
    BY DEF ListShape
  <2>3. \A N \in Nat : \A i \in 1 .. N - 1 : i \in 1 .. N /\ i + 1 \in 1 .. N
    OBVIOUS
  <2> QED BY <2>1, <2>2, <2>3
<1>2. UNCHANGED <<head, tail, size, next, prev, live, ref, chain, fault>>
  BY DEF Exchanges, Contents
<1>3. /\ element' \in [Nodes -> Elements \cup {NULL}]
      /\ \A i \in 1 .. Len(chain) : element'[chain[i]] \in Elements
  BY <1>1 DEF Exchanges, TypeOK
<1>4. TypeOK'
  BY <1>2, <1>3 DEF TypeOK
<1>5. \A i : Neighbour(i)' = Neighbour(i)
  BY <1>2 DEF Neighbour
<1>6. ListShape'
  BY <1>2, <1>3, <1>5 DEF ListShape
<1> QED BY <1>4, <1>6

\* A pass over the list that has exchanged nothing leaves behind it elements
\* in order.
LEMMA SortStepInv ==
  ASSUME IInv, cursor # NULL, dpl_sort
  PROVE  IInv'
<1>1. PICK k \in 1 .. Len(chain) :
        /\ cursor = chain[k]
        /\ ~swapped => \A i \in 1 .. k - 1 : Listed[i] <= Listed[i + 1]
  BY DEF IInv, Sorting
<1>2. TypeOK /\ ListShape /\ Len(chain) \in Nat /\ k \in Nat
  BY ChainFacts DEF IInv
<1>3. \A i \in 1 .. Len(chain) : chain[i] \in Nodes
  BY <1>2, ChainFacts
<1>4. CASE /\ k < Len(chain) /\ cursor' = chain[k + 1]
           /\ Exchanges(k) /\ swapped' = TRUE
  <2>1. k \in 1 .. Len(chain) - 1 /\ k + 1 \in 1 .. Len(chain)
    BY <1>2, <1>4
  <2>2. TypeOK' /\ ListShape'
    BY <1>2, <1>3, <1>4, <2>1, ShapeOfExchange
  <2>3. Sorting'
    <3>1. chain' = chain
      BY <1>4 DEF Exchanges, Contents
    <3> QED BY <1>4, <2>1, <3>1 DEF Sorting
  <2> QED BY <2>2, <2>3 DEF IInv
<1>5. CASE /\ k < Len(chain) /\ cursor' = chain[k + 1]
           /\ UNCHANGED <<Contents, fault, element, swapped>>
           /\ Listed[k] <= Listed[k + 1]
  <2>1. k + 1 \in 1 .. Len(chain)
    BY <1>2, <1>5
  <2>2. chain' = chain /\ Listed' = Listed /\ swapped' = swapped
    BY <1>5 DEF Contents, Listed
  <2>3. TypeOK' /\ ListShape'
    BY <1>2, <1>3, <1>5, <2>1, ShapeOfKeep DEF KeepsList, Contents, TypeOK
  <2>4. ~swapped => \A i \in 1 .. (k + 1) - 1 : Listed[i] <= Listed[i + 1]
    <3>1. \A i \in 1 .. (k + 1) - 1 : i = k \/ i \in 1 .. k - 1
      BY <1>2
    <3> QED BY <1>1, <1>5, <3>1
  <2>5. Sorting'
    BY <1>5, <2>1, <2>2, <2>4 DEF Sorting
  <2> QED BY <2>3, <2>5 DEF IInv
<1>6. CASE /\ swapped' = FALSE
           /\ UNCHANGED <<Contents, fault, element>>
           /\ cursor' = IF swapped THEN head ELSE NULL
  <2>1. chain' = chain
    BY <1>6 DEF Contents
  <2>2. TypeOK' /\ ListShape'
    BY <1>2, <1>6, ShapeOfKeep DEF KeepsList, Contents, TypeOK
  <2>3. 1 \in 1 .. Len(chain) /\ head = chain[1] /\ 1 .. 1 - 1 = {}
    BY <1>2 DEF ListShape, Neighbour
  <2>4. Sorting'
    BY <1>6, <2>1, <2>3 DEF Sorting
  <2> QED BY <2>2, <2>4 DEF IInv
<1> QED BY <1>1, <1>2, <1>4, <1>5, <1>6, SortGoes

-----------------------------------------------------------------------------
(* Every step *)

LEMMA InitInv == Init => IInv
<1> SUFFICES ASSUME Init PROVE IInv
  OBVIOUS
<1>1. chain \in Seq(Nodes) /\ Len(chain) = 0
  BY EmptySeq DEF Init
<1>2. TypeOK
  <2>1. /\ {head, tail, ref, cursor} \subseteq Nodes \cup {NULL}
        /\ size \in 0 .. Len(chain)
    BY <1>1 DEF Init
  <2>2. /\ next \in [Nodes -> Nodes \cup {NULL}]
        /\ prev \in [Nodes -> Nodes \cup {NULL}]
        /\ element \in [Nodes -> Elements \cup {NULL}]
    BY DEF Init
  <2> QED BY <1>1, <2>1, <2>2 DEF Init, TypeOK
<1>3. ListShape
  BY <1>1 DEF Init, ListShape, Neighbour
<1> QED BY <1>2, <1>3 DEF Init, IInv, Sorting

LEMMA CallStepInv ==
  ASSUME IInv, fault = "none", cursor = NULL, Call
  PROVE  IInv'
<1>1. TypeOK /\ ListShape
  BY DEF IInv
<1>2. \/ Inserts \/ Removes \/ Clears
      \/ /\ KeepsList
         /\ UNCHANGED sort \/ (head # NULL /\ cursor' = head /\ swapped' = FALSE)
  BY <1>1, CallStep
<1>3. CASE Inserts \/ Removes \/ Clears
  <2>1. TypeOK' /\ ListShape'
    BY <1>1, <1>3, ShapeOfInsert, ShapeOfRemove, ShapeOfClear DEF Inserts, Removes
  <2>2. cursor' = NULL
    BY <1>3 DEF Inserts, Removes, Clears, InsertsAt, RemovesAt, sort
  <2> QED BY <2>1, <2>2 DEF IInv, Sorting
<1>4. CASE KeepsList /\ UNCHANGED sort
  <2>1. TypeOK' /\ ListShape'
    BY <1>1, <1>4, ShapeOfKeep DEF TypeOK, sort
  <2> QED BY <1>4, <2>1 DEF IInv, Sorting, sort
<1>5. CASE KeepsList /\ head # NULL /\ cursor' = head /\ swapped' = FALSE
  <2>1. TypeOK' /\ ListShape'
    BY <1>1, <1>5, ShapeOfKeep DEF TypeOK
  <2>2. 1 \in 1 .. Len(chain) /\ head = chain[1] /\ 1 .. 1 - 1 = {}
    BY <1>1, <1>5, ChainFacts DEF ListShape, Neighbour
  <2>3. chain' = chain
    BY <1>5 DEF KeepsList
  <2>4. Sorting'
    BY <1>5, <2>2, <2>3 DEF Sorting
  <2> QED BY <2>1, <2>4 DEF IInv
<1> QED BY <1>2, <1>3, <1>4, <1>5

LEMMA StepInv == IInv /\ [Next]_vars => IInv'
<1> SUFFICES ASSUME IInv, [Next]_vars PROVE IInv'
  OBVIOUS
<1>1. CASE fault = "none" /\ cursor = NULL /\ Call
  BY <1>1, CallStepInv
<1>2. CASE dpl_sort
  <2>1. cursor # NULL
    BY <1>2 DEF dpl_sort, SortStep, SortEndPass
  <2> QED BY <1>2, <2>1, SortStepInv
<1>3. CASE UNCHANGED vars
  <2>1. TypeOK' /\ ListShape'
    BY <1>3, ShapeOfKeep DEF IInv, TypeOK, KeepsList, vars, sort
  <2>2. Sorting'
    BY <1>3 DEF IInv, Sorting, Listed, vars, sort
  <2> QED BY <2>1, <2>2 DEF IInv
<1> QED BY <1>1, <1>2, <1>3 DEF Next

(***************************************************************************)
(* Whatever is called, the invariant holds.                                *)
(***************************************************************************)
THEOREM Invariance == Spec => []IInv
<1> QED BY InitInv, StepInv, PTL DEF Spec

(***************************************************************************)
(* Every field of dplist_t and dplist_node_t keeps its type.               *)
(***************************************************************************)
THEOREM TypeCorrect == Spec => []TypeOK
<1>1. IInv => TypeOK
  BY DEF IInv
<1> QED BY <1>1, Invariance, PTL

(***************************************************************************)
(* After every call of dplist.c the list is well formed from both ends,    *)
(* its size is right, and no node of it is lost or in it twice.            *)
(***************************************************************************)
THEOREM ListWellFormed == Spec => []ListShape
<1>1. IInv => ListShape
  BY DEF IInv
<1> QED BY <1>1, Invariance, PTL
-----------------------------------------------------------------------------
(* What a step does to the callers' list *)

\* A step inserts one element, removes one, removes all, exchanges two
\* neighbours or leaves nodes and elements as they are.
LEMMA StepIs ==
  ASSUME IInv, [Next]_vars
  PROVE  \/ cursor = NULL /\ (Inserts \/ Removes \/ Clears)
         \/ UNCHANGED <<chain, element, live>>
         \/ cursor # NULL /\ \E k \in 1 .. Len(chain) - 1 : Exchanges(k)
<1>1. TypeOK /\ ListShape /\ Len(chain) \in Nat
  BY ChainFacts DEF IInv
<1>2. CASE fault = "none" /\ cursor = NULL /\ Call
  BY <1>1, <1>2, CallStep DEF KeepsList
<1>3. CASE dpl_sort
  <2>1. cursor # NULL
    BY <1>3 DEF dpl_sort, SortStep, SortEndPass
  <2>2. PICK k \in 1 .. Len(chain) : cursor = chain[k]
    BY <2>1 DEF IInv, Sorting
  <2>3. k < Len(chain) => k \in 1 .. Len(chain) - 1
    BY <1>1
  <2>4. \/ k < Len(chain) /\ Exchanges(k)
        \/ UNCHANGED <<Contents, element>>
    BY <1>1, <1>3, <2>2, SortGoes
  <2> QED BY <2>1, <2>3, <2>4 DEF Contents
<1>4. CASE UNCHANGED vars
  BY <1>4 DEF vars
<1> QED BY <1>2, <1>3, <1>4 DEF Next

LEMMA SortReturnsSorted ==
  ASSUME IInv, [Next]_vars, cursor # NULL, cursor' = NULL
  PROVE  Sorted'
<1>1. PICK k \in 1 .. Len(chain) :
        /\ cursor = chain[k]
        /\ ~swapped => \A i \in 1 .. k - 1 : Listed[i] <= Listed[i + 1]
  BY DEF IInv, Sorting
<1>2. TypeOK /\ ListShape
  BY DEF IInv
<1>3. dpl_sort
  BY DEF Next, vars
<1>4. Len(chain) \in Nat /\ \A i \in 1 .. Len(chain) : chain[i] # NULL
  BY <1>2, ChainFacts
<1>5. head # NULL
  BY <1>2, <1>4 DEF ListShape, Neighbour
<1>6. k < Len(chain) => chain[k + 1] # NULL
  BY <1>4
<1>7. /\ k = Len(chain) /\ ~swapped
      /\ UNCHANGED <<Contents, element>>
  BY <1>1, <1>2, <1>3, <1>5, <1>6, SortGoes
<1>8. chain' = chain /\ Listed' = Listed
  BY <1>7 DEF Contents, Listed
<1> QED BY <1>1, <1>7, <1>8 DEF Sorted

(***************************************************************************)
(* dpl_sort returns only when the elements are in order: a pass that has   *)
(* exchanged none has compared every two neighbours.                       *)
(***************************************************************************)
THEOREM SortLeavesSorted == Spec => SortSorts
<1>1. IInv /\ [Next]_vars => [cursor # NULL /\ cursor' = NULL => Sorted']_vars
  BY SortReturnsSorted
<1> QED BY <1>1, Invariance, PTL DEF Spec, SortSorts

-----------------------------------------------------------------------------
(* References *)

LEMMA InsertKeepsReferences ==
  ASSUME IInv, NEW p \in 1 .. Len(chain) + 1, NEW n \in Nodes,
         NEW x \in Elements, InsertsAt(p, n, x)
  PROVE  /\ \A i, j \in 1 .. Len(chain), k, l \in 1 .. Len(chain') :
              chain[i] = chain'[k] /\ chain[j] = chain'[l] /\ i < j => k < l
         /\ live \ live' = {}
         /\ \A m \in live \cap live' : element'[m] = element[m]
<1>1. TypeOK /\ ListShape /\ Len(chain) \in Nat /\ p \in Nat
  BY ChainFacts DEF IInv
<1>2. /\ n \notin live /\ live' = live \cup {n}
      /\ element' = [element EXCEPT ![n] = x]
      /\ Len(chain') = Len(chain) + 1
      /\ \A i \in 1 .. Len(chain) + 1 :
           chain'[i] = IF i < p THEN chain[i] ELSE IF i = p THEN n ELSE chain[i - 1]
  BY DEF InsertsAt
<1>3. \A i \in 1 .. Len(chain) : chain[i] \in live
  BY <1>1 DEF ListShape
<1>4. \A i, j \in 1 .. Len(chain) : chain[i] = chain[j] => i = j
  BY <1>1 DEF ListShape
<1>5. ASSUME NEW i \in 1 .. Len(chain), NEW k \in 1 .. Len(chain'), chain[i] = chain'[k]
      PROVE  k = IF i < p THEN i ELSE i + 1
  <2>1. CASE k < p
    <3>1. k \in 1 .. Len(chain) /\ chain'[k] = chain[k]
      BY <1>1, <1>2, <2>1
    <3>2. k = i
      BY <1>4, <1>5, <3>1
    <3> QED BY <1>1, <2>1, <3>2
  <2>2. CASE k = p
    BY <1>1, <1>2, <1>3, <1>5, <2>2
  <2>3. CASE k > p
    <3>1. k - 1 \in 1 .. Len(chain) /\ chain'[k] = chain[k - 1]
      BY <1>1, <1>2, <2>3
    <3>2. k - 1 = i
      BY <1>4, <1>5, <3>1
    <3> QED BY <1>1, <1>2, <2>3, <3>2
  <2> QED BY <1>1, <1>2, <2>1, <2>2, <2>3
<1>6. ASSUME NEW i \in 1 .. Len(chain), NEW j \in 1 .. Len(chain),
             NEW k \in 1 .. Len(chain'), NEW l \in 1 .. Len(chain'),
             chain[i] = chain'[k], chain[j] = chain'[l], i < j
      PROVE  k < l
  <2>1. k = (IF i < p THEN i ELSE i + 1) /\ l = (IF j < p THEN j ELSE j + 1)
    BY <1>5, <1>6
  <2> QED BY <1>1, <1>6, <2>1
<1>7. \A m \in live \cap live' : element'[m] = element[m]
  BY <1>1, <1>2 DEF TypeOK
<1> QED BY <1>2, <1>6, <1>7

LEMMA RemoveKeepsReferences ==
  ASSUME IInv, NEW p \in 1 .. Len(chain), RemovesAt(p)
  PROVE  /\ \A i, j \in 1 .. Len(chain), k, l \in 1 .. Len(chain') :
              chain[i] = chain'[k] /\ chain[j] = chain'[l] /\ i < j => k < l
         /\ \A m, n \in live \ live' : m = n
         /\ \A m \in live \cap live' : element'[m] = element[m]
<1>1. TypeOK /\ ListShape /\ Len(chain) \in Nat /\ p \in Nat
  BY ChainFacts DEF IInv
<1>2. /\ live' = live \ {chain[p]}
      /\ element' = [element EXCEPT ![chain[p]] = NULL]
      /\ Len(chain') = Len(chain) - 1
      /\ \A i \in 1 .. Len(chain) - 1 :
           chain'[i] = IF i < p THEN chain[i] ELSE chain[i + 1]
  BY DEF RemovesAt
<1>3. \A i, j \in 1 .. Len(chain) : chain[i] = chain[j] => i = j
  BY <1>1 DEF ListShape
<1>4. ASSUME NEW i \in 1 .. Len(chain), NEW k \in 1 .. Len(chain'), chain[i] = chain'[k]
      PROVE  i = IF k < p THEN k ELSE k + 1
  <2>1. CASE k < p
    <3>1. k \in 1 .. Len(chain) /\ chain'[k] = chain[k]
      BY <1>1, <1>2, <2>1
    <3> QED BY <1>3, <1>4, <2>1, <3>1
  <2>2. CASE ~(k < p)
    <3>1. k + 1 \in 1 .. Len(chain) /\ chain'[k] = chain[k + 1]
      BY <1>1, <1>2, <2>2
    <3> QED BY <1>3, <1>4, <2>2, <3>1
  <2> QED BY <2>1, <2>2
<1>5. ASSUME NEW i \in 1 .. Len(chain), NEW j \in 1 .. Len(chain),
             NEW k \in 1 .. Len(chain'), NEW l \in 1 .. Len(chain'),
             chain[i] = chain'[k], chain[j] = chain'[l], i < j
      PROVE  k < l
  <2>1. i = (IF k < p THEN k ELSE k + 1) /\ j = (IF l < p THEN l ELSE l + 1)
    BY <1>4, <1>5
  <2> QED BY <1>1, <1>2, <1>5, <2>1
<1>6. \A m \in live \cap live' : element'[m] = element[m]
  BY <1>1, <1>2 DEF TypeOK
<1> QED BY <1>2, <1>5, <1>6

LEMMA StepKeepsReferences ==
  ASSUME IInv, [Next]_vars
  PROVE  /\ \A i, j \in 1 .. Len(chain), k, l \in 1 .. Len(chain') :
              chain[i] = chain'[k] /\ chain[j] = chain'[l] /\ i < j => k < l
         /\ chain' # <<>> => \A m, n \in live \ live' : m = n
         /\ cursor = NULL => \A n \in live \cap live' : element'[n] = element[n]
<1>1. ListShape /\ Len(chain) \in Nat
  BY ChainFacts DEF IInv
<1>2. CASE Inserts
  <2>1. PICK p \in 1 .. Len(chain) + 1, n \in Nodes, x \in Elements : InsertsAt(p, n, x)
    BY <1>2 DEF Inserts
  <2> QED BY <2>1, InsertKeepsReferences
<1>3. CASE Removes
  <2>1. PICK p \in 1 .. Len(chain) : RemovesAt(p)
    BY <1>3 DEF Removes
  <2> QED BY <2>1, RemoveKeepsReferences
<1>4. CASE Clears
  <2>1. Len(chain') = 0 /\ chain' = <<>> /\ live' = {}
    BY <1>4 DEF Clears
  <2>2. 1 .. Len(chain') = {}
    BY <2>1
  <2> QED BY <2>1, <2>2
<1>5. CASE chain' = chain /\ live' = live /\ (cursor = NULL => element' = element)
  <2>1. ASSUME NEW i \in 1 .. Len(chain), NEW j \in 1 .. Len(chain),
               NEW k \in 1 .. Len(chain'), NEW l \in 1 .. Len(chain'),
               chain[i] = chain'[k], chain[j] = chain'[l], i < j
        PROVE  k < l
    <3>1. i = k /\ j = l
      BY <1>1, <1>5, <2>1 DEF ListShape
    <3> QED BY <2>1, <3>1
  <2> QED BY <1>5, <2>1
<1>6. \A k : Exchanges(k) => chain' = chain /\ live' = live
  BY DEF Exchanges, Contents
<1> QED BY <1>2, <1>3, <1>4, <1>5, <1>6, StepIs

(***************************************************************************)
(* A reference a caller keeps stays good through every call but the        *)
(* removal of its own node.                                                *)
(***************************************************************************)
THEOREM ReferencesKept == Spec => ReferencesStayGood
<1>1. IInv /\ [Next]_vars =>
        [/\ \A i, j \in 1 .. Len(chain), k, l \in 1 .. Len(chain') :
              chain[i] = chain'[k] /\ chain[j] = chain'[l] /\ i < j => k < l
         /\ chain' # <<>> => \A m, n \in live \ live' : m = n
         /\ cursor = NULL => \A n \in live \cap live' : element'[n] = element[n]]_vars
  BY StepKeepsReferences
<1> QED BY <1>1, Invariance, PTL DEF Spec, ReferencesStayGood
-----------------------------------------------------------------------------
(* The list of elements *)

LEMMA ListOfInsert ==
  ASSUME IInv, IInv', NEW p \in 1 .. Len(chain) + 1, NEW n \in Nodes,
         NEW x \in Elements, InsertsAt(p, n, x)
  PROVE  Listed' = InsertAt(Listed, p, x)
<1>1. TypeOK /\ ListShape /\ TypeOK' /\ ListShape'
  BY DEF IInv
<1>2. /\ Len(chain) \in Nat /\ p \in Nat
      /\ Listed \in Seq(Elements) /\ Len(Listed) = Len(chain)
      /\ \A k \in 1 .. Len(chain) : Listed[k] = element[chain[k]] /\ chain[k] \in live
  <2>1. \A k \in 1 .. Len(chain) : chain[k] \in live
    BY <1>1 DEF ListShape
  <2>2. Len(chain) \in Nat /\ p \in Nat
    BY <1>1, ChainFacts
  <2> QED BY <1>1, <2>1, <2>2, ChainFacts
<1>3. /\ n \notin live /\ n \in Nodes
      /\ element' = [element EXCEPT ![n] = x] /\ element \in [Nodes -> Elements \cup {NULL}]
      /\ Len(chain') = Len(chain) + 1
      /\ \A i \in 1 .. Len(chain) + 1 :
           chain'[i] = IF i < p THEN chain[i] ELSE IF i = p THEN n ELSE chain[i - 1]
  BY <1>1 DEF InsertsAt, TypeOK
<1>4. /\ Listed' \in Seq(Elements) /\ Len(Listed') = Len(chain')
      /\ \A k \in 1 .. Len(chain') : Listed'[k] = element'[chain'[k]]
  <2>1. \A k \in 1 .. Len(chain') : element'[chain'[k]] \in Elements
    BY <1>1 DEF ListShape
  <2> QED BY <1>2, <1>3, <2>1 DEF Listed
<1>5. /\ InsertAt(Listed, p, x) \in Seq(Elements)
      /\ Len(InsertAt(Listed, p, x)) = Len(Listed) + 1
      /\ \A i \in 1 .. Len(Listed) + 1 :
           InsertAt(Listed, p, x)[i] =
             IF i < p THEN Listed[i] ELSE IF i = p THEN x ELSE Listed[i - 1]
  <2>1. p \in 1 .. Len(Listed) + 1
    BY <1>2
  <2>2. Listed \in Seq(Elements) /\ x \in Elements
    BY <1>2
  <2>3. InsertAt(Listed, p, x) \in Seq(Elements)
    BY ONLY <2>1, <2>2, InsertAtFacts
  <2>4. Len(InsertAt(Listed, p, x)) = Len(Listed) + 1
    BY ONLY <2>1, <2>2, InsertAtFacts
  <2>5. ASSUME NEW i \in 1 .. Len(Listed) + 1
        PROVE  InsertAt(Listed, p, x)[i] =
                 IF i < p THEN Listed[i] ELSE IF i = p THEN x ELSE Listed[i - 1]
    BY ONLY <2>1, <2>2, InsertAtFacts, i \in 1 .. Len(Listed) + 1
  <2> QED BY <2>3, <2>4, <2>5
<1>6. ASSUME NEW i \in 1 .. Len(chain) + 1
      PROVE  Listed'[i] = InsertAt(Listed, p, x)[i]
  <2>1. \A k \in 1 .. Len(chain) : element'[chain[k]] = Listed[k]
    BY <1>1, <1>2, <1>3 DEF TypeOK
  <2>2. CASE i < p
    <3>1. i \in 1 .. Len(chain)
      BY <1>2, <2>2
    <3>2. chain'[i] = chain[i] /\ InsertAt(Listed, p, x)[i] = Listed[i]
      BY <1>2, <1>3, <1>5, <2>2
    <3> QED BY <1>3, <1>4, <2>1, <3>1, <3>2
  <2>3. CASE i = p
    BY <1>2, <1>3, <1>4, <1>5, <2>3
  <2>4. CASE i > p
    <3>1. i - 1 \in 1 .. Len(chain) /\ ~(i < p) /\ i # p
      BY <1>2, <2>4
    <3>2. chain'[i] = chain[i - 1]
      BY <1>3, <3>1
    <3>3. InsertAt(Listed, p, x)[i] = Listed[i - 1]
      BY <1>2, <1>5, <3>1
    <3>4. Listed'[i] = element'[chain'[i]]
      BY <1>3, <1>4
    <3>5. element'[chain[i - 1]] = Listed[i - 1]
      BY <2>1, <3>1
    <3> QED BY <3>2, <3>3, <3>4, <3>5
  <2> QED BY <1>2, <2>2, <2>3, <2>4
<1> QED BY <1>2, <1>3, <1>4, <1>5, <1>6, SameSeq

LEMMA ListOfRemove ==
  ASSUME IInv, IInv', NEW p \in 1 .. Len(chain), RemovesAt(p)
  PROVE  Listed' = RemoveAt(Listed, p)
<1>1. TypeOK /\ ListShape /\ TypeOK' /\ ListShape'
  BY DEF IInv
<1>2. /\ Len(chain) \in Nat /\ p \in Nat
      /\ Listed \in Seq(Elements) /\ Len(Listed) = Len(chain)
      /\ \A k \in 1 .. Len(chain) : Listed[k] = element[chain[k]] /\ chain[k] \in Nodes
  BY <1>1, ChainFacts
<1>3. /\ element' = [element EXCEPT ![chain[p]] = NULL]
      /\ element \in [Nodes -> Elements \cup {NULL}]
      /\ Len(chain') = Len(chain) - 1
      /\ \A i \in 1 .. Len(chain) - 1 :
           chain'[i] = IF i < p THEN chain[i] ELSE chain[i + 1]
      /\ \A j, k \in 1 .. Len(chain) : chain[j] = chain[k] => j = k
  BY <1>1 DEF RemovesAt, TypeOK, ListShape
<1>4. /\ Listed' \in Seq(Elements) /\ Len(Listed') = Len(chain')
      /\ \A k \in 1 .. Len(chain') : Listed'[k] = element'[chain'[k]]
  <2>1. \A k \in 1 .. Len(chain') : element'[chain'[k]] \in Elements
    BY <1>1 DEF ListShape
  <2> QED BY <1>2, <1>3, <2>1 DEF Listed
<1>5. /\ RemoveAt(Listed, p) \in Seq(Elements)
      /\ Len(RemoveAt(Listed, p)) = Len(Listed) - 1
      /\ \A i \in 1 .. Len(Listed) - 1 :
           RemoveAt(Listed, p)[i] = IF i < p THEN Listed[i] ELSE Listed[i + 1]
  <2>1. p \in 1 .. Len(Listed)
    BY <1>2
  <2> QED BY <1>2, <2>1, RemoveAtFacts
<1>6. ASSUME NEW i \in 1 .. Len(chain) - 1
      PROVE  Listed'[i] = RemoveAt(Listed, p)[i]
  <2>1. \A k \in 1 .. Len(chain) : k # p => element'[chain[k]] = Listed[k]
    BY <1>2, <1>3
  <2>2. CASE i < p
    <3>1. i \in 1 .. Len(chain) /\ i # p
      BY <1>2, <2>2
    <3>2. chain'[i] = chain[i] /\ RemoveAt(Listed, p)[i] = Listed[i]
      BY <1>2, <1>3, <1>5, <2>2
    <3> QED BY <1>3, <1>4, <2>1, <3>1, <3>2
  <2>3. CASE ~(i < p)
    <3>1. i + 1 \in 1 .. Len(chain) /\ i + 1 # p
      BY <1>2, <2>3
    <3>2. chain'[i] = chain[i + 1] /\ RemoveAt(Listed, p)[i] = Listed[i + 1]
      BY <1>2, <1>3, <1>5, <2>3
    <3> QED BY <1>3, <1>4, <2>1, <3>1, <3>2
  <2> QED BY <2>2, <2>3
<1> QED BY <1>2, <1>3, <1>4, <1>5, <1>6, SameSeq

LEMMA ListOfExchange ==
  ASSUME IInv, IInv', NEW k \in 1 .. Len(chain) - 1, Exchanges(k)
  PROVE  L!Exchange(k)
<1>1. TypeOK /\ ListShape /\ TypeOK' /\ ListShape'
  BY DEF IInv
<1>2. /\ Len(chain) \in Nat
      /\ Listed \in Seq(Elements) /\ Len(Listed) = Len(chain)
      /\ \A i \in 1 .. Len(chain) : Listed[i] = element[chain[i]] /\ chain[i] \in Nodes
  BY <1>1, ChainFacts
<1>3. k \in 1 .. Len(chain) /\ k + 1 \in 1 .. Len(chain) /\ k # k + 1
  BY <1>2
<1>4. /\ chain' = chain
      /\ element[chain[k]] > element[chain[k + 1]]
      /\ element' = [element EXCEPT ![chain[k]]     = element[chain[k + 1]],
                                    ![chain[k + 1]] = element[chain[k]]]
      /\ element \in [Nodes -> Elements \cup {NULL}]
      /\ \A i, j \in 1 .. Len(chain) : chain[i] = chain[j] => i = j
  BY <1>1 DEF Exchanges, Contents, TypeOK, ListShape
<1>5. \A i \in 1 .. Len(chain) :
        element'[chain[i]] = IF i = k + 1 THEN Listed[k]
                             ELSE IF i = k THEN Listed[k + 1] ELSE Listed[i]
  BY <1>2, <1>3, <1>4
<1>6. Listed' = [i \in 1 .. Len(chain) |-> element'[chain[i]]]
  BY <1>4 DEF Listed
<1>7. Listed' = [Listed EXCEPT ![k] = Listed[k + 1], ![k + 1] = Listed[k]]
  BY <1>2, <1>3, <1>5, <1>6 DEF Listed
<1> QED BY <1>2, <1>3, <1>4, <1>7 DEF L!Exchange

LEMMA StepOfList ==
  ASSUME IInv, IInv', [Next]_vars
  PROVE  [L!Next]_Listed
<1>1. TypeOK /\ ListShape /\ Len(chain) \in Nat /\ Len(Listed) = Len(chain)
  BY ChainFacts DEF IInv
<1>2. CASE Inserts
  <2>1. PICK p \in 1 .. Len(chain) + 1, n \in Nodes, x \in Elements : InsertsAt(p, n, x)
    BY <1>2 DEF Inserts
  <2>2. Listed' = InsertAt(Listed, p, x)
    BY <2>1, ListOfInsert
  <2>3. L!Insert(p, x)
    BY <2>2 DEF L!Insert, InsertAt, L!InsertAt
  <2> QED BY <1>1, <2>3 DEF L!Next
<1>3. CASE Removes
  <2>1. PICK p \in 1 .. Len(chain) : RemovesAt(p)
    BY <1>3 DEF Removes
  <2>2. Listed' = RemoveAt(Listed, p)
    BY <2>1, ListOfRemove
  <2>3. L!Delete(p)
    BY <2>2 DEF L!Delete, RemoveAt, L!RemoveAt
  <2> QED BY <1>1, <2>3 DEF L!Next
<1>4. CASE Clears
  <2>1. Listed' = <<>>
    BY <1>4 DEF Clears, Listed
  <2> QED BY <2>1 DEF L!Next, L!Clear
<1>5. CASE UNCHANGED <<chain, element, live>>
  BY <1>5 DEF Listed
<1>6. CASE \E k \in 1 .. Len(chain) - 1 : Exchanges(k)
  BY <1>1, <1>6, ListOfExchange DEF L!Next
<1> QED BY <1>2, <1>3, <1>4, <1>5, <1>6, StepIs

(***************************************************************************)
(* The nodes implement the sequence of elements of module ElementList:     *)
(* every call inserts one element, takes one away, clears the list or      *)
(* exchanges two neighbours, whatever pointers it moves.                   *)
(***************************************************************************)
THEOREM Refinement == Spec => ImplementsList
<1>1. Init => L!Init
  BY DEF Init, L!Init, Listed
<1>2. IInv /\ IInv' /\ [Next]_vars => [L!Next]_Listed
  BY StepOfList
<1> QED BY <1>1, <1>2, Invariance, PTL DEF Spec, ImplementsList, L!Spec

\* An index stands for the place that the call acts at.
LEMMA IndexedStep ==
  ASSUME IInv, IInv', fault = "none"
  PROVE  /\ \A x \in Elements, i \in -1 .. size + 1 :
              dpl_insert_at_index(x, i) => Listed' = InsertAt(Listed, InsertPlace(i), x)
         /\ \A i \in -1 .. size + 1 :
              dpl_remove_at_index(i) =>
                fault' # "none" \/ Listed' = RemoveAt(Listed, RemovePlace(i))
<1>1. TypeOK /\ ListShape /\ size \in Nat
  BY ChainFacts DEF IInv
<1>2. -1 .. size + 1 \subseteq Int
  BY <1>1
<1>3. ASSUME NEW x \in Elements, NEW i \in Int, dpl_insert_at_index(x, i)
      PROVE  Listed' = InsertAt(Listed, InsertPlace(i), x)
  <2> DEFINE p == InsertPlace(i)
  <2>1. PICK n \in Nodes : p \in 1 .. Len(chain) + 1 /\ InsertsAt(p, n, x)
    BY <1>1, <1>3, InsertAtIndexPlace
  <2> HIDE DEF p
  <2>2. Listed' = InsertAt(Listed, p, x)
    BY <2>1, ListOfInsert
  <2> QED BY <2>2 DEF p
<1>4. ASSUME NEW i \in Int, dpl_remove_at_index(i), fault' = "none"
      PROVE  Listed' = RemoveAt(Listed, RemovePlace(i))
  <2> DEFINE p == RemovePlace(i)
  <2>1. p \in 1 .. Len(chain) /\ RemovesAt(p)
    BY <1>1, <1>4, RemoveAtIndexPlace DEF Crash
  <2> HIDE DEF p
  <2>2. Listed' = RemoveAt(Listed, p)
    BY <2>1, ListOfRemove
  <2> QED BY <2>2 DEF p
<1> QED BY <1>2, <1>3, <1>4

(***************************************************************************)
(* A call with an index acts at that index, whichever of its three ways    *)
(* through the pointers it takes, and leaves the other elements in order.  *)
(***************************************************************************)
THEOREM IndexedCallsAct == Spec => CallsActAtIndex
<1>1. IInv /\ IInv' /\ [Next]_vars =>
        [/\ \A x \in Elements, i \in -1 .. size + 1 :
              dpl_insert_at_index(x, i) => Listed' = InsertAt(Listed, InsertPlace(i), x)
         /\ \A i \in -1 .. size + 1 :
              dpl_remove_at_index(i) =>
                fault' # "none" \/ Listed' = RemoveAt(Listed, RemovePlace(i))]_vars
  <2>1. [Next]_vars => fault = "none" \/ UNCHANGED vars
    BY DEF Next
  <2> QED BY <2>1, IndexedStep
<1> QED BY <1>1, Invariance, PTL DEF Spec, CallsActAtIndex
-----------------------------------------------------------------------------
(* Queries *)

\* dpl_get_index_of_reference finds the place of each node.
LEMMA IndexFacts ==
  ASSUME TypeOK, ListShape, NEW k \in 1 .. Len(chain)
  PROVE  dpl_get_index_of_reference(chain[k]) = k - 1
<1> DEFINE found == {i \in Places : Follow(i) = chain[k]}
<1>1. Len(chain) \in Nat /\ k \in Nat /\ k - 1 \in 0 .. Len(chain) - 1
  BY ChainFacts
<1>2. \A i \in 0 .. Len(chain) - 1 : Follow(i) = chain[k] <=> i = k - 1
  <2>1. ASSUME NEW i \in 0 .. Len(chain) - 1
        PROVE  Follow(i) = chain[k] <=> i = k - 1
    <3>1. Follow(i) = chain[i + 1] /\ i + 1 \in 1 .. Len(chain)
      BY <1>1, FollowFacts
    <3>2. chain[i + 1] = chain[k] <=> i + 1 = k
      BY <3>1 DEF ListShape
    <3> QED BY <1>1, <3>1, <3>2
  <2> QED BY <2>1
<1>3. found = {k - 1}
  BY <1>1, <1>2, PlacesFacts
<1>4. found \in SUBSET Nat /\ found # {}
  BY <1>1, <1>3
<1>5. dpl_get_index_of_reference(chain[k]) = First(found)
  BY DEF dpl_get_index_of_reference
<1> HIDE DEF found
<1> QED BY <1>3, <1>4, <1>5, FirstFacts

\* dpl_copy inserts behind all it has copied, so the copy is in order.
LEMMA CopyFacts ==
  ASSUME TypeOK, ListShape
  PROVE  dpl_copy = Listed
<1> DEFINE N == Len(chain)
           rest(f, k) ==
             IF k = 0 THEN <<>>
             ELSE IF k - 1 \notin Places THEN f[k - 1]
             ELSE IF Len(f[k - 1]) <= 0 THEN <<element[Follow(k - 1)]>> \o f[k - 1]
             ELSE Append(f[k - 1], element[Follow(k - 1)])
           copy == CHOOSE f : f = [k \in 0 .. size |-> rest(f, k)]
           up(k) == [j \in 1 .. k |-> Listed[j]]
           g == [k \in 0 .. size |-> up(k)]
           S == {k \in Nat : k <= N => copy[k] = up(k)}
<1>1. /\ N \in Nat /\ size = N /\ Places = 0 .. N - 1
      /\ Listed \in Seq(Elements) /\ Len(Listed) = N
      /\ \A k \in 1 .. N : Listed[k] \in Elements /\ Listed[k] = element[chain[k]]
  BY ChainFacts, PlacesFacts
<1>2. \A k \in 1 .. N : k - 1 \in Places /\ element[Follow(k - 1)] = Listed[k]
  <2>1. ASSUME NEW k \in 1 .. N
        PROVE  k - 1 \in 0 .. N - 1 /\ (k - 1) + 1 = k
    BY <1>1
  <2> QED BY <1>1, <2>1, FollowFacts
<1>3. \A k \in 0 .. N : up(k) \in Seq(Elements) /\ Len(up(k)) = k
  BY <1>1
<1>4. up(0) = <<>>
  BY <1>1, <1>3, SeqFacts
<1>5. ASSUME NEW k \in 1 .. N
      PROVE  up(k) = IF Len(up(k - 1)) <= 0 THEN <<Listed[k]>> \o up(k - 1)
                     ELSE Append(up(k - 1), Listed[k])
  <2>1. /\ k - 1 \in 0 .. N /\ k \in 0 .. N /\ Listed[k] \in Elements
        /\ (k - 1) + 1 = k
    BY <1>1
  <2>2. up(k) = Append(up(k - 1), Listed[k])
    <3> DEFINE t == Append(up(k - 1), Listed[k])
    <3>1. /\ t \in Seq(Elements) /\ Len(t) = k
          /\ \A i \in 1 .. k - 1 : t[i] = up(k - 1)[i]
          /\ t[k] = Listed[k]
      <4>1. up(k - 1) \in Seq(Elements) /\ Len(up(k - 1)) = k - 1
        BY <1>3, <2>1
      <4> HIDE DEF up
      <4> QED BY <2>1, <4>1, AppendFacts
    <3> HIDE DEF t
    <3>2. \A i \in 1 .. k : up(k)[i] = t[i]
      BY <1>1, <3>1
    <3> QED BY <1>3, <2>1, <3>1, <3>2, SameSeq
  <2>3. CASE Len(up(k - 1)) <= 0
    <3>1. k = 1
      BY <1>3, <2>1, <2>3
    <3>2. up(k - 1) = <<>>
      BY <1>4, <3>1
    <3>3. Append(<< >>, Listed[k]) = <<Listed[k]>> \o << >>
      OBVIOUS
    <3> QED BY <2>2, <2>3, <3>2, <3>3
  <2> QED BY <2>2, <2>3
<1> HIDE DEF up
<1>6. g = [k \in 0 .. size |-> rest(g, k)]
  <2>1. ASSUME NEW k \in 0 .. size
        PROVE  g[k] = rest(g, k)
    <3>1. CASE k = 0
      BY <1>1, <1>4, <3>1
    <3>2. CASE k # 0
      <4>1. k \in 1 .. N /\ k - 1 \in 0 .. size
        BY <1>1, <3>2
      <4>2. g[k - 1] = up(k - 1) /\ g[k] = up(k)
        BY <4>1
      <4> HIDE DEF g
      <4> QED BY <1>2, <1>5, <3>2, <4>1, <4>2
    <3> QED BY <3>1, <3>2
  <2> HIDE DEF rest
  <2> QED BY <2>1
<1>7. copy = [k \in 0 .. size |-> rest(copy, k)]
  <2> HIDE DEF g, rest
  <2> QED BY <1>6
<1> HIDE DEF copy, g
<1>8. /\ copy[0] = <<>>
      /\ \A k \in 1 .. N :
           copy[k] = IF Len(copy[k - 1]) <= 0 THEN <<Listed[k]>> \o copy[k - 1]
                     ELSE Append(copy[k - 1], Listed[k])
  <2>1. \A k \in 0 .. N : copy[k] = rest(copy, k)
    <3> HIDE DEF rest
    <3> QED BY <1>1, <1>7
  <2>2. ASSUME NEW k \in 1 .. N
        PROVE  copy[k] = IF Len(copy[k - 1]) <= 0 THEN <<Listed[k]>> \o copy[k - 1]
                         ELSE Append(copy[k - 1], Listed[k])
    <3>1. k \in 0 .. N /\ k # 0
      BY <1>1
    <3> QED BY <1>2, <2>1, <3>1
  <2>3. 0 \in 0 .. N
    BY <1>1
  <2> QED BY <2>1, <2>2, <2>3
<1>9. 0 \in S
  BY <1>4, <1>8
<1>10. ASSUME NEW k \in Nat, k \in S PROVE k + 1 \in S
  <2> SUFFICES ASSUME k + 1 <= N PROVE copy[k + 1] = up(k + 1)
    OBVIOUS
  <2>1. copy[k] = up(k) /\ k + 1 \in 1 .. N /\ (k + 1) - 1 = k
    BY <1>1, <1>10
  <2> QED BY <1>5, <1>8, <2>1
<1>11. Nat \subseteq S
  <2> HIDE DEF S
  <2> QED BY <1>9, <1>10, SetInduction
<1>12. copy[size] = up(N)
  BY <1>1, <1>11
<1>13. up(N) = Listed
  BY <1>1, <1>3, SameSeq DEF up
<1>14. dpl_copy = copy[size]
  BY DEF dpl_copy, copy
<1> QED BY <1>12, <1>13, <1>14

LEMMA QueriesOfList ==
  ASSUME IInv
  PROVE  QueriesAgree
<1>1. /\ TypeOK /\ ListShape
      /\ Len(chain) \in Nat /\ size = Len(chain)
      /\ chain = <<>> <=> Len(chain) = 0
      /\ Listed \in Seq(Elements) /\ Len(Listed) = Len(chain)
      /\ \A k \in 1 .. Len(chain) : Listed[k] = element[chain[k]] /\ chain[k] # NULL
  BY ChainFacts, SeqFacts DEF IInv
<1>2. \A k : k \in 1 .. Len(chain) => Neighbour(k) = chain[k]
  BY DEF Neighbour
<1>3. ASSUME NEW i \in -1 .. Len(chain) + 1
      PROVE  dpl_get_element_at_index(i) =
               IF chain = <<>> THEN NULL
               ELSE IF i < 0 THEN Listed[1]
               ELSE IF i >= Len(chain) THEN Listed[Len(chain)]
               ELSE Listed[i + 1]
  <2>1. i \in Int
    BY <1>1
  <2>2. dpl_get_reference_at_index(i) =
           IF Len(chain) = 0 THEN NULL
           ELSE IF i <= 0 THEN chain[1]
           ELSE IF i >= Len(chain) THEN chain[Len(chain)]
           ELSE chain[i + 1]
    BY <1>1, <2>1, ReferenceFacts
  <2>3. Len(chain) # 0 => 1 \in 1 .. Len(chain) /\ Len(chain) \in 1 .. Len(chain)
    BY <1>1
  <2>4. i >= 0 /\ i < Len(chain) => i + 1 \in 1 .. Len(chain)
    BY <1>1, <2>1
  <2> QED BY <1>1, <2>1, <2>2, <2>3, <2>4 DEF dpl_get_element_at_index
<1>4. ASSUME NEW x \in Elements
      PROVE  LET i == dpl_get_index_of_element(x)
             IN IF x \notin ToSet(Listed) THEN i = -1
                ELSE Listed[i + 1] = x /\ \A j \in 1 .. i : Listed[j] # x
  <2> DEFINE i == dpl_get_index_of_element(x)
  <2>1. x \in ToSet(Listed) <=> \E k \in 1 .. Len(chain) : Listed[k] = x
    BY <1>1, ToSetFacts
  <2>2. CASE i = -1 /\ \A k \in 1 .. Len(chain) : Listed[k] # x
    BY <2>1, <2>2
  <2>3. ASSUME NEW k \in 1 .. Len(chain), i = k - 1, Listed[k] = x,
               \A j \in 1 .. k - 1 : Listed[j] # x
        PROVE  x \in ToSet(Listed) /\ Listed[i + 1] = x /\ \A j \in 1 .. i : Listed[j] # x
    <3>1. i + 1 = k
      BY <1>1, <2>3
    <3> HIDE DEF i
    <3> QED BY <2>1, <2>3, <3>1
  <2> QED BY <1>1, <2>2, <2>3, SearchFacts
<1>5. ASSUME NEW n \in live
      PROVE  dpl_get_reference_at_index(dpl_get_index_of_reference(n)) = n
  <2>1. PICK k \in 1 .. Len(chain) : n = chain[k]
    BY <1>1 DEF ListShape
  <2>2. dpl_get_index_of_reference(n) = k - 1
    BY <1>1, <2>1, IndexFacts
  <2>3. k \in Nat /\ k - 1 \in Int /\ Len(chain) # 0 /\ k <= Len(chain) /\ k >= 1
    BY <1>1
  <2>4. dpl_get_reference_at_index(k - 1) = chain[k]
    BY <1>1, <2>3, ReferenceFacts
  <2> QED BY <2>1, <2>2, <2>4
<1>6. ASSUME NEW x \in Elements
      PROVE  dpl_get_element_at_reference(dpl_get_reference_of_element(x)) =
               IF x \in ToSet(Listed) THEN x ELSE NULL
  <2>1. x \in ToSet(Listed) <=> \E k \in 1 .. Len(chain) : Listed[k] = x
    BY <1>1, ToSetFacts
  <2>2. CASE dpl_get_reference_of_element(x) = NULL
             /\ \A k \in 1 .. Len(chain) : Listed[k] # x
    BY <2>1, <2>2 DEF dpl_get_element_at_reference
  <2>3. ASSUME NEW k \in 1 .. Len(chain),
               dpl_get_reference_of_element(x) = chain[k], Listed[k] = x
        PROVE  dpl_get_element_at_reference(dpl_get_reference_of_element(x)) = x
               /\ x \in ToSet(Listed)
    BY <1>1, <2>1, <2>3 DEF dpl_get_element_at_reference
  <2> QED BY <2>2, <2>3, SearchFacts, <1>1
<1>7. dpl_get_element_at_reference(dpl_get_first_reference) = dpl_get_first_element
  BY <1>1 DEF dpl_get_element_at_reference, dpl_get_first_reference,
              dpl_get_first_element, dpl_get_element_at_index,
              dpl_get_reference_at_index
<1>8. dpl_get_last_reference = Neighbour(dpl_size)
  BY <1>1, <1>2 DEF dpl_get_last_reference, dpl_size, ListShape, Neighbour
<1> QED BY <1>1, <1>3, <1>4, <1>5, <1>6, <1>7, <1>8, CopyFacts
        DEF QueriesAgree

(***************************************************************************)
(* Indexing, searching and copying agree with the sequence of elements.    *)
(***************************************************************************)
THEOREM QueriesRight == Spec => []QueriesAgree
<1>1. IInv => QueriesAgree
  BY QueriesOfList
<1> QED BY <1>1, Invariance, PTL
-----------------------------------------------------------------------------
(* dpl_insert_sorted *)

\* Whenever dpl_insert_sorted puts an element into a list that is not empty
\* and does not have it yet, the list is not sorted afterwards.
InsertSortedUnsorts ==
  [][\A x \in Elements :
       dpl_insert_sorted(x) /\ chain # <<>> /\ x \notin ToSet(Listed) => ~Sorted']_vars

LEMMA UnsortedStep ==
  ASSUME IInv, IInv', NEW x \in Elements, dpl_insert_sorted(x), chain # <<>>,
         x \notin ToSet(Listed)
  PROVE  ~Sorted'
<1>1. /\ TypeOK /\ ListShape /\ Len(chain) \in Nat \ {0}
      /\ Listed \in Seq(Elements) /\ Len(Listed) = Len(chain)
  BY ChainFacts, SeqFacts DEF IInv
<1>2. \A k \in 1 .. Len(chain) : Listed[k] \in Int /\ Listed[k] # x
  <2>1. \A k \in 1 .. Len(chain) : Listed[k] \in Elements /\ Listed[k] \in ToSet(Listed)
    BY <1>1, SeqFacts, ToSetFacts
  <2> QED BY <2>1, DPListAssumption
<1>3. ASSUME NEW p \in 1 .. Len(chain) + 1, NEW n \in Nodes, InsertsAt(p, n, x)
      PROVE  /\ Len(chain') = Len(chain) + 1
             /\ Listed'[p] = x
             /\ \A k \in 1 .. Len(chain) :
                  Listed'[IF k < p THEN k ELSE k + 1] = Listed[k]
  <2>1. \A s \in Seq(Elements) : \A q \in 1 .. Len(s) + 1, e \in Elements :
          \A i \in 1 .. Len(s) + 1 :
             InsertAt(s, q, e)[i] =
               IF i < q THEN s[i] ELSE IF i = q THEN e ELSE s[i - 1]
    BY InsertAtFacts
  <2>2. Listed' = InsertAt(Listed, p, x)
    BY <1>3, ListOfInsert
  <2>3. p \in 1 .. Len(Listed) + 1
    BY <1>1
  <2>4. \A i \in 1 .. Len(Listed) + 1 :
          Listed'[i] = IF i < p THEN Listed[i] ELSE IF i = p THEN x ELSE Listed[i - 1]
    BY <1>1, <2>1, <2>2, <2>3
  <2>5. Len(chain') = Len(chain) + 1
    BY <1>3 DEF InsertsAt
  <2>6. ASSUME NEW k \in 1 .. Len(chain)
        PROVE  Listed'[IF k < p THEN k ELSE k + 1] = Listed[k]
    <3>1. CASE k < p
      <4>1. k \in 1 .. Len(Listed) + 1
        BY <1>1
      <4> QED BY <2>4, <3>1, <4>1
    <3>2. CASE ~(k < p)
      <4>1. /\ k + 1 \in 1 .. Len(Listed) + 1 /\ ~(k + 1 < p) /\ k + 1 # p
            /\ (k + 1) - 1 = k
        BY <1>1, <3>2
      <4> QED BY <2>4, <3>2, <4>1
    <3> QED BY <3>1, <3>2
  <2>7. Listed'[p] = x
    BY <1>1, <2>3, <2>4
  <2> QED BY <2>5, <2>6, <2>7
<1>4. x \in Int
  BY DPListAssumption
<1>5. CASE \E n \in Nodes : InsertsAt(1, n, x) /\ \A k \in 1 .. Len(chain) : ~(Listed[k] >= x)
  <2>1. 1 \in 1 .. Len(chain) + 1 /\ 1 \in 1 .. Len(chain) /\ ~(1 < 1)
    BY <1>1
  <2>2. Len(chain') = Len(chain) + 1 /\ Listed'[1] = x /\ Listed'[1 + 1] = Listed[1]
    BY <1>3, <1>5, <2>1
  <2>3. Listed[1] \in Int /\ ~(Listed[1] >= x)
    BY <1>2, <1>5, <2>1
  <2>4. ~(Listed'[1] <= Listed'[1 + 1])
    BY <1>4, <2>2, <2>3
  <2>5. 1 \in 1 .. Len(chain') - 1
    BY <1>1, <2>2
  <2> QED BY <2>4, <2>5 DEF Sorted
<1>6. CASE \E k \in 1 .. Len(chain), n \in Nodes : Listed[k] >= x /\ InsertsAt(k + 1, n, x)
  <2>1. PICK k \in 1 .. Len(chain), n \in Nodes : Listed[k] >= x /\ InsertsAt(k + 1, n, x)
    BY <1>6
  <2>2. k + 1 \in 1 .. Len(chain) + 1 /\ k < k + 1
    BY <1>1
  <2>3. Len(chain') = Len(chain) + 1 /\ Listed'[k + 1] = x /\ Listed'[k] = Listed[k]
    BY <1>3, <2>1, <2>2
  <2>4. ~(Listed'[k] <= Listed'[k + 1])
    BY <1>2, <1>4, <2>1, <2>3
  <2>5. k \in 1 .. Len(chain') - 1
    BY <1>1, <2>3
  <2> QED BY <2>4, <2>5 DEF Sorted
<1> QED BY <1>1, <1>5, <1>6, SortedPlace

(***************************************************************************)
(* dpl_insert_sorted does not keep the order that dplist.h promises: it    *)
(* leaves every list but the empty one unsorted, unless the new element is *)
(* in it already.                                                          *)
(***************************************************************************)
THEOREM InsertSortedLosesOrder == Spec => InsertSortedUnsorts
<1>1. IInv /\ IInv' /\ [Next]_vars =>
        [\A x \in Elements :
           dpl_insert_sorted(x) /\ chain # <<>> /\ x \notin ToSet(Listed) => ~Sorted']_vars
  BY UnsortedStep
<1> QED BY <1>1, Invariance, PTL DEF Spec, InsertSortedUnsorts
-----------------------------------------------------------------------------
(* dpl_remove_at_index *)

\* dpl_remove_at_index goes wrong for the last node of a list of two or more,
\* if that is asked for by its own index, and for no other index.
LastIndexFaults ==
  [][\A i \in Int :
       dpl_remove_at_index(i) => (fault' # "none" <=> 0 < i /\ i = size - 1)]_vars

LEMMA RemovalStep ==
  ASSUME TypeOK, ListShape, fault = "none", NEW i \in Int, dpl_remove_at_index(i)
  PROVE  fault' # "none" <=> 0 < i /\ i = size - 1
<1>1. Len(chain) \in Nat /\ size = Len(chain)
  BY ChainFacts
<1>2. CASE i <= 0 \/ i >= size
  <2>1. fault' = fault
    BY <1>1, <1>2 DEF dpl_remove_at_index
  <2> QED BY <1>1, <1>2, <2>1
<1>3. CASE 0 < i /\ i < size
  <2>1. i \in 0 .. Len(chain) - 1 /\ i + 1 \in 1 .. Len(chain)
    BY <1>1, <1>3
  <2>2. Follow(i) = chain[i + 1] /\ next[chain[i + 1]] = Neighbour(i + 2)
    <3>1. next[chain[i + 1]] = Neighbour((i + 1) + 1)
      BY <2>1 DEF ListShape
    <3> QED BY <2>1, <3>1, FollowFacts
  <2>3. Neighbour(i + 2) = NULL <=> i = size - 1
    <3>1. CASE i + 2 \in 1 .. Len(chain)
      BY <1>1, <3>1, ChainFacts DEF Neighbour
    <3>2. CASE i + 2 \notin 1 .. Len(chain)
      BY <1>1, <1>3, <3>2 DEF Neighbour
    <3> QED BY <3>1, <3>2
  <2>4. IF Neighbour(i + 2) = NULL THEN fault' = "null_in_remove" ELSE fault' = fault
    BY <1>1, <1>3, <2>2 DEF dpl_remove_at_index, Crash
  <2> QED BY <1>3, <2>3, <2>4
<1> QED BY <1>1, <1>2, <1>3

(***************************************************************************)
(* dplist.h has dpl_remove_at_index remove the node at any index.  The one *)
(* index it cannot take is that of the last node, which it treats as one   *)
(* between two others.                                                     *)
(***************************************************************************)
THEOREM RemovalFaultsAtTheLast == Spec => LastIndexFaults
<1>1. IInv /\ [Next]_vars =>
        [\A i \in Int :
           dpl_remove_at_index(i) => (fault' # "none" <=> 0 < i /\ i = size - 1)]_vars
  <2> SUFFICES ASSUME IInv, [Next]_vars, vars' # vars,
                      NEW i \in Int, dpl_remove_at_index(i)
               PROVE  fault' # "none" <=> 0 < i /\ i = size - 1
    OBVIOUS
  <2>1. TypeOK /\ ListShape /\ fault = "none"
    BY DEF IInv, Next
  <2> QED BY <2>1, RemovalStep
<1> QED BY <1>1, Invariance, PTL DEF Spec, LastIndexFaults
=============================================================================
