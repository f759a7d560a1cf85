------------------------------- MODULE DPList -------------------------------
(***************************************************************************)
(* One list of lib/dplist.c at the level of its pointers: nodes with a     *)
(* next and a previous node, and a head, a tail and a size.  Callers hold  *)
(* a lock or own the list, so that a call is one action, except dpl_sort,  *)
(* whose loop is written out.  A caller also keeps one reference to a node *)
(* between calls.                                                          *)
(***************************************************************************)
EXTENDS Integers, SequencesExt

CONSTANTS
  Nodes,      \* the addresses malloc may return for a dplist_node_t
  Elements,   \* the values of elements; element_compare is their order
  NULL

ASSUME DPListAssumption ==
  /\ NULL \notin Nodes
  /\ Elements \subseteq Int

VARIABLES
  head, tail, size,   \* the dplist_t
  next, prev,         \* fields of the nodes, NULL in memory that is free
  element,            \* element[n]: the value node n holds, NULL if free
  live,               \* the nodes malloc returned that have not been freed
  ref,                \* the reference the caller keeps
  cursor,             \* dpl_sort: its node, NULL outside the call
  swapped,            \* dpl_sort: whether this pass has exchanged elements
  fault,              \* "none", or what ended the process
  chain               \* history: the nodes of the list, first to last

vars == <<head, tail, size, next, prev, element, live, ref, cursor, swapped,
          fault, chain>>

sort == <<cursor, swapped>>

Init ==
  /\ head = NULL
  /\ tail = NULL
  /\ size = 0
  /\ next = [n \in Nodes |-> NULL]
  /\ prev = [n \in Nodes |-> NULL]
  /\ element = [n \in Nodes |-> NULL]
  /\ live = {}
  /\ ref = NULL
  /\ cursor = NULL
  /\ swapped = FALSE
  /\ fault = "none"
  /\ chain = <<>>

Crash(what) ==
  /\ fault' = what
  /\ UNCHANGED <<head, tail, size, next, prev, element, live, ref, sort, chain>>

\* f with f[n] = v, the assignment through a pointer that may be null.
Set(f, n, v) == IF n = NULL THEN f ELSE [f EXCEPT ![n] = v]

-----------------------------------------------------------------------------
(* Reading the list *)

\* The node reached from the head by i steps along next.
Follow(i) ==
  LET at[k \in 0 .. i] == IF k = 0 THEN head ELSE next[at[k - 1]] IN at[i]

\* Fault: the index of the end is walked to.
get_reference_past_end(i) ==
  IF size = 0 THEN NULL
  ELSE IF i <= 0 THEN head
  ELSE IF i > size THEN tail
  ELSE Follow(i)

dpl_get_reference_at_index(i) ==
  IF size = 0 THEN NULL
  ELSE IF i <= 0 THEN head
  ELSE IF i >= size THEN tail
  ELSE Follow(i)

dpl_get_element_at_index(i) ==
  LET n == dpl_get_reference_at_index(i) IN IF n = NULL THEN NULL ELSE element[n]

dpl_size == size

dpl_get_first_element == dpl_get_element_at_index(0)

\* The index is -1, which is the start of the list.
dpl_get_last_element == dpl_get_element_at_index(-1)

dpl_get_first_reference == IF size = 0 THEN NULL ELSE head

dpl_get_last_reference == IF size = 0 THEN NULL ELSE tail

dpl_get_element_at_reference(r) == IF r = NULL THEN NULL ELSE element[r]

\* The places of the nodes that the loop from the head to null passes.
Places == {i \in 0 .. size - 1 : \A k \in 0 .. i : Follow(k) # NULL}

First(found) ==
  IF found = {} THEN -1 ELSE CHOOSE i \in found : \A j \in found : i <= j

dpl_get_index_of_element(x) == First({i \in Places : element[Follow(i)] = x})

dpl_get_index_of_reference(r) == First({i \in Places : Follow(i) = r})

dpl_get_reference_of_element(x) ==
  LET i == dpl_get_index_of_element(x) IN IF i = -1 THEN NULL ELSE Follow(i)

\* The elements of the copy, each inserted into it at the index of its size.
dpl_copy ==
  LET copy[k \in 0 .. size] ==
        IF k = 0 THEN <<>>
        ELSE IF k - 1 \notin Places THEN copy[k - 1]
        ELSE IF Len(copy[k - 1]) <= 0 THEN <<element[Follow(k - 1)]>> \o copy[k - 1]
        ELSE Append(copy[k - 1], element[Follow(k - 1)])
  IN copy[size]

-----------------------------------------------------------------------------
(* Insertion *)

Malloc(n, x) ==
  /\ n \in Nodes \ live
  /\ live' = live \cup {n}
  /\ element' = [element EXCEPT ![n] = x]
  /\ size' = size + 1

LinkFirst(n) ==
  /\ next' = [next EXCEPT ![n] = head]
  /\ prev' = Set([prev EXCEPT ![n] = NULL], head, n)
  /\ tail' = IF head = NULL THEN n ELSE tail
  /\ head' = n
  /\ chain' = <<n>> \o chain

LinkLast(n) ==
  /\ prev' = [prev EXCEPT ![n] = tail]
  /\ next' = Set([next EXCEPT ![n] = NULL], tail, n)
  /\ head' = IF tail = NULL THEN n ELSE head
  /\ tail' = n
  /\ chain' = Append(chain, n)

\* The place in the chain of node r.
PlaceOf(r) == CHOOSE k \in 1 .. Len(chain) : chain[k] = r

\* Fault: the next node is not linked back to the new one.
LinkAfterOneWay(n, r) ==
  /\ prev' = [prev EXCEPT ![n] = r]
  /\ next' = [next EXCEPT ![n] = next[r], ![r] = n]
  /\ tail' = IF next[r] = NULL THEN n ELSE tail
  /\ head' = head
  /\ chain' = InsertAt(chain, PlaceOf(r) + 1, n)

LinkAfter(n, r) ==
  /\ prev' = Set([prev EXCEPT ![n] = r], next[r], n)
  /\ next' = [next EXCEPT ![n] = next[r], ![r] = n]
  /\ tail' = IF next[r] = NULL THEN n ELSE tail
  /\ head' = head
  /\ chain' = InsertAt(chain, PlaceOf(r) + 1, n)

\* Fault: the loop goes one node too far.
insert_at_next_index(x, i) ==
  /\ \E n \in Nodes :
       /\ Malloc(n, x)
       /\ IF i <= 0 THEN LinkFirst(n)
          ELSE IF i >= size THEN LinkLast(n)
          ELSE LinkAfter(n, Follow(i))
  /\ UNCHANGED <<ref, sort, fault>>

dpl_insert_at_index(x, i) ==
  /\ \E n \in Nodes :
       /\ Malloc(n, x)
       /\ IF i <= 0 THEN LinkFirst(n)
          ELSE IF i >= size THEN LinkLast(n)
          ELSE LinkAfter(n, Follow(i - 1))
  /\ UNCHANGED <<ref, sort, fault>>

dpl_insert_first(x) == dpl_insert_at_index(x, 0)

\* The index is -1, which is the start of the list.
dpl_insert_last(x) == dpl_insert_at_index(x, -1)

\* The new node goes behind the reference, and in front of all without one.
dpl_insert_at_reference(x, r) ==
  /\ \E n \in Nodes :
       /\ Malloc(n, x)
       /\ IF r = NULL THEN LinkFirst(n) ELSE LinkAfter(n, r)
  /\ UNCHANGED <<ref, sort, fault>>

\* The first node whose element is not less than x.
dpl_insert_sorted(x) ==
  LET i == First({k \in Places : element[Follow(k)] >= x})
  IN dpl_insert_at_reference(x, IF i = -1 THEN NULL ELSE Follow(i))

-----------------------------------------------------------------------------
(* Removal *)

\* Fault: the size is not updated.
FreeUncounted(n) ==
  /\ live' = live \ {n}
  /\ element' = [element EXCEPT ![n] = NULL]
  /\ size' = size

Free(n) ==
  /\ live' = live \ {n}
  /\ element' = [element EXCEPT ![n] = NULL]
  /\ size' = size - 1

Forget(f, n) == [f EXCEPT ![n] = NULL]

UnlinkFirst ==
  /\ Free(head)
  /\ head' = next[head]
  /\ tail' = IF next[head] = NULL THEN NULL ELSE tail
  /\ prev' = Forget(Set(prev, next[head], NULL), head)
  /\ next' = Forget(next, head)
  /\ chain' = Tail(chain)

UnlinkLast ==
  /\ Free(tail)
  /\ tail' = prev[tail]
  /\ head' = IF prev[tail] = NULL THEN NULL ELSE head
  /\ next' = Forget(Set(next, prev[tail], NULL), tail)
  /\ prev' = Forget(prev, tail)
  /\ chain' = Front(chain)

\* Fault: the next element is moved into r, and its node is freed.
UnlinkByCopy(r) ==
  LET n == next[r]
  IN /\ n # NULL
     /\ live' = live \ {n}
     /\ element' = [element EXCEPT ![r] = element[n], ![n] = NULL]
     /\ size' = size - 1
     /\ next' = Forget([next EXCEPT ![r] = next[n]], n)
     /\ prev' = Forget(Set(prev, next[n], r), n)
     /\ head' = head
     /\ tail' = IF n = tail THEN r ELSE tail
     /\ chain' = RemoveAt(chain, PlaceOf(r) + 1)

Unlink(r) ==
  /\ Free(r)
  /\ next' = Forget(Set(next, prev[r], next[r]), r)
  /\ prev' = Forget(Set(prev, next[r], prev[r]), r)
  /\ head' = IF r = head THEN next[r] ELSE head
  /\ tail' = IF r = tail THEN prev[r] ELSE tail
  /\ chain' = RemoveAt(chain, PlaceOf(r))

\* The loop stops in front of the last node only if the index is less than
\* the last: the neighbours of the node at size - 1 include a null pointer.
dpl_remove_at_index(i) ==
  /\ size > 0
  /\ IF i <= 0 THEN UnlinkFirst /\ UNCHANGED <<ref, sort, fault>>
     ELSE IF i >= size THEN UnlinkLast /\ UNCHANGED <<ref, sort, fault>>
     ELSE IF next[Follow(i)] = NULL THEN Crash("null_in_remove")
     ELSE Unlink(Follow(i)) /\ UNCHANGED <<ref, sort, fault>>

dpl_remove_first == dpl_remove_at_index(0)

\* The index is -1, which is the start of the list.
dpl_remove_last == dpl_remove_at_index(-1)

dpl_remove_at_reference(r) ==
  /\ r # NULL
  /\ Unlink(r)
  /\ UNCHANGED <<ref, sort, fault>>

dpl_remove_element(x) == dpl_remove_at_reference(dpl_get_reference_of_element(x))

\* Every node is freed, and dpl_create makes a new list.
dpl_free ==
  /\ live' = live \ {Follow(i) : i \in Places}
  /\ head' = NULL
  /\ tail' = NULL
  /\ size' = 0
  /\ next' = [n \in Nodes |-> NULL]
  /\ prev' = [n \in Nodes |-> NULL]
  /\ element' = [n \in Nodes |-> NULL]
  /\ chain' = <<>>
  /\ UNCHANGED <<ref, sort, fault>>

-----------------------------------------------------------------------------
(* dpl_sort: exchange neighbours that are out of order, pass after pass,   *)
(* until a pass exchanges none                                             *)

Contents == <<head, tail, size, next, prev, live, ref, chain>>

\* The loop reads head->next, also of an empty list.
SortBegin ==
  IF head = NULL THEN Crash("null_in_sort")
  ELSE /\ cursor' = head
       /\ swapped' = FALSE
       /\ UNCHANGED <<Contents, element, fault>>

\* Fault: the elements are exchanged without a temporary.
SortStepCopies ==
  /\ cursor # NULL
  /\ next[cursor] # NULL
  /\ LET n == next[cursor]
     IN IF element[cursor] > element[n]
        THEN /\ element' = [element EXCEPT ![cursor] = element[n]]
             /\ swapped' = TRUE
        ELSE UNCHANGED <<element, swapped>>
  /\ cursor' = next[cursor]
  /\ UNCHANGED <<Contents, fault>>

\* Fault: equal elements are exchanged too.
SortStepEqual ==
  /\ cursor # NULL
  /\ next[cursor] # NULL
  /\ LET n == next[cursor]
     IN IF element[cursor] >= element[n]
        THEN /\ element' = [element EXCEPT ![cursor] = element[n],
                                           ![n] = element[cursor]]
             /\ swapped' = TRUE
        ELSE UNCHANGED <<element, swapped>>
  /\ cursor' = next[cursor]
  /\ UNCHANGED <<Contents, fault>>

SortStep ==
  /\ cursor # NULL
  /\ next[cursor] # NULL
  /\ LET n == next[cursor]
     IN IF element[cursor] > element[n]
        THEN /\ element' = [element EXCEPT ![cursor] = element[n],
                                           ![n] = element[cursor]]
             /\ swapped' = TRUE
        ELSE UNCHANGED <<element, swapped>>
  /\ cursor' = next[cursor]
  /\ UNCHANGED <<Contents, fault>>

\* Fault: one pass is taken for enough.
SortEndFirstPass ==
  /\ cursor # NULL
  /\ next[cursor] = NULL
  /\ cursor' = NULL
  /\ swapped' = FALSE
  /\ UNCHANGED <<Contents, element, fault>>

SortEndPass ==
  /\ cursor # NULL
  /\ next[cursor] = NULL
  /\ cursor' = IF swapped THEN head ELSE NULL
  /\ swapped' = FALSE
  /\ UNCHANGED <<Contents, element, fault>>

dpl_sort == SortStep \/ SortEndPass

-----------------------------------------------------------------------------
(* The caller's reference.  Nothing stops a caller from keeping one to a   *)
(* node that has been removed, and the list does not look for it.          *)

KeepReference(r) ==
  /\ ref' = r
  /\ UNCHANGED <<head, tail, size, next, prev, element, live, sort, fault,
                 chain>>

Through(f) ==
  IF ref = NULL THEN UNCHANGED vars
  ELSE IF ref \notin live THEN Crash("use_after_free")
  ELSE /\ ref' = f[ref]
       /\ UNCHANGED <<head, tail, size, next, prev, element, live, sort,
                      fault, chain>>

dpl_get_next_reference == Through(next)

dpl_get_previous_reference == Through(prev)

ByReference ==
  IF ref \in live \cup {NULL}
  THEN \/ \E x \in Elements : dpl_insert_at_reference(x, ref)
       \/ dpl_remove_at_reference(ref)
  ELSE Crash("use_after_free")

-----------------------------------------------------------------------------
Call ==
  \/ \E x \in Elements, i \in -1 .. size + 1 : dpl_insert_at_index(x, i)
  \/ \E x \in Elements : dpl_insert_first(x)
  \/ \E x \in Elements : dpl_insert_last(x)
  \/ \E x \in Elements : dpl_insert_sorted(x)
  \/ \E i \in -1 .. size + 1 : dpl_remove_at_index(i)
  \/ dpl_remove_first
  \/ dpl_remove_last
  \/ \E x \in Elements : dpl_remove_element(x)
  \/ dpl_free
  \/ SortBegin
  \/ \E i \in -1 .. size : KeepReference(dpl_get_reference_at_index(i))
  \/ \E x \in Elements : KeepReference(dpl_get_reference_of_element(x))
  \/ KeepReference(dpl_get_first_reference) \/ KeepReference(dpl_get_last_reference)
  \/ dpl_get_next_reference
  \/ dpl_get_previous_reference
  \/ ByReference

Next ==
  /\ fault = "none"
  /\ \/ cursor = NULL /\ Call
     \/ dpl_sort

Spec == Init /\ [][Next]_vars

\* A call to dpl_sort goes on.
FairSpec == Spec /\ WF_vars(dpl_sort)

-----------------------------------------------------------------------------
(* Properties *)

\* Every field holds a node, a value or null, as its type has it.
TypeOK ==
  /\ {head, tail, ref, cursor} \subseteq Nodes \cup {NULL}
  /\ size \in 0 .. Len(chain)
  /\ next \in [Nodes -> Nodes \cup {NULL}]
  /\ prev \in [Nodes -> Nodes \cup {NULL}]
  /\ element \in [Nodes -> Elements \cup {NULL}]
  /\ live \in SUBSET Nodes
  /\ swapped \in BOOLEAN
  /\ fault \in {"none", "null_in_remove", "null_in_sort", "use_after_free"}
  /\ chain \in Seq(Nodes)

\* The two directions of the list agree with one another, with the head, the
\* tail and the size, and every node allocated is in the list, once.
Neighbour(k) == IF k \in 1 .. Len(chain) THEN chain[k] ELSE NULL

ListShape ==
  /\ head = Neighbour(1)
  /\ tail = Neighbour(Len(chain))
  /\ size = Len(chain)
  /\ \A k \in 1 .. Len(chain) : /\ next[chain[k]] = Neighbour(k + 1)
                                /\ prev[chain[k]] = Neighbour(k - 1)
                                /\ element[chain[k]] \in Elements
  /\ live = {chain[k] : k \in 1 .. Len(chain)}
  /\ \A j, k \in 1 .. Len(chain) : chain[j] = chain[k] => j = k

\* Searching and indexing along the pointers, from either end, give what the
\* sequence of elements has at that place, an index leads back to the element
\* it was found for, a search and a reference to the same element, and a copy
\* has the elements in their order.  dpl_get_last_element is not among them:
\* it gives the first element, where dplist.h promises the last.
Listed == [k \in 1 .. Len(chain) |-> element[chain[k]]]

QueriesAgree ==
  /\ \A i \in -1 .. Len(chain) + 1 :
       dpl_get_element_at_index(i) =
         IF chain = <<>> THEN NULL
         ELSE IF i < 0 THEN Listed[1]
         ELSE IF i >= Len(chain) THEN Listed[Len(chain)]
         ELSE Listed[i + 1]
  /\ \A x \in Elements :
       LET i == dpl_get_index_of_element(x)
       IN IF x \notin ToSet(Listed) THEN i = -1
          ELSE Listed[i + 1] = x /\ \A j \in 1 .. i : Listed[j] # x
  /\ \A n \in live : dpl_get_reference_at_index(dpl_get_index_of_reference(n)) = n
  /\ \A x \in Elements :
       dpl_get_element_at_reference(dpl_get_reference_of_element(x)) =
         IF x \in ToSet(Listed) THEN x ELSE NULL
  /\ dpl_get_element_at_reference(dpl_get_first_reference) = dpl_get_first_element
  /\ dpl_get_last_reference = Neighbour(dpl_size)
  /\ dpl_copy = Listed

\* The nodes implement a sequence of elements.
L == INSTANCE ElementList WITH items <- Listed

ImplementsList == L!Spec

\* The place in the sequence that an index of an insertion, or of a removal,
\* stands for: the first one from 0 down, the last one from the size up.
InsertPlace(i) == IF i <= 0 THEN 1 ELSE IF i >= size THEN size + 1 ELSE i + 1

RemovePlace(i) == IF i <= 0 THEN 1 ELSE IF i >= size THEN size ELSE i + 1

\* A call with an index acts at that index, by whichever of its three ways it
\* gets there, and leaves the other elements in their order: an insertion
\* puts the element in there, and a removal takes away the one that is there
\* unless it ends the process.
CallsActAtIndex ==
  [][/\ \A x \in Elements, i \in -1 .. size + 1 :
          dpl_insert_at_index(x, i) => Listed' = InsertAt(Listed, InsertPlace(i), x)
     /\ \A i \in -1 .. size + 1 :
          dpl_remove_at_index(i) =>
            fault' # "none" \/ Listed' = RemoveAt(Listed, RemovePlace(i))]_vars

\* A reference to a node stays good until its own node is removed: no other
\* call frees the node, moves it past another, or puts another element into
\* it, except dpl_sort, which exchanges elements; and a removal takes away
\* one node.  That a removed node is not looked for is up to the caller.
ReferencesStayGood ==
  [][/\ \A i, j \in 1 .. Len(chain), k, l \in 1 .. Len(chain') :
          chain[i] = chain'[k] /\ chain[j] = chain'[l] /\ i < j => k < l
     /\ chain' # <<>> => \A m, n \in live \ live' : m = n
     /\ cursor = NULL => \A n \in live \cap live' : element'[n] = element[n]]_vars

Sorted == \A k \in 1 .. Len(chain) - 1 : Listed[k] <= Listed[k + 1]

\* When dpl_sort returns, the list is sorted.
SortSorts == [][cursor # NULL /\ cursor' = NULL => Sorted']_vars

\* dpl_sort stands at a node of the list, and the elements that a pass has
\* left in their places up to there are in order.
Sorting ==
  cursor # NULL =>
    \E k \in 1 .. Len(chain) :
      /\ cursor = chain[k]
      /\ ~swapped => \A i \in 1 .. k - 1 : Listed[i] <= Listed[i + 1]

\* The inductive invariant.
IInv == TypeOK /\ ListShape /\ Sorting

\* dpl_sort returns.
SortReturns == cursor # NULL ~> cursor = NULL
=============================================================================
