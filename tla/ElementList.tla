---------------------------- MODULE ElementList -----------------------------
(***************************************************************************)
(* What the list of lib/dplist.c is to its callers: a sequence of          *)
(* elements.  Module DPList, the doubly linked nodes, implements it.       *)
(***************************************************************************)
EXTENDS Integers, SequencesExt

CONSTANT Elements

VARIABLE items   \* the elements of the list, first to last

\* A new element comes in at any place, one element goes, or two neighbours
\* that are out of order change places.
Insert(k, x) == items' = InsertAt(items, k, x)

Delete(k) == items' = RemoveAt(items, k)

Exchange(k) ==
  /\ items[k] > items[k + 1]
  /\ items' = [items EXCEPT ![k] = items[k + 1], ![k + 1] = items[k]]

Clear == items' = <<>>

Init == items = <<>>

Next ==
  \/ \E k \in 1 .. Len(items) + 1, x \in Elements : Insert(k, x)
  \/ \E k \in 1 .. Len(items) : Delete(k)
  \/ \E k \in 1 .. Len(items) - 1 : Exchange(k)
  \/ Clear

Spec == Init /\ [][Next]_items
=============================================================================
