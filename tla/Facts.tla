-------------------------------- MODULE Facts --------------------------------
(* Facts about numbers and sequences that the proofs of several modules use. *)
EXTENDS Integers, Sequences, SequencesExt, SequenceTheorems,
        FiniteSetTheorems, TLAPS

(***************************************************************************)
(* The least-number principle for a set of numbers, from the strict subset *)
(* ordering of the intervals 0 .. n.                                       *)
(***************************************************************************)
LEMMA LeastNumber ==
  ASSUME NEW S \in SUBSET Nat, S # {}
  PROVE  \E m \in S : \A n \in S : m <= n
<1> DEFINE T == {0 .. n : n \in S}
<1>1. IsWellFoundedOn(StrictSubsetOrdering(Nat), FiniteSubsetsOf(Nat))
  BY FS_StrictSubsetOrderingWellFounded
<1>2. T \subseteq FiniteSubsetsOf(Nat) /\ T # {}
  <2>1. ASSUME NEW n \in S PROVE 0 .. n \in FiniteSubsetsOf(Nat)
    <3>1. 0 .. n \in SUBSET Nat /\ IsFiniteSet(0 .. n)
      BY FS_Interval
    <3> QED BY <3>1 DEF FiniteSubsetsOf
  <2> QED BY <2>1
<1>3. \E x \in T : \A y \in T : ~ (<<y, x>> \in StrictSubsetOrdering(Nat))
  <2> HIDE DEF T
  <2> QED BY <1>1, <1>2, WFMin
<1>4. PICK m \in S : \A n \in S : ~ (<<0 .. n, 0 .. m>> \in StrictSubsetOrdering(Nat))
  BY <1>3
<1>5. ASSUME NEW n \in S, ~ (m <= n) PROVE FALSE
  <2>1. 0 .. n \subseteq 0 .. m /\ m \in 0 .. m /\ m \notin 0 .. n
    BY <1>5
  <2>2. <<0 .. n, 0 .. m>> \in StrictSubsetOrdering(Nat)
    <3>1. 0 .. n \in SUBSET Nat /\ 0 .. m \in SUBSET Nat /\ 0 .. n # 0 .. m
      BY <2>1
    <3>2. \A x, y \in SUBSET Nat :
             x \subseteq y /\ x # y => <<x, y>> \in StrictSubsetOrdering(Nat)
      BY DEF StrictSubsetOrdering
    <3> HIDE DEF T
    <3> QED BY <2>1, <3>1, <3>2
  <2> QED BY <1>4, <2>2
<1> QED BY <1>5

(***************************************************************************)
(* Induction: a set with 0, and with the successor of each of its members, *)
(* has every natural number.                                               *)
(***************************************************************************)
LEMMA SetInduction ==
  ASSUME NEW S, 0 \in S, \A n \in Nat : n \in S => n + 1 \in S
  PROVE  Nat \subseteq S
<1> DEFINE T == {n \in Nat : n \notin S}
<1> SUFFICES ASSUME T # {} PROVE FALSE
  OBVIOUS
<1>1. PICK m \in T : \A n \in T : m <= n
  <2>1. T \in SUBSET Nat
    OBVIOUS
  <2> HIDE DEF T
  <2> QED BY <2>1, LeastNumber
<1>2. m - 1 \in Nat /\ m - 1 \in S
  BY <1>1
<1> QED BY <1>1, <1>2
-----------------------------------------------------------------------------
(* Sequences *)

LEMMA AppendFacts ==
  ASSUME NEW T, NEW s \in Seq(T), NEW e \in T
  PROVE  /\ Append(s, e) \in Seq(T)
         /\ Append(s, e) # <<>>
         /\ Len(Append(s, e)) = Len(s) + 1
         /\ \A i \in 1 .. Len(s) : Append(s, e)[i] = s[i]
         /\ Append(s, e)[Len(s) + 1] = e
BY AppendProperties

LEMMA TailFacts ==
  ASSUME NEW T, NEW s \in Seq(T), s # <<>>
  PROVE  /\ Tail(s) \in Seq(T)
         /\ Len(s) \in Nat /\ Len(s) > 0
         /\ Len(Tail(s)) = Len(s) - 1
         /\ \A i \in 1 .. Len(Tail(s)) : Tail(s)[i] = s[i + 1]
         /\ s[1] \in T /\ Head(s) = s[1]
BY HeadTailProperties, LenProperties, ElementOfSeq

LEMMA SeqFacts ==
  ASSUME NEW T, NEW s \in Seq(T)
  PROVE  /\ Len(s) \in Nat
         /\ s = <<>> <=> Len(s) = 0
         /\ \A i \in 1 .. Len(s) : s[i] \in T
BY LenProperties, ElementOfSeq, EmptySeq

\* The elements of a sequence.
LEMMA ToSetIs ==
  ASSUME NEW T, NEW s \in Seq(T)
  PROVE  ToSet(s) = {s[i] : i \in 1 .. Len(s)}
BY LenProperties DEF ToSet

LEMMA ToSetFacts ==
  ASSUME NEW T, NEW s \in Seq(T)
  PROVE  /\ ToSet(s) \subseteq T
         /\ \A x : x \in ToSet(s) <=> \E i \in 1 .. Len(s) : x = s[i]
         /\ s = <<>> => ToSet(s) = {}
         /\ s # <<>> => ToSet(s) = {Head(s)} \cup ToSet(Tail(s))
         /\ \A e \in T : ToSet(Append(s, e)) = ToSet(s) \cup {e}
<1>1. \A x : x \in ToSet(s) <=> \E i \in 1 .. Len(s) : x = s[i]
  BY ToSetIs
<1>2. ToSet(s) \subseteq T
  BY <1>1, SeqFacts
<1>3. s = <<>> => ToSet(s) = {}
  BY <1>1, SeqFacts
<1>4. ASSUME s # <<>>
      PROVE  ToSet(s) = {Head(s)} \cup ToSet(Tail(s))
  <2>1. /\ Tail(s) \in Seq(T) /\ Len(s) \in Nat \ {0}
        /\ Len(Tail(s)) = Len(s) - 1 /\ Head(s) = s[1]
        /\ \A i \in 1 .. Len(s) - 1 : Tail(s)[i] = s[i + 1]
    BY <1>4, TailFacts
  <2>2. \A x : x \in ToSet(Tail(s)) <=> \E i \in 1 .. Len(s) - 1 : x = s[i + 1]
    <3>1. ToSet(Tail(s)) = {Tail(s)[i] : i \in 1 .. Len(s) - 1}
      BY <2>1, ToSetIs
    <3> QED BY <2>1, <3>1
  <2>3. ASSUME NEW x \in ToSet(s) PROVE x \in {Head(s)} \cup ToSet(Tail(s))
    <3>1. PICK i \in 1 .. Len(s) : x = s[i]
      BY <1>1
    <3>2. i = 1 \/ (i - 1 \in 1 .. Len(s) - 1 /\ i = (i - 1) + 1)
      BY <2>1
    <3> QED BY <3>1, <3>2, <2>1, <2>2
  <2>4. ASSUME NEW x \in {Head(s)} \cup ToSet(Tail(s)) PROVE x \in ToSet(s)
    BY <1>1, <2>1, <2>2
  <2> QED BY <2>3, <2>4
<1>5. ASSUME NEW e \in T
      PROVE  ToSet(Append(s, e)) = ToSet(s) \cup {e}
  <2>1. /\ Append(s, e) \in Seq(T) /\ Len(s) \in Nat
        /\ Len(Append(s, e)) = Len(s) + 1
        /\ \A i \in 1 .. Len(s) : Append(s, e)[i] = s[i]
        /\ Append(s, e)[Len(s) + 1] = e
    BY AppendFacts, SeqFacts
  <2>2. \A x : x \in ToSet(Append(s, e)) <=>
                \E i \in 1 .. Len(s) + 1 : x = Append(s, e)[i]
    <3>1. ToSet(Append(s, e)) = {Append(s, e)[i] : i \in 1 .. Len(s) + 1}
      BY <2>1, ToSetIs
    <3> QED BY <3>1
  <2> QED BY <1>1, <2>1, <2>2
<1> QED BY <1>1, <1>2, <1>3, <1>4, <1>5

\* Sequences with the same elements in the same places are the same.
LEMMA SameSeq ==
  ASSUME NEW T, NEW s \in Seq(T), NEW t \in Seq(T),
         Len(s) = Len(t), \A i \in 1 .. Len(s) : s[i] = t[i]
  PROVE  s = t
BY SeqEqual

\* An element put in at place p, and the one at place p taken out.
LEMMA InsertAtFacts ==
  ASSUME NEW T, NEW s \in Seq(T), NEW p \in 1 .. Len(s) + 1, NEW e \in T
  PROVE  /\ InsertAt(s, p, e) \in Seq(T)
         /\ Len(InsertAt(s, p, e)) = Len(s) + 1
         /\ \A i \in 1 .. Len(s) + 1 :
              InsertAt(s, p, e)[i] =
                IF i < p THEN s[i] ELSE IF i = p THEN e ELSE s[i - 1]
<1> DEFINE a == SubSeq(s, 1, p - 1)
           b == SubSeq(s, p, Len(s))
<1>1. Len(s) \in Nat /\ p \in Nat /\ \A i \in 1 .. Len(s) : s[i] \in T
  BY SeqFacts
<1>2. /\ a \in Seq(T) /\ Len(a) = p - 1
      /\ \A i \in 1 .. p - 1 : a[i] = s[i]
  BY <1>1, SubSeqProperties
<1>3. /\ b \in Seq(T) /\ Len(b) = Len(s) - p + 1
      /\ \A i \in 1 .. Len(s) - p + 1 : b[i] = s[p + i - 1]
  BY <1>1, SubSeqProperties
<1> HIDE DEF a, b
<1>4. /\ Append(a, e) \in Seq(T) /\ Len(Append(a, e)) = p
      /\ \A i \in 1 .. p : Append(a, e)[i] = IF i < p THEN s[i] ELSE e
      /\ a \o <<e>> = Append(a, e)
  BY <1>1, <1>2, AppendFacts, AppendIsConcat
<1> DEFINE c == Append(a, e)
<1> HIDE DEF c
<1> DEFINE d == c \o b
<1>5. /\ d \in Seq(T) /\ Len(d) = Len(c) + Len(b)
      /\ \A i \in 1 .. Len(c) + Len(b) :
           d[i] = IF i <= Len(c) THEN c[i] ELSE b[i - Len(c)]
  BY <1>3, <1>4, ConcatProperties DEF c
<1>6. InsertAt(s, p, e) = d
  BY <1>4 DEF InsertAt, a, b, c
<1> HIDE DEF d
<1>7. Len(c) = p /\ \A i \in 1 .. p : c[i] = IF i < p THEN s[i] ELSE e
  BY <1>4 DEF c
<1>8. ASSUME NEW i \in 1 .. Len(s) + 1
      PROVE  d[i] = IF i < p THEN s[i] ELSE IF i = p THEN e ELSE s[i - 1]
  <2>1. CASE i <= p
    BY <1>1, <1>3, <1>5, <1>7, <2>1
  <2>2. CASE i > p
    <3>1. i - p \in 1 .. Len(s) - p + 1 /\ p + (i - p) - 1 = i - 1
      BY <1>1, <2>2
    <3>2. d[i] = b[i - p]
      BY <1>1, <1>3, <1>5, <1>7, <2>2
    <3> QED BY <1>1, <1>3, <2>2, <3>1, <3>2
  <2> QED BY <1>1, <2>1, <2>2
<1> QED BY <1>1, <1>3, <1>5, <1>6, <1>7, <1>8

LEMMA RemoveAtFacts ==
  ASSUME NEW T, NEW s \in Seq(T), NEW p \in 1 .. Len(s)
  PROVE  /\ RemoveAt(s, p) \in Seq(T)
         /\ Len(RemoveAt(s, p)) = Len(s) - 1
         /\ \A i \in 1 .. Len(s) - 1 :
              RemoveAt(s, p)[i] = IF i < p THEN s[i] ELSE s[i + 1]
<1> DEFINE a == SubSeq(s, 1, p - 1)
           b == SubSeq(s, p + 1, Len(s))
<1>1. Len(s) \in Nat /\ p \in Nat /\ \A i \in 1 .. Len(s) : s[i] \in T
  BY SeqFacts
<1>2. /\ a \in Seq(T) /\ Len(a) = p - 1
      /\ \A i \in 1 .. p - 1 : a[i] = s[i]
  BY <1>1, SubSeqProperties
<1>3. /\ b \in Seq(T) /\ Len(b) = Len(s) - p
      /\ \A i \in 1 .. Len(s) - p : b[i] = s[p + i]
  BY <1>1, SubSeqProperties
<1> HIDE DEF a, b
<1> DEFINE d == a \o b
<1>4. /\ d \in Seq(T) /\ Len(d) = Len(a) + Len(b)
      /\ \A i \in 1 .. Len(a) + Len(b) :
           d[i] = IF i <= Len(a) THEN a[i] ELSE b[i - Len(a)]
  BY <1>2, <1>3, ConcatProperties
<1>5. RemoveAt(s, p) = d
  BY DEF RemoveAt, a, b
<1> HIDE DEF d
<1>6. ASSUME NEW i \in 1 .. Len(s) - 1
      PROVE  d[i] = IF i < p THEN s[i] ELSE s[i + 1]
  <2>1. CASE i < p
    BY <1>1, <1>2, <1>3, <1>4, <2>1
  <2>2. CASE i >= p
    <3>1. i - (p - 1) \in 1 .. Len(s) - p /\ p + (i - (p - 1)) = i + 1
      BY <1>1, <2>2
    <3>2. i \in 1 .. Len(a) + Len(b) /\ ~(i <= Len(a))
      BY <1>1, <1>2, <1>3, <2>2
    <3>3. d[i] = b[i - (p - 1)]
      BY <1>2, <1>4, <3>2
    <3> QED BY <1>1, <1>3, <2>2, <3>1, <3>3
  <2> QED BY <1>1, <2>1, <2>2
<1>7. Len(d) = Len(s) - 1
  BY <1>1, <1>2, <1>3, <1>4
<1> QED BY <1>4, <1>5, <1>6, <1>7

\* s with its beginning overwritten by t.
LEMMA OverwriteFacts ==
  ASSUME NEW T, NEW s \in Seq(T), NEW t \in Seq(T)
  PROVE  LET r == t \o SubSeq(s, Len(t) + 1, Len(s)) IN
         /\ r \in Seq(T)
         /\ Len(r) = IF Len(t) < Len(s) THEN Len(s) ELSE Len(t)
         /\ \A i \in 1 .. Len(t) : r[i] = t[i]
         /\ \A i \in Len(t) + 1 .. Len(r) : i \in 1 .. Len(s) /\ r[i] = s[i]
<1> DEFINE u == SubSeq(s, Len(t) + 1, Len(s))
<1>1. Len(s) \in Nat /\ Len(t) \in Nat /\ \A i \in Len(t) + 1 .. Len(s) : s[i] \in T
  BY SeqFacts
<1>2. /\ u \in Seq(T)
      /\ Len(u) = IF Len(t) + 1 <= Len(s) THEN Len(s) - Len(t) ELSE 0
      /\ \A i \in 1 .. Len(s) - Len(t) : u[i] = s[Len(t) + i]
  BY <1>1, SubSeqProperties
<1> HIDE DEF u
<1>3. /\ t \o u \in Seq(T)
      /\ Len(t \o u) = Len(t) + Len(u)
      /\ \A i \in 1 .. Len(t) + Len(u) :
           (t \o u)[i] = IF i <= Len(t) THEN t[i] ELSE u[i - Len(t)]
  BY <1>2, ConcatProperties
<1>4. \A i \in Len(t) + 1 .. Len(t \o u) :
         i \in 1 .. Len(s) /\ (t \o u)[i] = s[i]
  BY <1>1, <1>2, <1>3
<1>5. QED
  BY <1>1, <1>2, <1>3, <1>4 DEF u

(***************************************************************************)
(* The function that sums up t exists, so that the CHOOSE its recursive    *)
(* definition stands for chooses it.                                       *)
(***************************************************************************)
LEMMA RunningSum ==
  ASSUME NEW N \in Nat, NEW t \in [1 .. N -> Nat]
  PROVE  LET sum[i \in 0 .. N] == IF i = 0 THEN 0 ELSE sum[i - 1] + t[i]
         IN /\ sum \in [0 .. N -> Nat]
            /\ sum[0] = 0
            /\ \A i \in 1 .. N : sum[i] = sum[i - 1] + t[i]
<1> DEFINE Sums(n) == {f \in [0 .. n -> Nat] :
                        f[0] = 0 /\ \A i \in 1 .. n : f[i] = f[i - 1] + t[i]}
           S == {n \in Nat : n <= N => Sums(n) # {}}
           sum == CHOOSE f : f = [i \in 0 .. N |-> IF i = 0 THEN 0
                                                  ELSE f[i - 1] + t[i]]
<1>1. 0 \in S
  <2>1. [i \in 0 .. 0 |-> 0] \in Sums(0)
    OBVIOUS
  <2> QED BY <2>1
<1>2. ASSUME NEW n \in Nat, n \in S
      PROVE  n + 1 \in S
  <2> SUFFICES ASSUME n + 1 <= N PROVE Sums(n + 1) # {}
    <3> HIDE DEF Sums
    <3> QED OBVIOUS
  <2>1. PICK f : f \in Sums(n)
    <3> HIDE DEF Sums
    <3> QED BY <1>2
  <2> DEFINE g == [i \in 0 .. n + 1 |-> IF i = n + 1 THEN f[n] + t[n + 1] ELSE f[i]]
  <2>2. f[n] \in Nat /\ t[n + 1] \in Nat
    BY <2>1
  <2>3. g \in [0 .. n + 1 -> Nat] /\ g[0] = 0
    BY <2>1, <2>2
  <2>4. ASSUME NEW i \in 1 .. n + 1 PROVE g[i] = g[i - 1] + t[i]
    <3>1. CASE i = n + 1
      BY <3>1, <2>1
    <3>2. CASE i \in 1 .. n
      BY <3>2, <2>1
    <3> QED BY <3>1, <3>2
  <2> QED BY <2>3, <2>4
<1>3. Sums(N) # {}
  <2> HIDE DEF S
  <2>1. Nat \subseteq S
    BY <1>1, <1>2, SetInduction
  <2> HIDE DEF Sums
  <2> QED BY <2>1 DEF S
<1>4. PICK f : f \in Sums(N)
  BY <1>3
<1>5. f = [i \in 0 .. N |-> IF i = 0 THEN 0 ELSE f[i - 1] + t[i]]
  BY <1>4
<1>6. sum = [i \in 0 .. N |-> IF i = 0 THEN 0 ELSE sum[i - 1] + t[i]]
  BY <1>5
<1> HIDE DEF sum
<1>7. DOMAIN sum = 0 .. N /\ sum[0] = 0 /\ \A i \in 1 .. N : sum[i] = sum[i - 1] + t[i]
  BY <1>6
<1> DEFINE V == {n \in Nat : n <= N => sum[n] \in Nat}
<1>8. 0 \in V
  BY <1>7
<1>9. ASSUME NEW n \in Nat, n \in V PROVE n + 1 \in V
  <2> SUFFICES ASSUME n + 1 <= N PROVE sum[n + 1] \in Nat
    OBVIOUS
  <2>1. n + 1 \in 1 .. N /\ sum[n] \in Nat /\ t[n + 1] \in Nat
    BY <1>9
  <2>2. sum[n + 1] = sum[n] + t[n + 1]
    BY <2>1, <1>7
  <2> QED BY <2>1, <2>2
<1>10. \A n \in 0 .. N : sum[n] \in Nat
  <2> HIDE DEF V
  <2>1. Nat \subseteq V
    BY <1>8, <1>9, SetInduction
  <2> QED BY <2>1 DEF V
<1>11. sum \in [0 .. N -> Nat]
  BY <1>6, <1>10
<1> QED BY <1>7, <1>11 DEF sum

\* A sum of zeros.
LEMMA SumOfZeros ==
  ASSUME NEW N \in Nat, NEW f, f[0] = 0,
         \A i \in 1 .. N : f[i] = f[i - 1] + 0
  PROVE  f[N] = 0
<1> DEFINE V == {n \in Nat : n <= N => f[n] = 0}
<1>1. 0 \in V
  OBVIOUS
<1>2. ASSUME NEW n \in Nat, n \in V PROVE n + 1 \in V
  <2> SUFFICES ASSUME n + 1 <= N PROVE f[n + 1] = 0
    OBVIOUS
  <2>1. n + 1 \in 1 .. N /\ f[n] = 0
    BY <1>2
  <2> QED BY <2>1
<1>3. Nat \subseteq V
  <2> HIDE DEF V
  <2> QED BY <1>1, <1>2, SetInduction
<1> QED BY <1>3
=============================================================================
