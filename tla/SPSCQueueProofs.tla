--------------------------- MODULE SPSCQueueProofs --------------------------
(***************************************************************************)
(* For any heap, elements and width of m_size: the list that Push() and    *)
(* Pop() share without a lock holds exactly the cells in use, and it       *)
(* implements the queue Fifo.                                              *)
(*                                                                         *)
(* The invariant is about the list l of the cells from m_read_ptr on.  No  *)
(* step of the consumer changes its last cell, and no step of the producer *)
(* changes another one: this is what makes each step of either thread a    *)
(* step on the abstract queue, or on none of it.                           *)
(***************************************************************************)
EXTENDS SPSCQueue, FiniteSetTheorems, WellFoundedInduction, TLAPS

\* The cells of l, linked from the first to the last, which is empty.
Linked(l, nx) ==
  /\ l \in Seq(Cells) /\ l # <<>>
  /\ \A i, j \in 1 .. Len(l) : l[i] = l[j] => i = j
  /\ \A i \in 1 .. Len(l) - 1 : nx[l[i]] = l[i + 1]
  /\ nx[l[Len(l)]] = Nil

Popping == cpc \in {"move", "unlink", "delete"}

\* Which cells the threads hold besides the list.
Held(l) ==
  /\ allocated = {l[i] : i \in 1 .. Len(l)}
                   \cup (IF ppc = "link" THEN {newPtr} ELSE {})
                   \cup (IF Popping THEN {tmpPtr} ELSE {})
  /\ ppc \in {"link", "advance", "count"} => newPtr \in Cells
  /\ ppc = "link" =>
       /\ \A i \in 1 .. Len(l) : newPtr # l[i]
       /\ Popping => newPtr # tmpPtr
       /\ next[newPtr] = Nil
  /\ Popping =>
       /\ tmpPtr \in Cells
       /\ \A i \in 1 .. Len(l) : tmpPtr # l[i]
  /\ cpc = "delete" => next[tmpPtr] = Nil
  /\ \A c \in Cells \ allocated : next[c] = Nil

\* Where the two ends are: the cell at m_write_ptr may be gone when the
\* producer has published it and not yet moved on.
Ended(l) ==
  /\ readPtr = l[1]
  /\ ppc \in {"idle", "link", "count", "empty"} => writePtr = l[Len(l)]
  /\ ppc = "advance" => newPtr = l[Len(l)]
  /\ cpc \in {"count", "advance"} => Len(l) > 1
  /\ ppc = "link" => current[writePtr] \in Values

\* m_size, of a list of n elements.
Counted(n) ==
  LET real == n - (IF ppc \in {"advance", "count"} THEN 1 ELSE 0)
                - (IF cpc = "advance" THEN 1 ELSE 0)
  IN  size = IF real < 0 THEN real + SizeMod ELSE real

\* The cell that the producer's Empty() loaded is the first of the list, or
\* not in the list any more.
Probed(l) ==
  /\ ppc = "empty" <=> seen # Nil
  /\ \A i \in 1 .. Len(l) : seen = l[i] => i = 1

Shape(l) ==
  TypeOK /\ Linked(l, next) /\ Held(l) /\ Ended(l) /\ Counted(Len(l) - 1) /\ Probed(l)

IInv == \E l : Shape(l)
-----------------------------------------------------------------------------
(***************************************************************************)
(* The walk along the list.                                                *)
(***************************************************************************)
\* Every set of numbers has a least one.
LEMMA LeastNatural ==
  ASSUME NEW T, T \subseteq Nat, T # {}
  PROVE  \E x \in T : \A y \in T : x <= y
<1>1. PICK x \in T : \A y \in T : ~ (<<y, x>> \in OpToRel(<, Nat))
  BY WFMin, NatLessThanWellFounded
<1>2. ASSUME NEW y \in T, y < x PROVE <<y, x>> \in OpToRel(<, Nat)
  BY <1>2 DEF OpToRel
<1>3. \A y \in T : ~(y < x)
  BY <1>1, <1>2, Zenon
<1>4. \A y \in T : x <= y
  BY <1>3
<1> QED
  BY <1>4

\* Path(), with the pointers as an argument.
PathIn(nx, c) ==
  LET from[n \in 0 .. Cardinality(Cells)] ==
        [d \in Cells |-> IF n = 0 \/ nx[d] = Nil THEN <<d>> ELSE <<d>> \o from[n - 1][nx[d]]]
  IN  from[Cardinality(Cells)][c]

LEMMA HeapSize == Cardinality(Cells) \in Nat
  BY QueueAssumption, FS_CardinalityType

LEMMA PathSteps ==
  ASSUME NEW nx
  PROVE  \E f : /\ \A d \in Cells : PathIn(nx, d) = f[Cardinality(Cells)][d]
                /\ \A n \in 0 .. Cardinality(Cells), d \in Cells :
                     f[n][d] = IF n = 0 \/ nx[d] = Nil THEN <<d>> ELSE <<d>> \o f[n - 1][nx[d]]
<1> DEFINE N == Cardinality(Cells)
           Step(g, n) == [d \in Cells |->
                            IF n = 0 \/ nx[d] = Nil THEN <<d>> ELSE <<d>> \o g[nx[d]]]
           Built(f, m) == f = [n \in 0 .. m |-> Step(f[n - 1], n)]
           Fails == {m \in Nat : ~ \E f : Built(f, m)}
           from[n \in 0 .. Cardinality(Cells)] ==
             [d \in Cells |-> IF n = 0 \/ nx[d] = Nil THEN <<d>> ELSE <<d>> \o from[n - 1][nx[d]]]
<1>1. from = CHOOSE f : Built(f, Cardinality(Cells))
  BY DEF from
<1>2. \A d \in Cells : PathIn(nx, d) = from[Cardinality(Cells)][d]
  BY DEF PathIn
<1>3. \A g, h : Step(g, 0) = Step(h, 0)
  OBVIOUS
<1> HIDE DEF Step, from
<1>4. Fails = {}
  <2> SUFFICES ASSUME Fails # {} PROVE FALSE
    OBVIOUS
  <2>1. PICK m \in Fails : \A k \in Fails : m <= k
    <3>1. Fails \subseteq Nat
      OBVIOUS
    <3> HIDE DEF Fails
    <3> QED
      BY <3>1, LeastNatural
  <2>2. CASE m = 0
    <3> DEFINE f == [n \in 0 .. 0 |-> Step(<<>>, n)]
    <3>1. ASSUME NEW n \in 0 .. 0 PROVE Step(<<>>, n) = Step(f[n - 1], n)
      <4>1. n = 0
        OBVIOUS
      <4> HIDE DEF f
      <4> QED
        BY <4>1, <1>3
    <3>2. f = [n \in 0 .. 0 |-> Step(f[n - 1], n)]
      BY <3>1
    <3> QED
      BY <2>1, <2>2, <3>2
  <2>3. CASE m # 0
    <3>1. m - 1 \in Nat /\ m - 1 \notin Fails
      <4>1. m \in Nat
        OBVIOUS
      <4> HIDE DEF Fails
      <4> QED
        BY <2>1, <2>3, <4>1
    <3>2. PICK f : Built(f, m - 1)
      BY <3>1
    <3> DEFINE g == [n \in 0 .. m |-> IF n = m THEN Step(f[m - 1], m) ELSE f[n]]
    <3>3. ASSUME NEW n \in 0 .. m
          PROVE  g[n] = Step(g[n - 1], n)
      <4>1. CASE n = m
        BY <2>1, <2>3, <4>1
      <4>2. CASE n # m
        <5>1. n \in 0 .. m - 1 /\ g[n] = f[n]
          BY <2>1, <4>2
        <5>2. f[n] = Step(f[n - 1], n)
          BY <3>2, <5>1
        <5>3. n # 0 => g[n - 1] = f[n - 1]
          BY <2>1, <5>1
        <5> HIDE DEF g
        <5> QED
          BY <1>3, <5>1, <5>2, <5>3
      <4> QED
        BY <4>1, <4>2
    <3>4. Built(g, m)
      BY <3>3
    <3> QED
      BY <2>1, <3>4
  <2> QED
    BY <2>2, <2>3
<1>5. Built(from, Cardinality(Cells))
  <2>1. \E f : Built(f, Cardinality(Cells))
    BY <1>4, HeapSize
  <2> QED
    BY <1>1, <2>1
<1>6. \A n \in 0 .. Cardinality(Cells) : from[n] = Step(from[n - 1], n)
  BY <1>5
<1>7. ASSUME NEW n \in 0 .. Cardinality(Cells), NEW d \in Cells
      PROVE  from[n][d] = IF n = 0 \/ nx[d] = Nil THEN <<d>> ELSE <<d>> \o from[n - 1][nx[d]]
  <2>1. from[n] = Step(from[n - 1], n)
    BY <1>6
  <2>2. \A g : Step(g, n)[d] = IF n = 0 \/ nx[d] = Nil THEN <<d>> ELSE <<d>> \o g[nx[d]]
    BY DEF Step
  <2> QED
    BY <2>1, <2>2
<1> QED
  BY <1>2, <1>7

\* A list of different cells is not longer than the heap.
LEMMA ListFits ==
  ASSUME NEW l \in Seq(Cells), \A i, j \in 1 .. Len(l) : l[i] = l[j] => i = j
  PROVE  Len(l) \in Nat /\ Len(l) <= Cardinality(Cells)
<1>1. Len(l) \in Nat /\ l \in [1 .. Len(l) -> Cells]
  OBVIOUS
<1>2. l \in Injection(1 .. Len(l), Cells)
  BY <1>1 DEF Injection, IsInjective
<1>3. Cardinality(1 .. Len(l)) <= Cardinality(Cells)
  BY <1>2, QueueAssumption, FS_Injection
<1>4. Cardinality(1 .. Len(l)) = Len(l)
  <2>1. CASE Len(l) = 0
    BY <1>1, <2>1, FS_Interval
  <2>2. CASE Len(l) >= 1
    BY <1>1, <2>2, FS_Interval
  <2> QED
    BY <1>1, <2>1, <2>2
<1> QED
  BY <1>1, <1>3, <1>4

LEMMA PathInFacts ==
  ASSUME NEW nx, NEW l, Linked(l, nx)
  PROVE  PathIn(nx, l[1]) = l
<1> DEFINE N == Cardinality(Cells)
           m == Len(l)
           Rest(k) == SubSeq(l, k, m)
<1>1. /\ l \in Seq(Cells) /\ m \in Nat \ {0} /\ m <= N /\ N \in Nat
      /\ \A k \in 1 .. m : l[k] \in Cells
      /\ \A k \in 1 .. m - 1 : nx[l[k]] = l[k + 1] /\ nx[l[k]] # Nil
      /\ nx[l[m]] = Nil
  <2>1. l \in Seq(Cells) /\ l # <<>>
    BY DEF Linked
  <2>2. m \in Nat \ {0} /\ \A k \in 1 .. m : l[k] \in Cells
    BY <2>1
  <2>3. m <= N /\ N \in Nat
    BY ListFits, HeapSize DEF Linked
  <2>4. \A k \in 1 .. m - 1 : nx[l[k]] = l[k + 1] /\ k + 1 \in 1 .. m
    BY <2>2 DEF Linked
  <2> QED
    BY <2>1, <2>2, <2>3, <2>4, QueueAssumption DEF Linked
<1>2. PICK f : /\ \A d \in Cells : PathIn(nx, d) = f[N][d]
               /\ \A n \in 0 .. N, d \in Cells :
                    f[n][d] = IF n = 0 \/ nx[d] = Nil THEN <<d>> ELSE <<d>> \o f[n - 1][nx[d]]
  BY PathSteps
<1>3. Rest(m) = <<l[m]>>
  <2>1. Rest(m) \in Seq(Cells) /\ Len(Rest(m)) = 1 /\ Rest(m)[1] = l[m]
    BY <1>1
  <2>2. <<l[m]>> \in Seq(Cells) /\ Len(<<l[m]>>) = 1 /\ <<l[m]>>[1] = l[m]
    BY <1>1
  <2> HIDE DEF Rest, m
  <2>3. \A a, b \in Seq(Cells) : Len(a) = 1 /\ Len(b) = 1 /\ a[1] = b[1] => a = b
    OBVIOUS
  <2> QED
    BY <2>1, <2>2, <2>3
<1>4. ASSUME NEW k \in 1 .. m - 1 PROVE Rest(k) = <<l[k]>> \o Rest(k + 1)
  BY <1>1
<1>5. Rest(1) = l
  BY <1>1
<1> HIDE DEF m, N, Rest
<1> DEFINE Good(n) == \A k \in 1 .. m : m - k <= n => f[n][l[k]] = Rest(k)
           Fails == {n \in Nat : n <= N /\ ~Good(n)}
<1>6. Good(0)
  <2>1. 0 \in 0 .. N
    BY <1>1
  <2>2. \A k \in 1 .. m : m - k <= 0 => k = m
    BY <1>1
  <2> QED
    BY <1>1, <1>2, <1>3, <2>1, <2>2
<1>7. ASSUME NEW n \in Nat, n # 0, n <= N, Good(n - 1) PROVE Good(n)
  <2> SUFFICES ASSUME NEW k \in 1 .. m, m - k <= n PROVE f[n][l[k]] = Rest(k)
    OBVIOUS
  <2>1. f[n][l[k]] = IF nx[l[k]] = Nil THEN <<l[k]>> ELSE <<l[k]>> \o f[n - 1][nx[l[k]]]
    BY <1>1, <1>2, <1>7
  <2>2. CASE k = m
    BY <1>1, <1>3, <2>1, <2>2
  <2>3. CASE k # m
    <3>1. k \in 1 .. m - 1 /\ k + 1 \in 1 .. m /\ m - (k + 1) <= n - 1
      BY <1>1, <1>7, <2>3
    <3>2. f[n - 1][l[k + 1]] = Rest(k + 1)
      BY <1>7, <3>1
    <3> QED
      BY <1>1, <1>4, <2>1, <3>1, <3>2
  <2> QED
    BY <2>2, <2>3
<1> HIDE DEF Good
<1>8. Fails = {}
  <2> SUFFICES ASSUME Fails # {} PROVE FALSE
    OBVIOUS
  <2>1. PICK n \in Fails : \A k \in Fails : n <= k
    <3>1. Fails \subseteq Nat
      OBVIOUS
    <3> HIDE DEF Fails
    <3> QED
      BY <3>1, LeastNatural
  <2>2. n \in Nat /\ n <= N /\ ~Good(n)
    OBVIOUS
  <2>3. n # 0
    BY <1>6, <2>2
  <2>4. n - 1 \in Nat /\ n - 1 <= N
    BY <1>1, <2>2, <2>3
  <2>5. n - 1 \notin Fails
    <3> HIDE DEF Fails
    <3> QED
      BY <2>1, <2>2, <2>4
  <2>6. Good(n - 1)
    BY <2>4, <2>5
  <2> QED
    BY <1>7, <2>2, <2>3, <2>6
<1>9. Good(N)
  BY <1>1, <1>8
<1>10. 1 \in 1 .. m /\ m - 1 <= N
  BY <1>1
<1>11. f[N][l[1]] = Rest(1)
  BY <1>9, <1>10 DEF Good
<1> QED
  BY <1>1, <1>2, <1>5, <1>10, <1>11
-----------------------------------------------------------------------------
(***************************************************************************)
(* The steps of the two threads.                                           *)
(***************************************************************************)
\* m_size counts modulo its width.
LEMMA CountFacts ==
  ASSUME NEW n \in 0 .. SizeMod - 1
  PROVE  /\ (n + 1) % SizeMod = IF n = SizeMod - 1 THEN 0 ELSE n + 1
         /\ (n + SizeMod - 1) % SizeMod = IF n = 0 THEN SizeMod - 1 ELSE n - 1
<1>1. SizeMod \in Nat \ {0}
  BY QueueAssumption, HeapSize
<1>2. \A x \in 0 .. SizeMod - 1 : x % SizeMod = x
  BY <1>1
<1>3. \A x \in 0 .. SizeMod - 1 : (x + SizeMod) % SizeMod = x
  BY <1>1
<1>4. ASSUME n = SizeMod - 1 PROVE (n + 1) % SizeMod = 0
  <2>1. n + 1 = 0 + SizeMod /\ 0 \in 0 .. SizeMod - 1
    BY <1>1, <1>4
  <2> QED
    BY <1>3, <1>4, <2>1
<1>5. ASSUME n # SizeMod - 1 PROVE (n + 1) % SizeMod = n + 1
  <2>1. n + 1 \in 0 .. SizeMod - 1
    BY <1>1, <1>5
  <2> QED
    BY <1>2, <1>5, <2>1
<1>6. ASSUME n = 0 PROVE (n + SizeMod - 1) % SizeMod = SizeMod - 1
  <2>1. n + SizeMod - 1 = SizeMod - 1 /\ SizeMod - 1 \in 0 .. SizeMod - 1
    BY <1>1, <1>6
  <2> QED
    BY <1>2, <1>6, <2>1
<1>7. ASSUME n # 0 PROVE (n + SizeMod - 1) % SizeMod = n - 1
  <2>1. n + SizeMod - 1 = (n - 1) + SizeMod /\ n - 1 \in 0 .. SizeMod - 1
    BY <1>1, <1>7
  <2> QED
    BY <1>3, <1>7, <2>1
<1>8. (n + 1) % SizeMod = IF n = SizeMod - 1 THEN 0 ELSE n + 1
  BY <1>4, <1>5
<1>9. (n + SizeMod - 1) % SizeMod = IF n = 0 THEN SizeMod - 1 ELSE n - 1
  BY <1>6, <1>7
<1> QED
  BY <1>8, <1>9

\* The list is within the heap, and so within the count of m_size.
LEMMA ShapeFacts ==
  ASSUME NEW l, Linked(l, next)
  PROVE  /\ l \in Seq(Cells) /\ Len(l) \in Nat /\ Len(l) >= 1 /\ Len(l) < SizeMod
         /\ SizeMod \in Nat /\ Nil \notin Cells
         /\ \A i \in 1 .. Len(l) : l[i] \in Cells
         /\ 1 \in 1 .. Len(l) /\ Len(l) \in 1 .. Len(l)
<1>1. l \in Seq(Cells) /\ l # <<>>
  BY DEF Linked
<1>2. Len(l) \in Nat /\ Len(l) <= Cardinality(Cells)
  BY <1>1, ListFits DEF Linked
<1> QED
  BY <1>1, <1>2, QueueAssumption, HeapSize

LEMMA PushCurrentKeeps ==
  ASSUME NEW l, Shape(l), NEW v \in Values, PushCurrent(v)
  PROVE  Shape(l)'
<1>1. /\ TypeOK /\ Linked(l, next) /\ Held(l) /\ Ended(l) /\ Counted(Len(l) - 1) /\ Probed(l)
  BY DEF Shape
<1>2. /\ \A i \in 1 .. Len(l) : l[i] \in Cells
      /\ Len(l) \in 1 .. Len(l)
  BY <1>1, ShapeFacts
<1>3. PICK cell \in Cells :
        /\ cell \notin allocated /\ newPtr' = cell /\ allocated' = allocated \cup {cell}
        /\ current' = [current EXCEPT ![writePtr] = v]
  BY DEF PushCurrent, New
<1>4. /\ ppc = "idle" /\ ppc' = "link"
      /\ UNCHANGED <<next, writePtr, readPtr, size, cpc, tmpPtr, moving,
                     result, seen, answer>>
  BY DEF PushCurrent, consumer, probe
<1>5. TypeOK'
  BY <1>1, <1>3, <1>4 DEF TypeOK
<1>6. Linked(l, next)'
  BY <1>1, <1>4 DEF Linked
<1>7. Held(l)'
  BY <1>1, <1>2, <1>3, <1>4 DEF Held, Popping
<1>8. Ended(l)'
  BY <1>1, <1>2, <1>3, <1>4 DEF Ended, TypeOK
<1>9. Counted(Len(l) - 1)'
  BY <1>1, <1>4 DEF Counted
<1>10. Probed(l)'
  BY <1>1, <1>4 DEF Probed
<1> QED
  BY <1>5, <1>6, <1>7, <1>8, <1>9, <1>10 DEF Shape

LEMMA PushLinkKeeps ==
  ASSUME NEW l, Shape(l), PushLink, NEW m, m = Append(l, newPtr)
  PROVE  Shape(m)'
<1>1. /\ TypeOK /\ Linked(l, next) /\ Held(l) /\ Ended(l) /\ Counted(Len(l) - 1) /\ Probed(l)
  BY DEF Shape
<1>2. /\ l \in Seq(Cells) /\ Len(l) \in Nat /\ Len(l) >= 1 /\ Nil \notin Cells
      /\ \A i \in 1 .. Len(l) : l[i] \in Cells
      /\ 1 \in 1 .. Len(l) /\ Len(l) \in 1 .. Len(l)
  BY <1>1, ShapeFacts
<1>3. /\ ppc = "link" /\ ppc' = "advance"
      /\ next' = [next EXCEPT ![writePtr] = newPtr]
      /\ UNCHANGED <<allocated, current, writePtr, readPtr, size, newPtr, cpc, tmpPtr, moving,
                     result, seen, answer>>
  BY DEF PushLink, consumer, probe
<1>4. /\ newPtr \in Cells /\ \A i \in 1 .. Len(l) : newPtr # l[i]
      /\ next[newPtr] = Nil /\ writePtr = l[Len(l)] /\ readPtr = l[1]
  BY <1>1, <1>3 DEF Held, Ended
<1>5. /\ m \in Seq(Cells) /\ Len(m) = Len(l) + 1 /\ m[Len(l) + 1] = newPtr
      /\ \A i \in 1 .. Len(l) : m[i] = l[i]
  BY <1>2, <1>4
<1>6. \A i \in 1 .. Len(l) + 1 : i \in 1 .. Len(l) \/ i = Len(l) + 1
  BY <1>2
<1>7. TypeOK'
  BY <1>1, <1>3, <1>4 DEF TypeOK
<1>8. Linked(m, next')
  <2>1. m # <<>>
    BY <1>2, <1>5
  <2>2. ASSUME NEW i \in 1 .. Len(l) + 1, NEW j \in 1 .. Len(l) + 1, m[i] = m[j] PROVE i = j
    BY <1>1, <1>4, <1>5, <1>6, <2>2 DEF Linked
  <2>3. ASSUME NEW i \in 1 .. Len(l) PROVE next'[m[i]] = m[i + 1]
    <3>1. CASE i = Len(l)
      BY <1>1, <1>2, <1>3, <1>4, <1>5, <3>1 DEF TypeOK
    <3>2. CASE i # Len(l)
      <4>1. i \in 1 .. Len(l) - 1 /\ i + 1 \in 1 .. Len(l)
        BY <1>2, <3>2
      <4>2. l[i] # writePtr
        BY <1>1, <1>2, <1>4, <3>2 DEF Linked
      <4> QED
        BY <1>1, <1>2, <1>3, <1>5, <4>1, <4>2 DEF Linked, TypeOK
    <3> QED
      BY <3>1, <3>2
  <2>4. next'[m[Len(l) + 1]] = Nil
    BY <1>1, <1>2, <1>3, <1>4, <1>5 DEF TypeOK
  <2>5. Len(m) - 1 = Len(l)
    BY <1>2, <1>5
  <2> QED
    BY <1>5, <2>1, <2>2, <2>3, <2>4, <2>5 DEF Linked
<1>9. Held(m)'
  <2>1. {m[i] : i \in 1 .. Len(m)} = {l[i] : i \in 1 .. Len(l)} \cup {newPtr}
    <3>1. Len(l) + 1 \in 1 .. Len(l) + 1 /\ \A i \in 1 .. Len(l) : i \in 1 .. Len(l) + 1
      BY <1>2
    <3> QED
      BY <1>5, <1>6, <3>1
  <2>2. allocated' = {m[i] : i \in 1 .. Len(m)} \cup (IF Popping THEN {tmpPtr} ELSE {})
    BY <1>1, <1>3, <2>1 DEF Held
  <2>3. Popping => tmpPtr \in Cells /\ \A i \in 1 .. Len(m) : tmpPtr # m[i]
    BY <1>1, <1>3, <1>5, <1>6 DEF Held
  <2>4. cpc = "delete" => next'[tmpPtr] = Nil
    <3>1. cpc = "delete" => tmpPtr \in Cells /\ tmpPtr # writePtr /\ next[tmpPtr] = Nil
      BY <1>1, <1>2, <1>4 DEF Held, Popping
    <3> QED
      BY <1>1, <1>3, <3>1 DEF TypeOK
  <2>5. \A c \in Cells \ allocated : next'[c] = Nil
    <3>1. writePtr \in allocated
      BY <1>1, <1>2, <1>4 DEF Held
    <3> QED
      BY <1>1, <1>3, <3>1 DEF Held, TypeOK
  <2> QED
    BY <1>3, <1>4, <2>2, <2>3, <2>4, <2>5 DEF Held, Popping
<1>10. Ended(m)'
  BY <1>1, <1>2, <1>3, <1>4, <1>5 DEF Ended
<1>11. Counted(Len(m) - 1)'
  BY <1>1, <1>2, <1>3, <1>5 DEF Counted
<1>12. Probed(m)'
  BY <1>1, <1>3, <1>4, <1>5, <1>6, <1>2 DEF Probed
<1> QED
  BY <1>7, <1>8, <1>9, <1>10, <1>11, <1>12 DEF Shape

LEMMA PushAdvanceKeeps ==
  ASSUME NEW l, Shape(l), PushAdvance
  PROVE  Shape(l)'
<1>1. /\ TypeOK /\ Linked(l, next) /\ Held(l) /\ Ended(l) /\ Counted(Len(l) - 1) /\ Probed(l)
  BY DEF Shape
<1>2. /\ ppc = "advance" /\ ppc' = "count" /\ writePtr' = newPtr
      /\ UNCHANGED <<allocated, current, next, readPtr, size, newPtr, cpc, tmpPtr, moving,
                     result, seen, answer>>
  BY DEF PushAdvance, consumer, probe, cells
<1>3. newPtr \in Cells /\ newPtr = l[Len(l)]
  BY <1>1, <1>2 DEF Held, Ended
<1>4. TypeOK'
  BY <1>1, <1>2, <1>3 DEF TypeOK
<1>5. Linked(l, next)'
  BY <1>1, <1>2 DEF Linked
<1>6. Held(l)'
  BY <1>1, <1>2 DEF Held, Popping
<1>7. Ended(l)'
  BY <1>1, <1>2, <1>3 DEF Ended
<1>8. Counted(Len(l) - 1)'
  BY <1>1, <1>2 DEF Counted
<1>9. Probed(l)'
  BY <1>1, <1>2 DEF Probed
<1> QED
  BY <1>4, <1>5, <1>6, <1>7, <1>8, <1>9 DEF Shape

LEMMA PushCountKeeps ==
  ASSUME NEW l, Shape(l), PushCount
  PROVE  Shape(l)'
<1>1. /\ TypeOK /\ Linked(l, next) /\ Held(l) /\ Ended(l) /\ Counted(Len(l) - 1) /\ Probed(l)
  BY DEF Shape
<1>2. /\ ppc = "count" /\ ppc' = "idle" /\ newPtr' = Nil /\ size' = (size + 1) % SizeMod
      /\ UNCHANGED <<allocated, current, next, writePtr, readPtr, cpc, tmpPtr, moving,
                     result, seen, answer>>
  BY DEF PushCount, consumer, probe, cells
<1>3. size \in 0 .. SizeMod - 1 /\ SizeMod \in Nat /\ Len(l) \in Nat
      /\ Len(l) >= 1 /\ Len(l) < SizeMod
  BY <1>1, ShapeFacts DEF TypeOK
<1>4. size' = IF size = SizeMod - 1 THEN 0 ELSE size + 1
  BY <1>2, <1>3, CountFacts
<1>5. size' \in 0 .. SizeMod - 1
  BY <1>3, <1>4
<1>6. TypeOK'
  BY <1>1, <1>2, <1>5 DEF TypeOK
<1>7. Linked(l, next)'
  BY <1>1, <1>2 DEF Linked
<1>8. Held(l)'
  BY <1>1, <1>2 DEF Held, Popping
<1>9. Ended(l)'
  BY <1>1, <1>2 DEF Ended
<1>10. Counted(Len(l) - 1)'
  <2> DEFINE b == IF cpc = "advance" THEN 1 ELSE 0
  <2>1. b \in {0, 1} /\ (b = 1 => Len(l) > 1)
    BY <1>1 DEF Ended
  <2>2. size = IF Len(l) - 1 - 1 - b < 0 THEN Len(l) - 1 - 1 - b + SizeMod ELSE Len(l) - 1 - 1 - b
    BY <1>1, <1>2 DEF Counted
  <2> HIDE DEF b
  <2>3. size' = IF Len(l) - 1 - 0 - b < 0 THEN Len(l) - 1 - 0 - b + SizeMod ELSE Len(l) - 1 - 0 - b
    BY <1>3, <1>4, <2>1, <2>2
  <2> QED
    BY <1>2, <2>3 DEF Counted, b
<1>11. Probed(l)'
  BY <1>1, <1>2 DEF Probed
<1> QED
  BY <1>6, <1>7, <1>8, <1>9, <1>10, <1>11 DEF Shape

LEMMA PopTestKeeps ==
  ASSUME NEW l, Shape(l), NEW isMoving \in BOOLEAN, PopTest(isMoving)
  PROVE  Shape(l)'
<1>1. /\ TypeOK /\ Linked(l, next) /\ Held(l) /\ Ended(l) /\ Counted(Len(l) - 1) /\ Probed(l)
  BY DEF Shape
<1>2. /\ cpc = "idle" /\ cpc' = "count" /\ moving' = isMoving /\ next[readPtr] # Nil
      /\ UNCHANGED <<allocated, current, next, writePtr, readPtr, size, ppc, newPtr, tmpPtr,
                     result, seen, answer>>
  BY DEF PopTest, producer, probe, cells
<1>3. Len(l) > 1
  <2>1. Len(l) \in Nat /\ Len(l) >= 1
    BY <1>1, ShapeFacts
  <2>2. Len(l) # 1
    BY <1>1, <1>2 DEF Linked, Ended
  <2>3. \A n \in Nat : n >= 1 /\ n # 1 => n > 1
    OBVIOUS
  <2> QED
    BY <2>1, <2>2, <2>3, Zenon
<1>4. TypeOK'
  BY <1>1, <1>2 DEF TypeOK
<1>5. Linked(l, next)'
  BY <1>1, <1>2 DEF Linked
<1>6. Held(l)'
  BY <1>1, <1>2 DEF Held, Popping
<1>7. Ended(l)'
  BY <1>1, <1>2, <1>3 DEF Ended
<1>8. Counted(Len(l) - 1)'
  BY <1>1, <1>2 DEF Counted
<1>9. Probed(l)'
  BY <1>1, <1>2 DEF Probed
<1> QED
  BY <1>4, <1>5, <1>6, <1>7, <1>8, <1>9 DEF Shape

LEMMA PopCountKeeps ==
  ASSUME NEW l, Shape(l), PopCount
  PROVE  Shape(l)'
<1>1. /\ TypeOK /\ Linked(l, next) /\ Held(l) /\ Ended(l) /\ Counted(Len(l) - 1) /\ Probed(l)
  BY DEF Shape
<1>2. /\ cpc = "count" /\ cpc' = "advance" /\ size' = (size + SizeMod - 1) % SizeMod
      /\ UNCHANGED <<allocated, current, next, writePtr, readPtr, ppc, newPtr, tmpPtr, moving,
                     result, seen, answer>>
  BY DEF PopCount, producer, probe, cells
<1>3. size \in 0 .. SizeMod - 1 /\ SizeMod \in Nat /\ Len(l) \in Nat
      /\ Len(l) > 1 /\ Len(l) < SizeMod
  BY <1>1, <1>2, ShapeFacts DEF TypeOK, Ended
<1>4. size' = IF size = 0 THEN SizeMod - 1 ELSE size - 1
  BY <1>2, <1>3, CountFacts
<1>5. size' \in 0 .. SizeMod - 1
  BY <1>3, <1>4
<1>6. TypeOK'
  BY <1>1, <1>2, <1>5 DEF TypeOK
<1>7. Linked(l, next)'
  BY <1>1, <1>2 DEF Linked
<1>8. Held(l)'
  BY <1>1, <1>2 DEF Held, Popping
<1>9. Ended(l)'
  BY <1>1, <1>2 DEF Ended
<1>10. Counted(Len(l) - 1)'
  <2> DEFINE a == IF ppc \in {"advance", "count"} THEN 1 ELSE 0
  <2>1. a \in {0, 1}
    OBVIOUS
  <2>2. size = IF Len(l) - 1 - a - 0 < 0 THEN Len(l) - 1 - a - 0 + SizeMod ELSE Len(l) - 1 - a - 0
    BY <1>1, <1>2 DEF Counted
  <2> HIDE DEF a
  <2>3. size' = IF Len(l) - 1 - a - 1 < 0 THEN Len(l) - 1 - a - 1 + SizeMod ELSE Len(l) - 1 - a - 1
    BY <1>3, <1>4, <2>1, <2>2
  <2> QED
    BY <1>2, <2>3 DEF Counted, a
<1>11. Probed(l)'
  BY <1>1, <1>2 DEF Probed
<1> QED
  BY <1>6, <1>7, <1>8, <1>9, <1>10, <1>11 DEF Shape

LEMMA PopAdvanceKeeps ==
  ASSUME NEW l, Shape(l), PopAdvance, NEW m, m = Tail(l)
  PROVE  Shape(m)'
<1>1. /\ TypeOK /\ Linked(l, next) /\ Held(l) /\ Ended(l) /\ Counted(Len(l) - 1) /\ Probed(l)
  BY DEF Shape
<1>2. /\ cpc = "advance" /\ cpc' \in {"move", "unlink"}
      /\ tmpPtr' = readPtr /\ readPtr' = next[readPtr]
      /\ UNCHANGED <<allocated, current, next, writePtr, size, ppc, newPtr, moving,
                     result, seen, answer>>
  BY DEF PopAdvance, producer, probe, cells
<1>3. /\ l \in Seq(Cells) /\ Len(l) \in Nat /\ Len(l) > 1 /\ Nil \notin Cells
      /\ \A i \in 1 .. Len(l) : l[i] \in Cells
      /\ 1 \in 1 .. Len(l) /\ 2 \in 1 .. Len(l) /\ readPtr = l[1] /\ next[readPtr] = l[2]
  <2>1. /\ l \in Seq(Cells) /\ Len(l) \in Nat /\ Nil \notin Cells
        /\ \A i \in 1 .. Len(l) : l[i] \in Cells
    BY <1>1, ShapeFacts
  <2>2. Len(l) > 1 /\ readPtr = l[1]
    BY <1>1, <1>2 DEF Ended
  <2>3. 1 \in 1 .. Len(l) - 1 /\ 1 \in 1 .. Len(l) /\ 2 \in 1 .. Len(l) /\ 1 + 1 = 2
    BY <2>1, <2>2
  <2>4. next[l[1]] = l[1 + 1]
    BY <1>1, <2>3 DEF Linked
  <2> QED
    BY <2>1, <2>2, <2>3, <2>4
<1>4. /\ m \in Seq(Cells) /\ Len(m) = Len(l) - 1
      /\ \A i \in 1 .. Len(l) - 1 : m[i] = l[i + 1]
  BY <1>3
<1>5. /\ \A i \in 1 .. Len(l) - 1 : i \in Int /\ i + 1 \in 1 .. Len(l) /\ i + 1 # 1
      /\ \A i \in 1 .. Len(l) : i = 1 \/ (i - 1 \in 1 .. Len(l) - 1 /\ (i - 1) + 1 = i)
      /\ 1 \in 1 .. Len(l) - 1 /\ Len(l) - 1 \in 1 .. Len(l) - 1
      /\ (Len(l) - 1) + 1 = Len(l) /\ 1 + 1 = 2
  BY <1>3
<1>6. TypeOK'
  BY <1>1, <1>2, <1>3 DEF TypeOK
<1>7. Linked(m, next')
  <2>1. m # <<>>
    <3>1. Len(m) # 0 /\ Len(<<>>) = 0
      BY <1>3, <1>4
    <3> QED
      BY <3>1
  <2>2. ASSUME NEW i \in 1 .. Len(l) - 1, NEW j \in 1 .. Len(l) - 1, m[i] = m[j] PROVE i = j
    <3>1. i + 1 = j + 1
      BY <1>1, <1>4, <1>5, <2>2 DEF Linked
    <3> QED
      BY <3>1
  <2>3. ASSUME NEW i \in 1 .. (Len(l) - 1) - 1 PROVE next'[m[i]] = m[i + 1]
    <3>1. /\ i \in 1 .. Len(l) - 1 /\ i + 1 \in 1 .. Len(l) - 1
      BY <1>3
    <3> QED
      BY <1>1, <1>2, <1>4, <3>1 DEF Linked
  <2>4. next'[m[Len(l) - 1]] = Nil
    BY <1>1, <1>2, <1>4, <1>5 DEF Linked
  <2> QED
    BY <1>4, <2>1, <2>2, <2>3, <2>4 DEF Linked
<1>8. /\ {l[i] : i \in 1 .. Len(l)} = {m[i] : i \in 1 .. Len(m)} \cup {l[1]}
      /\ \A i \in 1 .. Len(m) : l[1] # m[i]
  <2>1. \A i \in 1 .. Len(l) - 1 : l[1] # l[i + 1]
    BY <1>1, <1>3, <1>5 DEF Linked
  <2>2. \A i \in 1 .. Len(l) : i = 1 \/ \E j \in 1 .. Len(l) - 1 : l[i] = m[j]
    BY <1>4, <1>5
  <2> QED
    BY <1>3, <1>4, <1>5, <2>1, <2>2
<1>9. Held(m)'
  <2>1. allocated' = {m[i] : i \in 1 .. Len(m)}
                       \cup (IF ppc = "link" THEN {newPtr} ELSE {}) \cup {tmpPtr'}
    BY <1>1, <1>2, <1>3, <1>8 DEF Held, Popping
  <2>2. ppc = "link" => newPtr # l[1] /\ \A i \in 1 .. Len(m) : newPtr # m[i]
    BY <1>1, <1>3, <1>4, <1>5 DEF Held
  <2> QED
    BY <1>1, <1>2, <1>3, <1>8, <2>1, <2>2 DEF Held, Popping
<1>10. Ended(m)'
  BY <1>1, <1>2, <1>3, <1>4, <1>5 DEF Ended
<1>11. Counted(Len(m) - 1)'
  <2> DEFINE a == IF ppc \in {"advance", "count"} THEN 1 ELSE 0
             n == Len(l) - 1
  <2>1. a \in {0, 1} /\ n \in Nat /\ Len(m) - 1 = n - 1
    BY <1>3, <1>4
  <2>2. size = IF n - a - 1 < 0 THEN n - a - 1 + SizeMod ELSE n - a - 1
    BY <1>1, <1>2 DEF Counted
  <2> HIDE DEF a, n
  <2>3. (n - 1) - a - 0 = n - a - 1
    BY <2>1
  <2>4. /\ size' = IF (n - 1) - a - 0 < 0 THEN (n - 1) - a - 0 + SizeMod ELSE (n - 1) - a - 0
        /\ ppc' = ppc /\ cpc' # "advance"
    BY <1>2, <2>2, <2>3
  <2> QED
    BY <2>1, <2>4 DEF Counted, a
<1>12. Probed(m)'
  BY <1>1, <1>2, <1>4, <1>5 DEF Probed
<1> QED
  BY <1>6, <1>7, <1>9, <1>10, <1>11, <1>12 DEF Shape

LEMMA PopMoveKeeps ==
  ASSUME NEW l, Shape(l), PopMove
  PROVE  Shape(l)'
<1>1. /\ TypeOK /\ Linked(l, next) /\ Held(l) /\ Ended(l) /\ Counted(Len(l) - 1) /\ Probed(l)
  BY DEF Shape
<1>2. /\ cpc = "move" /\ cpc' = "unlink" /\ result' = current[tmpPtr]
      /\ UNCHANGED <<allocated, current, next, writePtr, readPtr, size, ppc, newPtr, tmpPtr, moving,
                     seen, answer>>
  BY DEF PopMove, producer, probe, cells
<1>3. tmpPtr \in Cells
  BY <1>1, <1>2 DEF Held, Popping
<1>4. TypeOK'
  BY <1>1, <1>2, <1>3 DEF TypeOK
<1>5. Linked(l, next)'
  BY <1>1, <1>2 DEF Linked
<1>6. Held(l)'
  BY <1>1, <1>2 DEF Held, Popping
<1>7. Ended(l)'
  BY <1>1, <1>2 DEF Ended
<1>8. Counted(Len(l) - 1)'
  BY <1>1, <1>2 DEF Counted
<1>9. Probed(l)'
  BY <1>1, <1>2 DEF Probed
<1> QED
  BY <1>4, <1>5, <1>6, <1>7, <1>8, <1>9 DEF Shape

\* The cell is not in the list any more.
LEMMA OffList ==
  ASSUME NEW l, TypeOK, Linked(l, next), NEW nx \in [Cells -> Cells \cup {Nil}], NEW gone \in Cells,
         \A i \in 1 .. Len(l) : gone # l[i],
         \A c \in Cells : c # gone => nx[c] = next[c]
  PROVE  Linked(l, nx)
<1>1. /\ Len(l) \in Nat /\ \A i \in 1 .. Len(l) : l[i] \in Cells /\ nx[l[i]] = next[l[i]]
      /\ Len(l) \in 1 .. Len(l)
  BY ShapeFacts
<1>2. \A i \in 1 .. Len(l) - 1 : i \in 1 .. Len(l)
  BY <1>1
<1> QED
  BY <1>1, <1>2 DEF Linked

LEMMA PopUnlinkKeeps ==
  ASSUME NEW l, Shape(l), PopUnlink
  PROVE  Shape(l)'
<1>1. /\ TypeOK /\ Linked(l, next) /\ Held(l) /\ Ended(l) /\ Counted(Len(l) - 1) /\ Probed(l)
  BY DEF Shape
<1>2. /\ cpc = "unlink" /\ cpc' = "delete" /\ next' = [next EXCEPT ![tmpPtr] = Nil]
      /\ UNCHANGED <<allocated, current, writePtr, readPtr, size, ppc, newPtr, tmpPtr, moving,
                     result, seen, answer>>
  BY DEF PopUnlink, producer, probe
<1>3. tmpPtr \in Cells /\ \A i \in 1 .. Len(l) : tmpPtr # l[i]
  BY <1>1, <1>2 DEF Held, Popping
<1>4. TypeOK'
  BY <1>1, <1>2 DEF TypeOK
<1>5. /\ \A c \in Cells : c # tmpPtr => next'[c] = next[c]
      /\ next'[tmpPtr] = Nil
  BY <1>1, <1>2, <1>3 DEF TypeOK
<1>6. Linked(l, next')
  BY <1>1, <1>3, <1>4, <1>5, OffList DEF TypeOK
<1>7. Held(l)'
  BY <1>1, <1>2, <1>3, <1>5 DEF Held, Popping
<1>8. Ended(l)'
  BY <1>1, <1>2 DEF Ended
<1>9. Counted(Len(l) - 1)'
  BY <1>1, <1>2 DEF Counted
<1>10. Probed(l)'
  BY <1>1, <1>2 DEF Probed
<1> QED
  BY <1>4, <1>6, <1>7, <1>8, <1>9, <1>10 DEF Shape

LEMMA PathIs ==
  ASSUME NEW l, Linked(l, next)
  PROVE  Path(l[1]) = l /\ Reach(l[1]) = {l[i] : i \in 1 .. Len(l)}
<1>1. Path(l[1]) = PathIn(next, l[1])
  BY DEF Path, PathIn
<1>2. Path(l[1]) = l
  BY <1>1, PathInFacts
<1>3. DOMAIN l = 1 .. Len(l)
  BY ShapeFacts
<1> QED
  BY <1>2, <1>3 DEF Reach

\* The recursive delete of a cell that was cut off deletes only this one.
LEMMA ReachOne ==
  ASSUME NEW c \in Cells, next[c] = Nil
  PROVE  Reach(c) = {c}
<1> DEFINE l == <<c>>
<1>1. l \in Seq(Cells) /\ Len(l) = 1 /\ l[1] = c /\ l # <<>>
  OBVIOUS
<1> HIDE DEF l
<1>2. Linked(l, next)
  BY <1>1 DEF Linked
<1>3. Reach(l[1]) = {l[i] : i \in 1 .. Len(l)}
  BY <1>2, PathIs
<1>4. {l[i] : i \in 1 .. Len(l)} = {c}
  BY <1>1
<1> QED
  BY <1>1, <1>3, <1>4

LEMMA PopDeleteKeeps ==
  ASSUME NEW l, Shape(l), PopDelete
  PROVE  /\ Shape(l)'
         /\ \A c \in Cells : c # tmpPtr => current'[c] = current[c]
<1>1. /\ TypeOK /\ Linked(l, next) /\ Held(l) /\ Ended(l) /\ Counted(Len(l) - 1) /\ Probed(l)
  BY DEF Shape
<1>2. /\ cpc = "delete" /\ cpc' = "idle" /\ tmpPtr' = Nil /\ moving' = FALSE
      /\ UNCHANGED <<writePtr, readPtr, size, ppc, newPtr,
                     result, seen, answer>>
      /\ Delete(Reach(tmpPtr))
  BY DEF PopDelete, producer, probe
<1>3. /\ tmpPtr \in Cells /\ next[tmpPtr] = Nil
      /\ \A i \in 1 .. Len(l) : tmpPtr # l[i]
      /\ ppc = "link" => newPtr # tmpPtr
  BY <1>1, <1>2 DEF Held, Popping
<1>4. Reach(tmpPtr) = {tmpPtr}
  BY <1>3, ReachOne
<1>5. /\ allocated' = allocated \ {tmpPtr}
      /\ current' = [c \in Cells |-> IF c \in {tmpPtr} THEN Garbage ELSE current[c]]
      /\ next' = [c \in Cells |-> IF c \in {tmpPtr} THEN Nil ELSE next[c]]
  BY <1>2, <1>4 DEF Delete
<1>6. /\ \A c \in Cells : c # tmpPtr => next'[c] = next[c] /\ current'[c] = current[c]
      /\ next'[tmpPtr] = Nil
  BY <1>3, <1>5
<1>7. TypeOK'
  BY <1>1, <1>2, <1>5 DEF TypeOK
<1>8. Linked(l, next')
  BY <1>1, <1>3, <1>6, <1>7, OffList DEF TypeOK
<1>9. Held(l)'
  <2>1. allocated' = {l[i] : i \in 1 .. Len(l)} \cup (IF ppc = "link" THEN {newPtr} ELSE {})
    BY <1>1, <1>2, <1>3, <1>5 DEF Held, Popping
  <2>2. \A c \in Cells \ allocated' : next'[c] = Nil
    BY <1>1, <1>5, <1>6 DEF Held
  <2> QED
    BY <1>1, <1>2, <1>3, <1>6, <2>1, <2>2 DEF Held, Popping
<1>10. Ended(l)'
  <2>1. ppc = "link" => writePtr \in Cells /\ writePtr # tmpPtr
    BY <1>1, <1>3, ShapeFacts DEF Ended
  <2> QED
    BY <1>1, <1>2, <1>6, <2>1 DEF Ended
<1>11. Counted(Len(l) - 1)'
  BY <1>1, <1>2 DEF Counted
<1>12. Probed(l)'
  BY <1>1, <1>2 DEF Probed
<1> QED
  BY <1>6, <1>7, <1>8, <1>9, <1>10, <1>11, <1>12 DEF Shape

LEMMA ClearKeeps ==
  ASSUME NEW l, Shape(l), Clear
  PROVE  \E cell \in Cells : readPtr' = cell /\ Shape(<<cell>>)'
<1>1. /\ TypeOK /\ Linked(l, next) /\ Held(l) /\ Ended(l) /\ Counted(Len(l) - 1) /\ Probed(l)
  BY DEF Shape
<1>2. /\ ppc = "idle" /\ cpc = "idle" /\ size' = 0
      /\ UNCHANGED <<ppc, newPtr, cpc, tmpPtr, moving,
                     result, seen, answer>>
  BY DEF Clear, producer, probe, consumer
<1>3. PICK cell \in Cells :
        /\ allocated' = (allocated \ Reach(readPtr)) \cup {cell}
        /\ current' = [c \in Cells |-> Garbage] /\ next' = [c \in Cells |-> Nil]
        /\ writePtr' = cell /\ readPtr' = cell
  BY DEF Clear
<1>4. Reach(readPtr) = {l[i] : i \in 1 .. Len(l)}
  BY <1>1, PathIs DEF Ended
<1>5. allocated' = {cell}
  BY <1>1, <1>2, <1>3, <1>4 DEF Held, Popping
<1>6. SizeMod \in Nat /\ SizeMod > 0
  BY QueueAssumption, HeapSize
<1>7. TypeOK'
  BY <1>1, <1>2, <1>3, <1>5, <1>6 DEF TypeOK
<1>8. ASSUME NEW m, m = <<cell>> PROVE Shape(m)'
  <2>1. m \in Seq(Cells) /\ Len(m) = 1 /\ m[1] = cell /\ m # <<>>
    BY <1>8
  <2>2. Linked(m, next')
    BY <1>3, <2>1 DEF Linked
  <2>3. {m[i] : i \in 1 .. Len(m)} = {cell}
    BY <2>1
  <2>4. Held(m)'
    BY <1>2, <1>3, <1>5, <2>3 DEF Held, Popping
  <2>5. Ended(m)'
    BY <1>2, <1>3, <2>1 DEF Ended
  <2>6. Counted(Len(m) - 1)'
    <3>1. Len(m) - 1 = 0 /\ 0 - 0 - 0 = 0 /\ ~(0 < 0)
      BY <2>1
    <3> QED
      BY <1>2, <3>1 DEF Counted
  <2>7. Probed(m)'
    BY <1>1, <1>2, <2>1 DEF Probed
  <2> QED
    BY <1>7, <2>2, <2>4, <2>5, <2>6, <2>7 DEF Shape
<1> QED
  BY <1>3, <1>8

LEMMA EmptyLoadKeeps ==
  ASSUME NEW l, Shape(l), EmptyLoad
  PROVE  Shape(l)'
<1>1. /\ TypeOK /\ Linked(l, next) /\ Held(l) /\ Ended(l) /\ Counted(Len(l) - 1) /\ Probed(l)
  BY DEF Shape
<1>2. /\ ppc = "idle" /\ ppc' = "empty" /\ seen' = readPtr
      /\ UNCHANGED <<allocated, current, next, writePtr, readPtr, size, newPtr, cpc, tmpPtr, moving,
                     result, answer>>
  BY DEF EmptyLoad, consumer, cells
<1>3. readPtr = l[1] /\ 1 \in 1 .. Len(l) /\ Nil \notin Cells
  BY <1>1, ShapeFacts DEF Ended
<1>4. TypeOK'
  BY <1>1, <1>2 DEF TypeOK
<1>5. Linked(l, next)'
  BY <1>1, <1>2 DEF Linked
<1>6. Held(l)'
  BY <1>1, <1>2 DEF Held, Popping
<1>7. Ended(l)'
  BY <1>1, <1>2 DEF Ended
<1>8. Counted(Len(l) - 1)'
  BY <1>1, <1>2 DEF Counted
<1>9. Probed(l)'
  BY <1>1, <1>2, <1>3 DEF Probed, Linked, TypeOK
<1> QED
  BY <1>4, <1>5, <1>6, <1>7, <1>8, <1>9 DEF Shape

LEMMA EmptyTestKeeps ==
  ASSUME NEW l, Shape(l), EmptyTest
  PROVE  Shape(l)'
<1>1. /\ TypeOK /\ Linked(l, next) /\ Held(l) /\ Ended(l) /\ Counted(Len(l) - 1) /\ Probed(l)
  BY DEF Shape
<1>2. /\ ppc = "empty" /\ ppc' = "idle" /\ seen' = Nil
      /\ UNCHANGED <<allocated, current, next, writePtr, readPtr, size, newPtr, cpc, tmpPtr, moving,
                     result>>
  BY DEF EmptyTest, consumer, cells
<1>3. answer' \in BOOLEAN
  BY DEF EmptyTest
<1>4. TypeOK'
  BY <1>1, <1>2, <1>3 DEF TypeOK
<1>5. Linked(l, next)'
  BY <1>1, <1>2 DEF Linked
<1>6. Held(l)'
  BY <1>1, <1>2 DEF Held, Popping
<1>7. Ended(l)'
  BY <1>1, <1>2 DEF Ended
<1>8. Counted(Len(l) - 1)'
  BY <1>1, <1>2 DEF Counted
<1>9. Probed(l)'
  BY <1>1, <1>2, ShapeFacts DEF Probed
<1> QED
  BY <1>4, <1>5, <1>6, <1>7, <1>8, <1>9 DEF Shape
-----------------------------------------------------------------------------
(***************************************************************************)
(* The invariant, and each step as one of the abstract queue.              *)
(***************************************************************************)
\* What the abstract queue holds, and what was last taken from it.
Elements(l, cur) == [i \in 1 .. Len(l) - 1 |-> cur[l[i]]]
Taken == IF cpc = "move" THEN current[tmpPtr] ELSE result
Asked == IF seen = Nil THEN "no" ELSE IF seen = readPtr THEN "fresh" ELSE "stale"

LEMMA ContentsAre ==
  ASSUME NEW l, Linked(l, next), readPtr = l[1]
  PROVE  Contents = Elements(l, current)
<1>1. Path(readPtr) = l
  BY PathIs
<1> QED
  BY <1>1 DEF Contents, Length, Elements

LEMMA ContentsWillBe ==
  ASSUME NEW m, Linked(m, next'), readPtr' = m[1]
  PROVE  Contents' = Elements(m, current')
<1>1. Path(readPtr)' = PathIn(next', readPtr')
  BY DEF Path, PathIn
<1>2. Path(readPtr)' = m
  BY <1>1, PathInFacts
<1> QED
  BY <1>2 DEF Contents, Length, Elements

\* The step leaves the abstract queue alone, or the producer's question.
Unasked == Asked' = Asked /\ answer' = answer
Same == Contents' = Contents /\ Taken' = Taken /\ Unasked

\* Elements of the list are only written to at its end, which holds none.
LEMMA ElementsSame ==
  ASSUME NEW l, Shape(l), Shape(l)',
         \A i \in 1 .. Len(l) - 1 : current'[l[i]] = current[l[i]]
  PROVE  Contents' = Contents
<1>1. Linked(l, next) /\ readPtr = l[1] /\ Linked(l, next') /\ readPtr' = l[1]
  BY DEF Shape, Ended, Linked
<1>2. Contents = Elements(l, current) /\ Contents' = Elements(l, current')
  BY <1>1, ContentsAre, ContentsWillBe
<1> QED
  BY <1>2 DEF Elements

LEMMA QuietSteps ==
  ASSUME NEW l, Shape(l),
         \/ \E v \in Values : PushCurrent(v)
         \/ PushAdvance \/ PushCount
         \/ \E isMoving \in BOOLEAN : PopTest(isMoving)
         \/ PopCount \/ PopMove \/ PopUnlink \/ PopDelete
  PROVE  Shape(l)' /\ Same
<1>1. /\ TypeOK /\ Linked(l, next) /\ Held(l) /\ Ended(l)
  BY DEF Shape
<1>2. /\ Len(l) \in Nat /\ \A i \in 1 .. Len(l) : l[i] \in Cells
      /\ \A i \in 1 .. Len(l) - 1 : i \in 1 .. Len(l) /\ i # Len(l)
      /\ Len(l) \in 1 .. Len(l)
  BY <1>1, ShapeFacts
<1>3. CASE \/ PushAdvance \/ PushCount
           \/ \E isMoving \in BOOLEAN : PopTest(isMoving)
           \/ PopCount \/ PopMove \/ PopUnlink
  <2>1. Shape(l)'
    BY <1>3, PushAdvanceKeeps, PushCountKeeps, PopTestKeeps, PopCountKeeps, PopMoveKeeps,
       PopUnlinkKeeps
  <2>2. current' = current
    BY <1>3 DEF PushAdvance, PushCount, PopTest, PopCount, PopMove, PopUnlink, cells
  <2>3. Taken' = Taken
    BY <1>3 DEF PushAdvance, PushCount, PopTest, PopCount, PopMove, PopUnlink, cells, consumer,
       Taken
  <2>4. Unasked
    BY <1>3 DEF PushAdvance, PushCount, PopTest, PopCount, PopMove, PopUnlink, producer, probe,
       Unasked, Asked
  <2> QED
    BY <2>1, <2>2, <2>3, <2>4, ElementsSame DEF Same
<1>4. ASSUME NEW v \in Values, PushCurrent(v)
      PROVE  Shape(l)' /\ Same
  <2>1. Shape(l)'
    BY <1>4, PushCurrentKeeps
  <2>2. /\ ppc = "idle" /\ current' = [current EXCEPT ![writePtr] = v]
        /\ cpc' = cpc /\ tmpPtr' = tmpPtr /\ result' = result
    BY <1>4 DEF PushCurrent, consumer
  <2>3. writePtr = l[Len(l)]
    BY <1>1, <2>2 DEF Ended
  <2>4. \A i \in 1 .. Len(l) - 1 : l[i] # writePtr
    BY <1>1, <1>2, <2>3 DEF Linked
  <2>5. cpc = "move" => tmpPtr \in Cells /\ tmpPtr # writePtr
    BY <1>1, <1>2, <2>3 DEF Held, Popping
  <2>6. \A c \in Cells : c # writePtr => current'[c] = current[c]
    BY <1>1, <2>2 DEF TypeOK
  <2>7. Taken' = Taken
    BY <2>2, <2>5, <2>6 DEF Taken
  <2>8. Unasked
    BY <1>4 DEF PushCurrent, probe, Unasked, Asked
  <2> QED
    BY <1>2, <2>1, <2>4, <2>6, <2>7, <2>8, ElementsSame DEF Same
<1>5. CASE PopDelete
  <2>1. Shape(l)' /\ \A c \in Cells : c # tmpPtr => current'[c] = current[c]
    BY <1>5, PopDeleteKeeps
  <2>2. cpc = "delete" /\ cpc' = "idle" /\ result' = result
    BY <1>5 DEF PopDelete
  <2>3. \A i \in 1 .. Len(l) : l[i] # tmpPtr
    BY <1>1, <2>2 DEF Held, Popping
  <2>4. Taken' = Taken
    BY <2>2 DEF Taken
  <2>5. Unasked
    BY <1>5 DEF PopDelete, producer, probe, Unasked, Asked
  <2> QED
    BY <1>2, <2>1, <2>3, <2>4, <2>5, ElementsSame DEF Same
<1> QED
  BY <1>3, <1>4, <1>5

\* Storing the next pointer puts an element into the queue.
LEMMA LinkPuts ==
  ASSUME NEW l, Shape(l), PushLink
  PROVE  /\ \E m : Shape(m)'
         /\ \E v \in Values : Contents' = Append(Contents, v)
         /\ Taken' = Taken /\ Asked = "no" /\ Unasked
<1> DEFINE v == current[writePtr]
<1>1. PICK m : m = Append(l, newPtr)
  OBVIOUS
<1>2. Shape(m)'
  BY <1>1, PushLinkKeeps
<1>3. /\ TypeOK /\ Linked(l, next) /\ Held(l) /\ Ended(l)
  BY DEF Shape
<1>4. /\ l \in Seq(Cells) /\ Len(l) \in Nat /\ Len(l) >= 1
      /\ \A i \in 1 .. Len(l) : l[i] \in Cells
  BY <1>3, ShapeFacts
<1>5. /\ ppc = "link" /\ current' = current /\ UNCHANGED <<cpc, tmpPtr, result>>
      /\ newPtr \in Cells /\ v \in Values /\ writePtr = l[Len(l)] /\ readPtr = l[1]
  BY <1>3 DEF PushLink, consumer, Held, Ended
<1>6. /\ m \in Seq(Cells) /\ Len(m) = Len(l) + 1 /\ \A i \in 1 .. Len(l) : m[i] = l[i]
  BY <1>1, <1>4, <1>5
<1>7. Linked(m, next') /\ readPtr' = m[1]
  BY <1>2 DEF Shape, Ended, Linked
<1>8. Contents = Elements(l, current) /\ Contents' = Elements(m, current)
  BY <1>3, <1>5, <1>7, ContentsAre, ContentsWillBe
<1>9. Elements(m, current) = Append(Elements(l, current), v)
  <2> DEFINE n == Len(l) - 1
             a == [i \in 1 .. n |-> current[l[i]]]
             b == [i \in 1 .. n + 1 |-> current[m[i]]]
             T == Values \cup {Garbage}
  <2>1. n \in Nat /\ Len(m) - 1 = n + 1 /\ Len(l) = n + 1
    BY <1>4, <1>6
  <2>2. Elements(l, current) = a /\ Elements(m, current) = b
    BY <2>1 DEF Elements
  <2> HIDE DEF n
  <2>3. \A i \in 1 .. n + 1 : m[i] = l[i] /\ l[i] \in Cells /\ current[l[i]] \in T
    BY <1>3, <1>4, <1>6, <2>1 DEF TypeOK
  <2>4. \A i \in 1 .. n : i \in 1 .. n + 1
    BY <2>1
  <2>5. a \in Seq(T) /\ Len(a) = n /\ \A i \in 1 .. n : a[i] = current[l[i]]
    BY <2>1, <2>3, <2>4
  <2>6. b \in Seq(T) /\ Len(b) = n + 1 /\ \A i \in 1 .. n + 1 : b[i] = current[l[i]]
    BY <2>1, <2>3
  <2>7. v = current[l[n + 1]] /\ v \in T
    BY <1>5, <2>1
  <2> HIDE DEF a, b, v, T
  <2>8. b = Append(a, v)
    BY <2>1, <2>5, <2>6, <2>7
  <2> QED
    BY <2>2, <2>8
<1>10. Taken' = Taken
  BY <1>5 DEF Taken
<1>11. Asked = "no" /\ Unasked
  BY <1>5 DEF Shape, Probed, PushLink, probe, Unasked, Asked
<1> QED
  BY <1>2, <1>5, <1>8, <1>9, <1>10, <1>11

\* Moving m_read_ptr on takes the first element, or drops it.
LEMMA AdvanceTakes ==
  ASSUME NEW l, Shape(l), PopAdvance
  PROVE  \E m : /\ Shape(m)' /\ Contents # <<>> /\ Contents' = Tail(Contents)
                /\ Taken' = Head(Contents) \/ Taken' = Taken
                /\ Asked' = (IF Asked = "fresh" THEN "stale" ELSE Asked) /\ answer' = answer
<1>1. PICK m : m = Tail(l)
  OBVIOUS
<1>2. Shape(m)'
  BY <1>1, PopAdvanceKeeps
<1>3. /\ TypeOK /\ Linked(l, next) /\ Held(l) /\ Ended(l)
  BY DEF Shape
<1>4. /\ cpc = "advance" /\ current' = current /\ cpc' = (IF moving THEN "move" ELSE "unlink")
      /\ tmpPtr' = readPtr /\ result' = result
  BY DEF PopAdvance, cells
<1>5. /\ l \in Seq(Cells) /\ Len(l) \in Nat /\ Len(l) > 1 /\ readPtr = l[1]
      /\ \A i \in 1 .. Len(l) : l[i] \in Cells
  BY <1>3, <1>4, ShapeFacts DEF Ended
<1>6. Linked(m, next') /\ readPtr' = m[1]
  BY <1>2 DEF Shape, Ended, Linked
<1>7. Contents = Elements(l, current) /\ Contents' = Elements(m, current)
  BY <1>3, <1>4, <1>5, <1>6, ContentsAre, ContentsWillBe
<1> DEFINE n == Len(l) - 1
           a == [i \in 1 .. n |-> current[l[i]]]
           b == [i \in 1 .. n - 1 |-> current[m[i]]]
           T == Values \cup {Garbage}
<1>8. /\ m \in Seq(Cells) /\ Len(m) = Len(l) - 1
      /\ \A i \in 1 .. Len(l) - 1 : m[i] = l[i + 1]
  BY <1>1, <1>5
<1>9. /\ n \in Nat /\ n >= 1 /\ Len(m) - 1 = n - 1 /\ Len(l) = n + 1
  BY <1>5, <1>8
<1>10. Contents = a /\ Contents' = b
  BY <1>7, <1>9 DEF Elements
<1> HIDE DEF n
<1>11. /\ \A i \in 1 .. n : current[l[i]] \in T
       /\ \A i \in 1 .. n - 1 : current[m[i]] = current[l[i + 1]] /\ current[m[i]] \in T
  BY <1>3, <1>5, <1>8, <1>9 DEF TypeOK
<1>12. a \in Seq(T) /\ Len(a) = n /\ \A i \in 1 .. n : a[i] = current[l[i]]
  BY <1>9, <1>11
<1>13. b \in Seq(T) /\ Len(b) = n - 1 /\ \A i \in 1 .. n - 1 : b[i] = current[l[i + 1]]
  BY <1>9, <1>11
<1> HIDE DEF a, b, T
<1>14. a # <<>> /\ b = Tail(a) /\ Head(a) = current[l[1]]
  BY <1>9, <1>12, <1>13
<1>15. Taken' = current[l[1]] \/ Taken' = Taken
  BY <1>4, <1>5 DEF Taken
<1>16. Asked' = (IF Asked = "fresh" THEN "stale" ELSE Asked) /\ answer' = answer
  <2>1. /\ seen' = seen /\ answer' = answer /\ readPtr' = next[readPtr]
    BY DEF PopAdvance, producer, probe
  <2>2. /\ 1 \in 1 .. Len(l) - 1 /\ 2 \in 1 .. Len(l) /\ 1 + 1 = 2
    BY <1>5
  <2>3. readPtr' = l[2] /\ l[2] # l[1] /\ seen # l[2]
    BY <1>3, <1>5, <2>1, <2>2 DEF Linked, Probed, Shape
  <2> QED
    BY <1>5, <2>1, <2>3 DEF Asked
<1> QED
  BY <1>2, <1>10, <1>14, <1>15, <1>16

\* Clear() leaves the empty cell alone.
LEMMA ClearEmpties ==
  ASSUME NEW l, Shape(l), Clear
  PROVE  /\ \E m : Shape(m)'
         /\ Contents' = <<>> /\ Taken' = Taken /\ Asked = "no" /\ Unasked
<1>1. PICK cell \in Cells : readPtr' = cell /\ Shape(<<cell>>)'
  BY ClearKeeps
<1>2. PICK m : m = <<cell>>
  OBVIOUS
<1>3. Shape(m)' /\ Len(m) = 1 /\ readPtr' = m[1]
  BY <1>1, <1>2
<1>4. Contents' = Elements(m, current')
  BY <1>3, ContentsWillBe DEF Shape, Linked
<1>5. Elements(m, current') = <<>>
  BY <1>3 DEF Elements
<1>6. Taken' = Taken
  BY DEF Clear, consumer, Taken
<1>7. Asked = "no" /\ Unasked
  BY DEF Clear, producer, probe, Shape, Probed, Asked, Unasked
<1> QED
  BY <1>3, <1>4, <1>5, <1>6, <1>7

\* The producer's Empty() asks, and the answer is right when the cell is
\* still the first of the list.
LEMMA LoadAsks ==
  ASSUME NEW l, Shape(l), EmptyLoad
  PROVE  /\ Shape(l)' /\ Contents' = Contents /\ Taken' = Taken
         /\ Asked = "no" /\ Asked' = "fresh" /\ answer' = answer
<1>1. Shape(l)'
  BY EmptyLoadKeeps
<1>2. current' = current
  BY DEF EmptyLoad, cells
<1>3. Taken' = Taken
  BY DEF EmptyLoad, cells, consumer, Taken
<1>4. readPtr \in Cells /\ Nil \notin Cells /\ seen = Nil
  BY QueueAssumption DEF Shape, TypeOK, Probed, EmptyLoad
<1>5. Asked = "no" /\ Asked' = "fresh" /\ answer' = answer
  BY <1>4 DEF EmptyLoad, Asked
<1> QED
  BY <1>1, <1>2, <1>3, <1>5, ElementsSame

LEMMA TestAnswers ==
  ASSUME NEW l, Shape(l), EmptyTest
  PROVE  /\ Shape(l)' /\ Contents' = Contents /\ Taken' = Taken
         /\ Asked # "no" /\ Asked' = "no"
         /\ answer' \in IF Asked = "fresh" THEN {Contents = <<>>} ELSE BOOLEAN
<1>1. Shape(l)'
  BY EmptyTestKeeps
<1>2. current' = current
  BY DEF EmptyTest, cells
<1>3. Taken' = Taken
  BY DEF EmptyTest, cells, consumer, Taken
<1>4. Linked(l, next) /\ Held(l) /\ readPtr = l[1] /\ seen # Nil
  BY DEF Shape, Ended, Probed, EmptyTest
<1>5. Asked # "no" /\ Asked' = "no"
  BY <1>4 DEF EmptyTest, Asked
<1>6. answer' \in BOOLEAN
  BY DEF EmptyTest
<1>7. ASSUME Asked = "fresh" PROVE answer' = (Contents = <<>>)
  <2>1. seen = l[1]
    BY <1>4, <1>7 DEF Asked
  <2>2. Len(l) \in Nat /\ Len(l) >= 1 /\ 1 \in 1 .. Len(l) /\ Nil \notin Cells
        /\ \A i \in 1 .. Len(l) : l[i] \in Cells
    BY <1>4, ShapeFacts
  <2>3. seen \in allocated
    BY <1>4, <2>1, <2>2 DEF Held
  <2>4. answer' = (next[l[1]] = Nil)
    BY <2>1, <2>3 DEF EmptyTest
  <2>5. Contents = [i \in 1 .. Len(l) - 1 |-> current[l[i]]]
    BY <1>4, ContentsAre DEF Elements
  <2>6. CASE Len(l) = 1
    <3>1. next[l[1]] = Nil
      BY <1>4, <2>6 DEF Linked
    <3>2. Contents = <<>>
      BY <2>5, <2>6
    <3> QED
      BY <2>4, <3>1, <3>2
  <2>7. CASE Len(l) # 1
    <3>1. 1 \in 1 .. Len(l) - 1 /\ 1 + 1 \in 1 .. Len(l)
      BY <2>2, <2>7
    <3>2. next[l[1]] # Nil
      BY <1>4, <2>2, <3>1 DEF Linked
    <3>3. 1 \in DOMAIN Contents
      BY <2>5, <3>1
    <3>4. Contents # <<>>
      BY <3>3
    <3> QED
      BY <2>4, <3>2, <3>4
  <2> QED
    BY <2>6, <2>7
<1>8. answer' \in IF Asked = "fresh" THEN {Contents = <<>>} ELSE BOOLEAN
  BY <1>6, <1>7, Zenon
<1> QED
  BY <1>1, <1>2, <1>3, <1>5, <1>8, ElementsSame
-----------------------------------------------------------------------------
LEMMA InitShape ==
  Init => \E l : /\ Shape(l) /\ Contents = <<>> /\ Taken = Garbage
                /\ Asked = "no" /\ answer = FALSE
<1> SUFFICES ASSUME NEW cell \in Cells,
                    allocated = {cell}, current = [c \in Cells |-> Garbage],
                    next = [c \in Cells |-> Nil], writePtr = cell, readPtr = cell, size = 0,
                    ppc = "idle", newPtr = Nil, cpc = "idle", tmpPtr = Nil, moving = FALSE,
                    result = Garbage, seen = Nil, answer = FALSE
             PROVE  \E l : /\ Shape(l) /\ Contents = <<>> /\ Taken = Garbage
                          /\ Asked = "no" /\ answer = FALSE
  BY DEF Init
<1>1. PICK l : l = <<cell>>
  OBVIOUS
<1>2. l \in Seq(Cells) /\ Len(l) = 1 /\ l[1] = cell /\ l # <<>>
  BY <1>1
<1>3. SizeMod \in Nat /\ SizeMod > 0
  BY QueueAssumption, HeapSize
<1>4. TypeOK
  <2>1. moving \in BOOLEAN /\ cpc \in {"idle", "count", "advance", "move", "unlink", "delete"}
        /\ ppc \in {"idle", "link", "advance", "count", "empty"} /\ answer \in BOOLEAN
    BY Zenon
  <2>2. size \in 0 .. SizeMod - 1
    BY <1>3
  <2> QED
    BY <2>1, <2>2 DEF TypeOK
<1>5. Linked(l, next)
  BY <1>2 DEF Linked
<1>6. {l[i] : i \in 1 .. Len(l)} = {cell}
  BY <1>2
<1>7. Held(l)
  BY <1>6 DEF Held, Popping
<1>8. Ended(l)
  BY <1>2 DEF Ended
<1>9. Counted(Len(l) - 1)
  <2>1. Len(l) - 1 = 0 /\ 0 - 0 - 0 = 0 /\ ~(0 < 0)
    BY <1>2
  <2> QED
    BY <2>1 DEF Counted
<1>10. Contents = Elements(l, current) /\ Elements(l, current) = <<>>
  BY <1>2, <1>5, ContentsAre DEF Elements
<1>11. Taken = Garbage /\ Asked = "no"
  BY DEF Taken, Asked
<1>12. Probed(l)
  BY <1>2 DEF Probed
<1> QED
  BY <1>4, <1>5, <1>7, <1>8, <1>9, <1>10, <1>11, <1>12 DEF Shape

\* Every step keeps the shape of the list, and is one of the abstract queue.
LEMMA NextShape ==
  ASSUME NEW l, Shape(l), [Next]_vars
  PROVE  /\ \E m : Shape(m)'
         /\ [Abstract!Next]_(Abstract!vars)
<1>1. /\ Same => Abstract!vars' = Abstract!vars
      /\ \A v \in Values :
           Contents' = Append(Contents, v) /\ Taken' = Taken /\ Asked = "no" /\ Unasked
             => Abstract!Next
      /\ Contents # <<>> /\ Contents' = Tail(Contents)
           /\ (Taken' = Head(Contents) \/ Taken' = Taken)
           /\ Asked' = (IF Asked = "fresh" THEN "stale" ELSE Asked) /\ answer' = answer
             => Abstract!Next
      /\ Contents' = <<>> /\ Taken' = Taken /\ Asked = "no" /\ Unasked => Abstract!Next
      /\ Contents' = Contents /\ Taken' = Taken
           /\ Asked = "no" /\ Asked' = "fresh" /\ answer' = answer => Abstract!Next
      /\ Contents' = Contents /\ Taken' = Taken
           /\ Asked # "no" /\ Asked' = "no"
           /\ answer' \in (IF Asked = "fresh" THEN {Contents = <<>>} ELSE BOOLEAN)
             => Abstract!Next
  BY DEF Abstract!vars, Abstract!Next, Abstract!Put, Abstract!Take, Abstract!Drop, Abstract!Ask,
     Abstract!Answer, Abstract!Outdate, Abstract!Clear, Taken, Asked, Unasked, Same
<1>2. CASE \/ \E v \in Values : PushCurrent(v)
           \/ PushAdvance \/ PushCount
           \/ \E isMoving \in BOOLEAN : PopTest(isMoving)
           \/ PopCount \/ PopMove \/ PopUnlink \/ PopDelete
  BY <1>1, <1>2, QuietSteps
<1>3. CASE PushLink
  BY <1>1, <1>3, LinkPuts
<1>4. CASE PopAdvance
  BY <1>1, <1>4, AdvanceTakes
<1>5. CASE Clear
  BY <1>1, <1>5, ClearEmpties
<1>6. CASE UNCHANGED vars
  <2>1. UNCHANGED <<allocated, current, next, writePtr, readPtr, size, ppc, newPtr, cpc, tmpPtr,
                    moving, result, seen, answer>>
    BY <1>6 DEF vars, cells, producer, probe, consumer
  <2>2. TypeOK' /\ Linked(l, next)' /\ Held(l)' /\ Ended(l)' /\ Counted(Len(l) - 1)' /\ Probed(l)'
    <3>1. TypeOK' /\ Linked(l, next)'
      BY <2>1 DEF Shape, TypeOK, Linked
    <3>2. Held(l)' /\ Ended(l)'
      BY <2>1 DEF Shape, Held, Popping, Ended
    <3>3. Counted(Len(l) - 1)' /\ Probed(l)'
      BY <2>1 DEF Shape, Counted, Probed
    <3> QED
      BY <3>1, <3>2, <3>3
  <2>3. Shape(l)'
    BY <2>2 DEF Shape
  <2>4. Contents' = Contents
    BY <2>1, <2>3, ElementsSame
  <2>5. Taken' = Taken /\ Unasked
    BY <2>1 DEF Taken, Asked, Unasked
  <2> QED
    BY <1>1, <2>3, <2>4, <2>5 DEF Same
<1>7. CASE EmptyLoad
  BY <1>1, <1>7, LoadAsks
<1>8. CASE EmptyTest
  BY <1>1, <1>8, TestAnswers
<1> QED
  BY <1>2, <1>3, <1>4, <1>5, <1>6, <1>7, <1>8 DEF Next, Push, Empty, Pop

LEMMA Inductive == Spec => []IInv
<1>1. Init => IInv
  BY InitShape DEF IInv
<1>2. IInv /\ [Next]_vars => IInv'
  BY NextShape DEF IInv
<1> QED
  BY <1>1, <1>2, PTL DEF Spec

\* m_read_ptr and m_write_ptr are never null, for any heap.
THEOREM TypeCorrect == Spec => []TypeOK
<1>1. IInv => TypeOK
  BY DEF IInv, Shape
<1> QED
  BY <1>1, Inductive, PTL

\* Push() and Pop() run without a lock and never use a cell after it was
\* deleted, and no cell is leaked, for any heap.  (The Empty() of the producer
\* is not among them: see EmptyTest.)
THEOREM NoUseAfterFree == Spec => []CellsInUse
<1>1. ASSUME IInv PROVE CellsInUse
  <2>1. PICK l : Shape(l)
    BY <1>1 DEF IInv
  <2>2. TypeOK /\ Linked(l, next) /\ Held(l) /\ Ended(l)
    BY <2>1 DEF Shape
  <2>3. Reach(readPtr) = {l[i] : i \in 1 .. Len(l)}
    BY <2>2, PathIs DEF Ended
  <2>4. Len(l) \in 1 .. Len(l)
    BY <2>2, ShapeFacts
  <2>5. ppc \in {"idle", "link", "empty"} => writePtr \in Reach(readPtr) /\ next[writePtr] = Nil
    BY <2>2, <2>3, <2>4 DEF Ended, Linked
  <2>6. allocated = Reach(readPtr)
                      \cup (IF ppc = "link" THEN {newPtr} ELSE {})
                      \cup (IF Popping THEN {tmpPtr} ELSE {})
    BY <2>2, <2>3 DEF Held
  <2> QED
    BY <2>5, <2>6 DEF CellsInUse, Popping
<1> QED
  BY <1>1, Inductive, PTL

\* m_size, which both threads change, is the length but for the calls in
\* progress, for any width that the heap does not exhaust.
THEOREM SizeIsRight == Spec => []SizeCountsCalls
<1>1. ASSUME IInv PROVE SizeCountsCalls
  <2> DEFINE a == IF ppc \in {"advance", "count"} THEN 1 ELSE 0
             b == IF cpc = "advance" THEN 1 ELSE 0
             n == Length
  <2>1. PICK l : Shape(l)
    BY <1>1 DEF IInv
  <2>2. Linked(l, next) /\ Ended(l) /\ Counted(Len(l) - 1)
    BY <2>1 DEF Shape
  <2>3. Path(readPtr) = l
    BY <2>2, PathIs DEF Ended
  <2>4. n = Len(l) - 1
    BY <2>3 DEF Length
  <2>5. n \in Nat /\ n < SizeMod - 1 /\ SizeMod \in Nat /\ SizeMod >= 1
    BY <2>2, <2>4, ShapeFacts
  <2>6. a \in {0, 1} /\ b \in {0, 1} /\ (b = 1 => n >= 1)
    <3>1. b = 1 => Len(l) > 1
      BY <2>2 DEF Ended
    <3>2. Len(l) \in Nat
      BY <2>2, ShapeFacts
    <3> QED
      BY <2>4, <3>1, <3>2
  <2>7. size = IF n - a - b < 0 THEN n - a - b + SizeMod ELSE n - a - b
    BY <2>2, <2>4 DEF Counted
  <2> HIDE DEF a, b, n
  <2>8. /\ n - b \in 0 .. SizeMod - 1 /\ n + SizeMod - b = (n - b) + SizeMod
        /\ size + a = n - b \/ (size + a = (n - b) + SizeMod)
    BY <2>5, <2>6, <2>7
  <2>9. \A x \in 0 .. SizeMod - 1 : x % SizeMod = x /\ (x + SizeMod) % SizeMod = x
    BY <2>5
  <2>10. (size + a) % SizeMod = (n + SizeMod - b) % SizeMod
    BY <2>8, <2>9
  <2> QED
    BY <2>10 DEF SizeCountsCalls, a, b, n
<1> QED
  BY <1>1, Inductive, PTL

\* The lock-free list is a queue: what Pop(T&) returns is what was pushed,
\* complete, in order and once each, however the calls interleave, and an
\* Empty() of the producer that no Pop() overtook says what is the case.
THEOREM RefinesFifo == Spec => ImplementsFifo
<1>1. Init => Abstract!Init
  BY InitShape DEF Abstract!Init, Taken, Asked
<1>2. IInv /\ [Next]_vars => [Abstract!Next]_(Abstract!vars)
  BY NextShape DEF IInv
<1> QED
  BY <1>1, <1>2, Inductive, PTL DEF Spec, ImplementsFifo, Abstract!Spec
=============================================================================
