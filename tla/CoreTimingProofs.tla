-------------------------- MODULE CoreTimingProofs --------------------------
(***************************************************************************)
(* For any overclocking factors, delays, slices and numbers of events: the *)
(* order of the queue, the length of a slice and the clock.                *)
(*                                                                         *)
(* The queue is always sorted by time; by the complete order of operator<  *)
(* it is while inOrder, for the scaling of AdjustEventQueueTimes() makes   *)
(* ties.  Rounded is what the roundings of the two conversions of the      *)
(* downcount cost: the emulated time is never ahead of the slice.          *)
(***************************************************************************)
EXTENDS CoreTiming, FiniteSetTheorems, WellFoundedInduction, TLAPS

EventRecords == [time : Int, type : Types, fifo : Nat, nth : Nat, limit : SUBSET Int]

\* The fields of an event that another thread pushes.
TsEvents == [time : Int, type : Types]

Typed ==
  /\ queue \in Seq(EventRecords) /\ fifoId \in Nat /\ added \in Nat
  /\ tsQueue \in Seq(TsEvents) /\ offThread \in Seq(TsEvents) /\ Len(offThread) <= 1
  /\ added + Len(tsQueue) + Len(offThread) <= MaxEvents
  /\ timer \in Int /\ slice \in 0 .. MaxSliceLength /\ downcount \in Int
  /\ factor \in Factors
  /\ sane \in BOOLEAN /\ inOrder \in BOOLEAN
  /\ pc \in {"slice", "loop", "callback", "off"}

\* Advance() runs with s_is_global_timer_sane set and Shutdown() empties the
\* queue.
Phases ==
  /\ pc \in {"loop", "callback"} => sane
  /\ pc = "off" => queue = <<>>

TimeSorted(q) == \A i, j \in DOMAIN q : i <= j => q[i].time <= q[j].time
Sorted(q) == \A i, j \in DOMAIN q : i <= j => ~Before(q[j], q[i])

\* The numbers of s_event_fifo_id are in the order of the additions.
Numbered(q, id, n) ==
  /\ \A i, j \in DOMAIN q : q[i].fifo <= q[j].fifo => q[i].nth <= q[j].nth
  /\ \A i \in DOMAIN q : q[i].fifo < id /\ q[i].nth <= n

Ordered ==
  /\ TimeSorted(queue)
  /\ inOrder => Sorted(queue) /\ Numbered(queue, fifoId, added)

\* The emulated time that has passed in a slice is not negative.
Rounded ==
  pc \in {"slice", "off"} => DowncountToCycles(downcount) <= slice

\* The same of the savestate.
SavedOK ==
  saved # <<>> =>
    /\ saved[1].queue \in Seq(EventRecords) /\ saved[1].fifoId \in Nat
    /\ saved[1].clock[1] \in Int /\ saved[1].clock[2] \in 0 .. MaxSliceLength
    /\ saved[1].clock[3] \in Int /\ saved[1].clock[4] \in Factors
    /\ TruncDiv(saved[1].clock[3] * saved[1].clock[4][2], saved[1].clock[4][1])
         <= saved[1].clock[2]
    /\ \A i \in DOMAIN saved[1].queue : \A t \in saved[1].queue[i].limit :
         saved[1].clock[1] + saved[1].clock[2] <= t

IInv == Typed /\ Phases /\ Ordered /\ Rounded /\ SavedOK /\ SliceEndsInTime
-----------------------------------------------------------------------------
(***************************************************************************)
(* The conversions between cycles and downcount.                           *)
(***************************************************************************)
\* Rounding towards zero keeps the order.
LEMMA TruncDivFacts ==
  ASSUME NEW n \in Nat \ {0}
  PROVE  /\ \A a \in Int : TruncDiv(a, n) \in Int /\ (a >= 0 => TruncDiv(a, n) >= 0)
         /\ \A a, b \in Int : a <= b => TruncDiv(a, n) <= TruncDiv(b, n)
         /\ TruncDiv(0, n) = 0
<1>1. ASSUME NEW a \in Int PROVE TruncDiv(a, n) \in Int /\ (a >= 0 => TruncDiv(a, n) >= 0)
  BY DEF TruncDiv
<1>2. ASSUME NEW a \in Nat, NEW b \in Nat, a <= b PROVE a \div n <= b \div n
  BY <1>2
<1>3. ASSUME NEW a \in Nat PROVE a \div n \in Nat
  OBVIOUS
<1>4. ASSUME NEW a \in Int, NEW b \in Int, a <= b PROVE TruncDiv(a, n) <= TruncDiv(b, n)
  <2>1. CASE a >= 0
    <3>1. a \in Nat /\ b \in Nat /\ b >= 0
      BY <1>4, <2>1
    <3> QED
      BY <1>2, <1>4, <2>1, <3>1 DEF TruncDiv
  <2>2. CASE a < 0 /\ b >= 0
    <3>1. -a \in Nat /\ b \in Nat
      BY <2>2
    <3>2. (-a) \div n \in Nat /\ b \div n \in Nat
      BY <1>3, <3>1
    <3> QED
      BY <2>2, <3>2 DEF TruncDiv
  <2>3. CASE b < 0
    <3>1. -a \in Nat /\ -b \in Nat /\ -b <= -a /\ a < 0
      BY <1>4, <2>3
    <3>2. (-b) \div n <= (-a) \div n /\ (-b) \div n \in Nat /\ (-a) \div n \in Nat
      BY <1>2, <1>3, <3>1
    <3> QED
      BY <2>3, <3>1, <3>2 DEF TruncDiv
  <2> QED
    BY <2>1, <2>2, <2>3
<1>5. TruncDiv(0, n) = 0
  BY DEF TruncDiv
<1> QED
  BY <1>1, <1>4, <1>5

\* Products with a positive number keep the order.
LEMMA TimesFacts ==
  ASSUME NEW n \in Nat \ {0}
  PROVE  /\ \A a \in Int : a * n \in Int /\ (a >= 0 => a * n >= 0)
         /\ \A a, b \in Int : a <= b => a * n <= b * n
  OBVIOUS

\* Cycles that are converted to downcount and back are not more than before.
LEMMA RoundTrip ==
  ASSUME NEW c \in Nat, NEW n \in Nat \ {0}, NEW m \in Nat \ {0}
  PROVE  TruncDiv(TruncDiv(c * n, m) * m, n) <= c
<1> DEFINE d == (c * n) \div m
           e == d * m
           g == e \div n
<1>1. c * n \in Nat
  OBVIOUS
<1>2. d \in Nat /\ d * m <= c * n
  BY <1>1
<1> HIDE DEF d
<1>3. e \in Nat
  BY <1>2
<1>4. g \in Nat /\ g * n <= e
  BY <1>3
<1>5. g * n <= c * n
  BY <1>2, <1>3, <1>4
<1> HIDE DEF g, e
<1>6. g <= c
  BY <1>4, <1>5
<1>7. TruncDiv(c * n, m) = d
  BY <1>1 DEF TruncDiv, d
<1>8. TruncDiv(e, n) = g
  BY <1>3 DEF TruncDiv, g
<1> QED
  BY <1>6, <1>7, <1>8 DEF e

\* What is needed of the overclocking factors.
LEMMA FactorFacts ==
  ASSUME NEW f \in Factors
  PROVE  f[1] \in Nat \ {0} /\ f[2] \in Nat \ {0}
  BY TimingAssumption

LEMMA ConversionFacts ==
  ASSUME NEW f \in Factors
  PROVE  /\ \A c \in Int : CyclesToDowncount(c, f) \in Int
         /\ \A c \in Nat : TruncDiv(CyclesToDowncount(c, f) * f[2], f[1]) <= c
         /\ \A d \in Int : TruncDiv(d * f[2], f[1]) \in Int
         /\ \A c, d \in Int : c <= d => TruncDiv(c * f[2], f[1]) <= TruncDiv(d * f[2], f[1])
<1>1. f[1] \in Nat \ {0} /\ f[2] \in Nat \ {0}
  BY FactorFacts
<1>2. ASSUME NEW c \in Int PROVE CyclesToDowncount(c, f) \in Int
  BY <1>1, TruncDivFacts, TimesFacts DEF CyclesToDowncount
<1>3. ASSUME NEW c \in Nat PROVE TruncDiv(CyclesToDowncount(c, f) * f[2], f[1]) <= c
  BY <1>1, RoundTrip DEF CyclesToDowncount
<1>4. ASSUME NEW d \in Int PROVE TruncDiv(d * f[2], f[1]) \in Int
  BY <1>1, TruncDivFacts, TimesFacts
<1>5. ASSUME NEW c \in Int, NEW d \in Int, c <= d
      PROVE  TruncDiv(c * f[2], f[1]) <= TruncDiv(d * f[2], f[1])
  <2>1. c * f[2] \in Int /\ d * f[2] \in Int /\ c * f[2] <= d * f[2]
    BY <1>1, <1>5, TimesFacts
  <2> QED
    BY <1>1, <2>1, TruncDivFacts
<1> QED
  BY <1>2, <1>3, <1>4, <1>5
-----------------------------------------------------------------------------
(***************************************************************************)
(* The heap.                                                               *)
(***************************************************************************)
\* Every set of numbers has a least one.
LEMMA LeastNatural ==
  ASSUME NEW T, T \subseteq Nat, T # {}
  PROVE  \E x \in T : \A y \in T : x <= y
<1>1. PICK x \in T : \A y \in T : ~ (<<y, x>> \in OpToRel(<, Nat))
  BY WFMin, NatLessThanWellFounded
<1>2. ASSUME NEW y \in T, y < x PROVE <<y, x>> \in OpToRel(<, Nat)
  BY <1>2 DEF OpToRel
<1>3. \A y \in T : ~(y < x)
  BY <1>1, <1>2, Zenon
<1>4. \A y \in T : x <= y
  BY <1>3
<1> QED
  BY <1>4

\* How many events go before a new one, and between which it comes.
Place(q, e) == Cardinality({i \in DOMAIN q : ~Before(e, q[i])})

LEMMA PlaceFacts ==
  ASSUME NEW q \in Seq(EventRecords), NEW e \in EventRecords
  PROVE  /\ Place(q, e) \in 0 .. Len(q)
         /\ \A i \in 1 .. Place(q, e) : \E j \in i .. Len(q) : ~Before(e, q[j])
         /\ \A i \in Place(q, e) + 1 .. Len(q) : \E j \in 1 .. i : Before(e, q[j])
<1> DEFINE S == {i \in DOMAIN q : ~Before(e, q[i])}
           k == Cardinality(S)
<1>1. DOMAIN q = 1 .. Len(q) /\ Len(q) \in Nat
  OBVIOUS
<1>2. IsFiniteSet(1 .. Len(q)) /\ Cardinality(1 .. Len(q)) = Len(q)
  BY <1>1, FS_Interval
<1>3. S \subseteq 1 .. Len(q)
  BY <1>1
<1>4. IsFiniteSet(S) /\ k \in Nat /\ k <= Len(q)
  BY <1>2, <1>3, FS_Subset, FS_CardinalityType
<1>5. ASSUME NEW i \in 1 .. k PROVE \E j \in i .. Len(q) : ~Before(e, q[j])
  <2> SUFFICES ASSUME \A j \in i .. Len(q) : Before(e, q[j]) PROVE FALSE
    OBVIOUS
  <2>1. S \subseteq 1 .. (i - 1)
    BY <1>1, <1>4, <1>5
  <2>2. IsFiniteSet(1 .. (i - 1)) /\ Cardinality(1 .. (i - 1)) = i - 1
    <3>1. i - 1 \in Nat /\ 1 \in Int
      BY <1>4, <1>5
    <3>2. CASE i - 1 = 0
      BY <3>1, <3>2, FS_Interval
    <3>3. CASE i - 1 >= 1
      BY <3>1, <3>3, FS_Interval
    <3> QED
      BY <3>1, <3>2, <3>3
  <2>3. k <= i - 1
    BY <2>1, <2>2, FS_Subset
  <2> QED
    BY <1>4, <1>5, <2>3
<1>6. ASSUME NEW i \in k + 1 .. Len(q) PROVE \E j \in 1 .. i : Before(e, q[j])
  <2> SUFFICES ASSUME \A j \in 1 .. i : ~Before(e, q[j]) PROVE FALSE
    OBVIOUS
  <2>1. 1 .. i \subseteq S
    BY <1>1, <1>4, <1>6
  <2>2. IsFiniteSet(1 .. i) /\ Cardinality(1 .. i) = i
    BY <1>4, <1>6, FS_Interval
  <2>3. i <= k
    BY <1>4, <2>1, <2>2, FS_Subset
  <2> QED
    BY <1>4, <1>6, <2>3
<1> HIDE DEF S
<1>7. Place(q, e) = k
  BY DEF Place, S
<1> HIDE DEF k
<1> QED
  BY <1>1, <1>4, <1>5, <1>6, <1>7

\* std::push_heap
LEMMA PushHeapFacts ==
  ASSUME NEW q \in Seq(EventRecords), NEW e \in EventRecords
  PROVE  LET h == PushHeap(q, e)
             k == Place(q, e)
         IN  /\ h \in Seq(EventRecords) /\ Len(h) = Len(q) + 1
             /\ \A i \in 1 .. Len(q) + 1 :
                  h[i] = IF i <= k THEN q[i] ELSE IF i = k + 1 THEN e ELSE q[i - 1]
<1> DEFINE k == Place(q, e)
           a == SubSeq(q, 1, k)
           b == SubSeq(q, k + 1, Len(q))
<1>1. k \in 0 .. Len(q) /\ Len(q) \in Nat
  BY PlaceFacts
<1> HIDE DEF k
<1>2. /\ a \in Seq(EventRecords) /\ Len(a) = k
      /\ \A i \in 1 .. k : a[i] = q[i]
  BY <1>1
<1>3. /\ b \in Seq(EventRecords) /\ Len(b) = Len(q) - k
      /\ \A i \in 1 .. Len(q) - k : b[i] = q[k + i]
  BY <1>1
<1>4. PushHeap(q, e) = a \o <<e>> \o b
  BY DEF PushHeap, Place, k
<1> HIDE DEF a, b
<1> DEFINE c == a \o <<e>>
<1>5. /\ c \in Seq(EventRecords) /\ Len(c) = k + 1
      /\ \A i \in 1 .. k : c[i] = a[i]
      /\ c[k + 1] = e
  BY <1>1, <1>2
<1> HIDE DEF c
<1>6. /\ c \o b \in Seq(EventRecords) /\ Len(c \o b) = Len(q) + 1
      /\ \A i \in 1 .. Len(q) + 1 :
           (c \o b)[i] = IF i <= k + 1 THEN c[i] ELSE b[i - (k + 1)]
  BY <1>1, <1>3, <1>5
<1>7. ASSUME NEW i \in 1 .. Len(q) + 1
      PROVE  (c \o b)[i] = IF i <= k THEN q[i] ELSE IF i = k + 1 THEN e ELSE q[i - 1]
  <2>1. CASE i <= k
    BY <1>1, <1>2, <1>5, <1>6, <2>1
  <2>2. CASE i = k + 1
    BY <1>1, <1>5, <1>6, <2>2
  <2>3. CASE i > k + 1
    <3>1. i - (k + 1) \in 1 .. Len(q) - k /\ k + (i - (k + 1)) = i - 1
      BY <1>1, <2>3
    <3>2. (c \o b)[i] = b[i - (k + 1)]
      BY <1>1, <1>6, <2>3
    <3>3. b[i - (k + 1)] = q[k + (i - (k + 1))]
      BY <1>3, <3>1
    <3>4. (c \o b)[i] = q[i - 1] /\ ~(i <= k) /\ i # k + 1
      BY <1>1, <2>3, <3>1, <3>2, <3>3
    <3> QED
      BY <3>4
  <2>4. i <= k \/ i = k + 1 \/ i > k + 1
    BY <1>1
  <2> QED
    BY <2>1, <2>2, <2>3, <2>4
<1>8. PushHeap(q, e) = c \o b
  BY <1>4 DEF c
<1> QED
  BY <1>6, <1>7, <1>8 DEF k

\* It keeps the queue sorted.
LEMMA PushHeapSorts ==
  ASSUME NEW q \in Seq(EventRecords), NEW e \in EventRecords
  PROVE  /\ TimeSorted(q) => TimeSorted(PushHeap(q, e))
         /\ Sorted(q) => Sorted(PushHeap(q, e))
         /\ \A i \in DOMAIN PushHeap(q, e) :
              PushHeap(q, e)[i] = e \/ \E j \in DOMAIN q : PushHeap(q, e)[i] = q[j]
<1> DEFINE h == PushHeap(q, e)
           k == Place(q, e)
<1>1. /\ h \in Seq(EventRecords) /\ Len(h) = Len(q) + 1
      /\ \A i \in 1 .. Len(q) + 1 :
           h[i] = IF i <= k THEN q[i] ELSE IF i = k + 1 THEN e ELSE q[i - 1]
  BY PushHeapFacts
<1>2. /\ k \in 0 .. Len(q)
      /\ \A i \in 1 .. k : \E j \in i .. Len(q) : ~Before(e, q[j])
      /\ \A i \in k + 1 .. Len(q) : \E j \in 1 .. i : Before(e, q[j])
  BY PlaceFacts
<1>3. /\ DOMAIN q = 1 .. Len(q) /\ DOMAIN h = 1 .. Len(q) + 1 /\ Len(q) \in Nat
      /\ \A i \in 1 .. Len(q) : q[i].time \in Int /\ q[i].fifo \in Nat
      /\ e.time \in Int /\ e.fifo \in Nat
  <2>1. \A r \in EventRecords : r.time \in Int /\ r.fifo \in Nat
    BY DEF EventRecords
  <2>2. DOMAIN h = 1 .. Len(h)
    BY <1>1
  <2> QED
    BY <1>1, <2>1, <2>2
<1> HIDE DEF h, k
<1>4. /\ \A i \in 1 .. k : h[i] = q[i] /\ i \in 1 .. Len(q)
      /\ h[k + 1] = e
      /\ \A i \in k + 2 .. Len(q) + 1 : h[i] = q[i - 1] /\ i - 1 \in k + 1 .. Len(q)
  BY <1>1, <1>2, <1>3
<1>5. \A i \in 1 .. Len(q) + 1 : i \in 1 .. k \/ i = k + 1 \/ i \in k + 2 .. Len(q) + 1
  BY <1>2, <1>3
<1>6. k + 1 .. Len(q) \subseteq 1 .. Len(q)
  BY <1>2, <1>3
<1>7. ASSUME TimeSorted(q) PROVE TimeSorted(h)
  <2>1. \A i, j \in 1 .. Len(q) : i <= j => q[i].time <= q[j].time
    BY <1>3, <1>7 DEF TimeSorted
  <2>2. ASSUME NEW i \in 1 .. k PROVE q[i].time <= e.time
    <3>1. PICK j \in i .. Len(q) : ~Before(e, q[j])
      BY <1>2
    <3>2. j \in 1 .. Len(q) /\ i \in 1 .. Len(q) /\ i <= j
      BY <1>2, <1>3
    <3>3. q[j].time <= e.time
      BY <1>3, <3>1, <3>2 DEF Before
    <3> QED
      BY <1>3, <2>1, <3>2, <3>3
  <2>3. ASSUME NEW i \in k + 1 .. Len(q) PROVE e.time <= q[i].time
    <3>1. PICK j \in 1 .. i : Before(e, q[j])
      BY <1>2
    <3>2. j \in 1 .. Len(q) /\ i \in 1 .. Len(q) /\ j <= i
      BY <1>2, <1>3
    <3>3. e.time <= q[j].time
      BY <1>3, <3>1, <3>2 DEF Before
    <3> QED
      BY <1>3, <2>1, <3>2, <3>3
  <2>4. ASSUME NEW i \in 1 .. Len(q) + 1, NEW j \in 1 .. Len(q) + 1, i <= j
        PROVE  h[i].time <= h[j].time
    <3>1. CASE i \in 1 .. k
      <4>1. CASE j \in 1 .. k
        BY <1>4, <2>1, <2>4, <3>1, <4>1
      <4>2. CASE j = k + 1
        BY <1>4, <2>2, <3>1, <4>2
      <4>3. CASE j \in k + 2 .. Len(q) + 1
        <5>1. i <= j - 1
          BY <1>2, <3>1, <4>3
        <5> QED
          BY <1>4, <1>6, <2>1, <3>1, <4>3, <5>1
      <4> QED
        BY <1>5, <4>1, <4>2, <4>3
    <3>2. CASE i = k + 1
      <4>1. CASE j = k + 1
        BY <1>3, <1>4, <3>2, <4>1
      <4>2. CASE j \in k + 2 .. Len(q) + 1
        BY <1>4, <2>3, <3>2, <4>2
      <4>3. j \notin 1 .. k
        BY <1>2, <2>4, <3>2
      <4> QED
        BY <1>5, <4>1, <4>2, <4>3
    <3>3. CASE i \in k + 2 .. Len(q) + 1
      <4>1. j \in k + 2 .. Len(q) + 1 /\ i - 1 <= j - 1
        BY <1>2, <1>3, <2>4, <3>3
      <4> QED
        BY <1>4, <1>6, <2>1, <3>3, <4>1
    <3> QED
      BY <1>5, <3>1, <3>2, <3>3
  <2> QED
    BY <1>3, <2>4 DEF TimeSorted
<1>8. ASSUME Sorted(q) PROVE Sorted(h)
  <2>1. \A i, j \in 1 .. Len(q) : i <= j => ~Before(q[j], q[i])
    BY <1>3, <1>8 DEF Sorted
  <2>2. ASSUME NEW i \in 1 .. k PROVE ~Before(e, q[i])
    <3>1. PICK j \in i .. Len(q) : ~Before(e, q[j])
      BY <1>2
    <3>2. j \in 1 .. Len(q) /\ i \in 1 .. Len(q) /\ i <= j
      BY <1>2, <1>3
    <3>3. ~Before(q[j], q[i])
      BY <2>1, <3>2
    <3> QED
      BY <1>3, <3>1, <3>2, <3>3 DEF Before
  <2>3. ASSUME NEW i \in k + 1 .. Len(q) PROVE ~Before(q[i], e)
    <3>1. PICK j \in 1 .. i : Before(e, q[j])
      BY <1>2
    <3>2. j \in 1 .. Len(q) /\ i \in 1 .. Len(q) /\ j <= i
      BY <1>2, <1>3
    <3>3. ~Before(q[i], q[j])
      BY <2>1, <3>2
    <3> QED
      BY <1>3, <3>1, <3>2, <3>3 DEF Before
  <2>4. ASSUME NEW i \in 1 .. Len(q) + 1, NEW j \in 1 .. Len(q) + 1, i <= j
        PROVE  ~Before(h[j], h[i])
    <3>1. CASE i \in 1 .. k
      <4>1. CASE j \in 1 .. k
        BY <1>4, <2>1, <2>4, <3>1, <4>1
      <4>2. CASE j = k + 1
        BY <1>4, <2>2, <3>1, <4>2
      <4>3. CASE j \in k + 2 .. Len(q) + 1
        <5>1. i <= j - 1
          BY <1>2, <3>1, <4>3
        <5> QED
          BY <1>4, <1>6, <2>1, <3>1, <4>3, <5>1
      <4> QED
        BY <1>5, <4>1, <4>2, <4>3
    <3>2. CASE i = k + 1
      <4>1. CASE j = k + 1
        BY <1>3, <1>4, <3>2, <4>1 DEF Before
      <4>2. CASE j \in k + 2 .. Len(q) + 1
        BY <1>4, <2>3, <3>2, <4>2
      <4>3. j \notin 1 .. k
        BY <1>2, <2>4, <3>2
      <4> QED
        BY <1>5, <4>1, <4>2, <4>3
    <3>3. CASE i \in k + 2 .. Len(q) + 1
      <4>1. j \in k + 2 .. Len(q) + 1 /\ i - 1 <= j - 1
        BY <1>2, <1>3, <2>4, <3>3
      <4> QED
        BY <1>4, <1>6, <2>1, <3>3, <4>1
    <3> QED
      BY <1>5, <3>1, <3>2, <3>3
  <2> QED
    BY <1>3, <2>4 DEF Sorted
<1>9. ASSUME NEW i \in DOMAIN h PROVE h[i] = e \/ \E j \in DOMAIN q : h[i] = q[j]
  <2>1. i \in 1 .. Len(q) + 1
    BY <1>3
  <2> QED
    BY <1>3, <1>4, <1>5, <1>6, <2>1
<1> QED
  BY <1>7, <1>8, <1>9 DEF h

\* The heap that PushEach() builds, one event after the other.
LEMMA PushEachSteps ==
  ASSUME NEW q, NEW s, NEW places, Len(s) \in Nat
  PROVE  \E f : /\ f[0] = q /\ f[Len(s)] = PushEach(q, s, places)
                /\ \A n \in 1 .. Len(s) :
                     f[n] = IF n \in places THEN PushHeap(f[n - 1], s[n]) ELSE f[n - 1]
<1> DEFINE Step(x, n) == IF n \in places THEN PushHeap(x, s[n]) ELSE x
           Built(f, m) == f = [n \in 0 .. m |-> IF n = 0 THEN q ELSE Step(f[n - 1], n)]
           Fails == {m \in Nat : ~ \E f : Built(f, m)}
           heap[n \in 0 .. Len(s)] ==
             IF n = 0 THEN q
             ELSE IF n \in places THEN PushHeap(heap[n - 1], s[n]) ELSE heap[n - 1]
<1>1. heap = CHOOSE f : Built(f, Len(s))
  BY DEF heap
<1>2. PushEach(q, s, places) = heap[Len(s)]
  BY DEF PushEach
<1> HIDE DEF Step, heap
<1>3. Fails = {}
  <2> SUFFICES ASSUME Fails # {} PROVE FALSE
    OBVIOUS
  <2>1. PICK m \in Fails : \A k \in Fails : m <= k
    <3>1. Fails \subseteq Nat
      OBVIOUS
    <3> HIDE DEF Fails
    <3> QED
      BY <3>1, LeastNatural
  <2>2. CASE m = 0
    <3> DEFINE f == [n \in 0 .. 0 |-> q]
    <3>1. f = [n \in 0 .. 0 |-> IF n = 0 THEN q ELSE Step(f[n - 1], n)]
      OBVIOUS
    <3> QED
      BY <2>1, <2>2, <3>1
  <2>3. CASE m # 0
    <3>1. m - 1 \in Nat /\ m - 1 \notin Fails
      <4>1. m \in Nat
        OBVIOUS
      <4> HIDE DEF Fails
      <4> QED
        BY <2>1, <2>3, <4>1
    <3>2. PICK f : Built(f, m - 1)
      BY <3>1
    <3> DEFINE g == [n \in 0 .. m |-> IF n = m THEN Step(f[m - 1], m) ELSE f[n]]
    <3>3. ASSUME NEW n \in 0 .. m
          PROVE  g[n] = IF n = 0 THEN q ELSE Step(g[n - 1], n)
      <4>1. CASE n = m
        BY <2>1, <2>3, <4>1
      <4>2. CASE n # m
        <5>1. n \in 0 .. m - 1 /\ g[n] = f[n]
          BY <2>1, <4>2
        <5>2. f[n] = IF n = 0 THEN q ELSE Step(f[n - 1], n)
          BY <3>2, <5>1
        <5>3. n # 0 => g[n - 1] = f[n - 1]
          BY <2>1, <5>1
        <5> QED
          BY <5>1, <5>2, <5>3
      <4> QED
        BY <4>1, <4>2
    <3>4. Built(g, m)
      BY <3>3
    <3> QED
      BY <2>1, <3>4
  <2> QED
    BY <2>2, <2>3
<1>4. \E f : Built(f, Len(s))
  BY <1>3
<1>5. Built(heap, Len(s))
  BY <1>1, <1>4
<1>6. heap[0] = q /\ \A n \in 1 .. Len(s) : heap[n] = Step(heap[n - 1], n)
  BY <1>5
<1> QED
  BY <1>2, <1>6 DEF Step

\* It takes all its events from the two sequences, and sorts them.
LEMMA PushEachFacts ==
  ASSUME NEW q \in Seq(EventRecords), NEW s \in Seq(EventRecords), NEW places
  PROVE  LET h == PushEach(q, s, places)
         IN  /\ h \in Seq(EventRecords)
             /\ TimeSorted(q) => TimeSorted(h)
             /\ Sorted(q) => Sorted(h)
             /\ \A i \in DOMAIN h : (\E j \in DOMAIN q : h[i] = q[j])
                                      \/ (\E j \in DOMAIN s : h[i] = s[j])
<1> DEFINE From(h) == \A i \in DOMAIN h : (\E j \in DOMAIN q : h[i] = q[j])
                                            \/ (\E j \in DOMAIN s : h[i] = s[j])
           Good(h) == /\ h \in Seq(EventRecords)
                      /\ TimeSorted(q) => TimeSorted(h)
                      /\ Sorted(q) => Sorted(h)
                      /\ From(h)
<1>1. Len(s) \in Nat /\ DOMAIN s = 1 .. Len(s)
  OBVIOUS
<1>2. PICK f : /\ f[0] = q /\ f[Len(s)] = PushEach(q, s, places)
               /\ \A n \in 1 .. Len(s) :
                    f[n] = IF n \in places THEN PushHeap(f[n - 1], s[n]) ELSE f[n - 1]
  BY <1>1, PushEachSteps
<1>3. Good(q)
  OBVIOUS
<1>4. ASSUME NEW h, Good(h), NEW n \in 1 .. Len(s) PROVE Good(PushHeap(h, s[n]))
  <2>1. s[n] \in EventRecords /\ n \in DOMAIN s
    BY <1>1
  <2>2. PushHeap(h, s[n]) \in Seq(EventRecords)
    BY <1>4, <2>1, PushHeapFacts
  <2>3. /\ TimeSorted(q) => TimeSorted(PushHeap(h, s[n]))
        /\ Sorted(q) => Sorted(PushHeap(h, s[n]))
    BY <1>4, <2>1, PushHeapSorts
  <2>4. From(PushHeap(h, s[n]))
    <3>1. \A i \in DOMAIN PushHeap(h, s[n]) :
            PushHeap(h, s[n])[i] = s[n] \/ \E j \in DOMAIN h : PushHeap(h, s[n])[i] = h[j]
      BY <1>4, <2>1, PushHeapSorts
    <3> QED
      BY <1>4, <2>1, <3>1
  <2> QED
    BY <2>2, <2>3, <2>4
<1> HIDE DEF Good
<1> DEFINE Fails == {n \in Nat : n <= Len(s) /\ ~Good(f[n])}
<1>5. Fails = {}
  <2> SUFFICES ASSUME Fails # {} PROVE FALSE
    OBVIOUS
  <2>1. PICK m \in Fails : \A k \in Fails : m <= k
    <3>1. Fails \subseteq Nat
      OBVIOUS
    <3> HIDE DEF Fails
    <3> QED
      BY <3>1, LeastNatural
  <2>2. m \in Nat /\ m <= Len(s) /\ ~Good(f[m])
    OBVIOUS
  <2>3. m # 0
    BY <1>2, <1>3, <2>2
  <2>4. m - 1 \in Nat /\ m - 1 <= Len(s) /\ m \in 1 .. Len(s)
    BY <1>1, <2>2, <2>3
  <2>5. m - 1 \notin Fails
    <3> HIDE DEF Fails
    <3> QED
      BY <2>1, <2>2, <2>4
  <2>6. Good(f[m - 1])
    BY <2>4, <2>5
  <2>7. Good(f[m])
    BY <1>2, <1>4, <2>4, <2>6
  <2> QED
    BY <2>2, <2>7
<1>6. Good(f[Len(s)])
  BY <1>1, <1>5
<1> QED
  BY <1>2, <1>6 DEF Good

\* Some of the events of a queue.
LEMMA NumberedPart ==
  ASSUME NEW q, NEW h, NEW id, NEW n, Numbered(q, id, n),
         \A i \in DOMAIN h : \E j \in DOMAIN q : h[i] = q[j]
  PROVE  Numbered(h, id, n)
  BY DEF Numbered

\* RemoveEvent()
LEMMA RemainingFacts ==
  ASSUME NEW q \in Seq(EventRecords), NEW type, TimeSorted(q)
  PROVE  LET h == Remaining(q, type)
         IN  /\ h \in Seq(EventRecords) /\ TimeSorted(h) /\ (Sorted(q) => Sorted(h))
             /\ \A i \in DOMAIN h : \E j \in DOMAIN q : h[i] = q[j]
<1> DEFINE rest == {i \in DOMAIN q : q[i].type # type}
<1>1. CASE rest = DOMAIN q
  BY <1>1 DEF Remaining
<1>2. CASE rest # DOMAIN q
  <2>1. Remaining(q, type) = PushEach(<<>>, q, rest)
    BY <1>2 DEF Remaining
  <2>2. <<>> \in Seq(EventRecords) /\ DOMAIN <<>> = {}
    OBVIOUS
  <2>3. TimeSorted(<<>>) /\ Sorted(<<>>)
    BY <2>2 DEF TimeSorted, Sorted
  <2> HIDE DEF rest
  <2> DEFINE h == PushEach(<<>>, q, rest)
             none == <<>>
  <2>4. /\ h \in Seq(EventRecords) /\ (TimeSorted(none) => TimeSorted(h))
        /\ (Sorted(none) => Sorted(h))
        /\ \A i \in DOMAIN h : (\E j \in DOMAIN none : h[i] = none[j])
                                 \/ (\E j \in DOMAIN q : h[i] = q[j])
    <3>1. none \in Seq(EventRecords)
      BY <2>2
    <3>2. h = PushEach(none, q, rest)
      OBVIOUS
    <3> HIDE DEF none, h
    <3> QED
      BY <3>1, <3>2, PushEachFacts
  <2>5. DOMAIN none = {} /\ TimeSorted(none) /\ Sorted(none)
    BY <2>2, <2>3
  <2>6. Remaining(q, type) = h
    BY <2>1
  <2> HIDE DEF none, h
  <2> QED
    BY <2>4, <2>5, <2>6
<1> QED
  BY <1>1, <1>2

\* MoveEvents() numbers the events of other threads after all there are.
LEMMA MoveEventsFacts ==
  ASSUME Typed, Ordered
  PROVE  LET moved == MoveEvents(queue, fifoId, added)
         IN  /\ moved.queue \in Seq(EventRecords)
             /\ moved.fifoId \in Nat
             /\ moved.added = added + Len(tsQueue) /\ moved.added \in Nat
             /\ TimeSorted(moved.queue)
             /\ inOrder => /\ Sorted(moved.queue)
                           /\ Numbered(moved.queue, moved.fifoId, moved.added)
             /\ \A i \in DOMAIN moved.queue :
                  moved.queue[i].limit = NoLimit \/ \E j \in DOMAIN queue : moved.queue[i] = queue[j]
<1> DEFINE s == [i \in DOMAIN tsQueue |->
                  [time |-> tsQueue[i].time, type |-> tsQueue[i].type,
                   fifo |-> fifoId + i - 1, nth |-> added + i, limit |-> NoLimit]]
           h == PushEach(queue, s, DOMAIN tsQueue)
           moved == MoveEvents(queue, fifoId, added)
<1>1. /\ moved.queue = h /\ moved.fifoId = fifoId + Len(tsQueue)
      /\ moved.added = added + Len(tsQueue)
  BY DEF MoveEvents
<1>2. /\ DOMAIN tsQueue = 1 .. Len(tsQueue) /\ Len(tsQueue) \in Nat
      /\ fifoId \in Nat /\ added \in Nat /\ queue \in Seq(EventRecords)
      /\ \A i \in 1 .. Len(tsQueue) : tsQueue[i] \in TsEvents
  BY DEF Typed
<1>3. ASSUME NEW i \in 1 .. Len(tsQueue)
      PROVE  /\ s[i] \in EventRecords
             /\ s[i].fifo = fifoId + i - 1 /\ s[i].nth = added + i /\ s[i].limit = NoLimit
  <2>1. tsQueue[i].time \in Int /\ tsQueue[i].type \in Types
    BY <1>2 DEF TsEvents
  <2>2. s[i] = [time |-> tsQueue[i].time, type |-> tsQueue[i].type,
                fifo |-> fifoId + i - 1, nth |-> added + i, limit |-> NoLimit]
    BY <1>2
  <2>3. fifoId + i - 1 \in Nat /\ added + i \in Nat /\ NoLimit \in SUBSET Int
    BY <1>2 DEF NoLimit
  <2> HIDE DEF s
  <2> QED
    BY <2>1, <2>2, <2>3 DEF EventRecords
<1>4. DOMAIN s = 1 .. Len(tsQueue) /\ s \in Seq(EventRecords)
  <2>1. DOMAIN s = 1 .. Len(tsQueue)
    BY <1>2
  <2>2. s \in [1 .. Len(tsQueue) -> EventRecords]
    BY <1>2, <1>3
  <2> HIDE DEF s
  <2> QED
    BY <1>2, <2>1, <2>2
<1> HIDE DEF s, moved
<1>5. /\ h \in Seq(EventRecords)
      /\ TimeSorted(queue) => TimeSorted(h)
      /\ Sorted(queue) => Sorted(h)
      /\ \A i \in DOMAIN h : (\E j \in DOMAIN queue : h[i] = queue[j])
                               \/ (\E j \in DOMAIN s : h[i] = s[j])
  BY <1>2, <1>4, PushEachFacts
<1> HIDE DEF h
<1>6. ASSUME Numbered(queue, fifoId, added)
      PROVE  Numbered(h, fifoId + Len(tsQueue), added + Len(tsQueue))
  <2>1. \A j \in DOMAIN queue : /\ queue[j].fifo \in Nat /\ queue[j].nth \in Nat
                                /\ queue[j].fifo < fifoId /\ queue[j].nth <= added
    <3>1. \A r \in EventRecords : r.fifo \in Nat /\ r.nth \in Nat
      BY DEF EventRecords
    <3>2. \A j \in DOMAIN queue : queue[j] \in EventRecords
      BY <1>2
    <3> QED
      BY <1>6, <3>1, <3>2 DEF Numbered
  <2>2. ASSUME NEW i \in DOMAIN h, NEW j \in DOMAIN h, h[i].fifo <= h[j].fifo
        PROVE  h[i].nth <= h[j].nth
    <3>1. CASE \E k \in DOMAIN queue : h[i] = queue[k]
      <4>1. CASE \E k \in DOMAIN queue : h[j] = queue[k]
        BY <1>6, <2>2, <3>1, <4>1 DEF Numbered
      <4>2. CASE \E k \in DOMAIN s : h[j] = s[k]
        BY <1>2, <1>3, <1>4, <2>1, <3>1, <4>2
      <4> QED
        BY <1>5, <4>1, <4>2
    <3>2. CASE \E k \in DOMAIN s : h[i] = s[k]
      <4>1. CASE \E k \in DOMAIN queue : h[j] = queue[k]
        BY <1>2, <1>3, <1>4, <2>1, <2>2, <3>2, <4>1
      <4>2. CASE \E k \in DOMAIN s : h[j] = s[k]
        BY <1>2, <1>3, <1>4, <2>2, <3>2, <4>2
      <4> QED
        BY <1>5, <4>1, <4>2
    <3> QED
      BY <1>5, <3>1, <3>2
  <2>3. ASSUME NEW i \in DOMAIN h
        PROVE  h[i].fifo < fifoId + Len(tsQueue) /\ h[i].nth <= added + Len(tsQueue)
    <3>1. CASE \E k \in DOMAIN queue : h[i] = queue[k]
      BY <1>2, <2>1, <3>1
    <3>2. CASE \E k \in DOMAIN s : h[i] = s[k]
      BY <1>2, <1>3, <1>4, <3>2
    <3> QED
      BY <1>5, <3>1, <3>2
  <2> QED
    BY <2>2, <2>3 DEF Numbered
<1>7. \A i \in DOMAIN h : h[i].limit = NoLimit \/ \E j \in DOMAIN queue : h[i] = queue[j]
  BY <1>3, <1>4, <1>5
<1>8. fifoId + Len(tsQueue) \in Nat /\ added + Len(tsQueue) \in Nat
  BY <1>2
<1> QED
  BY <1>1, <1>5, <1>6, <1>7, <1>8 DEF Ordered, moved

\* ForceExceptionCheck() shortens the slice by no more than what is left of
\* it, and the present does not move back.
LEMMA ForceFacts ==
  ASSUME Typed, Rounded, pc = "slice", NEW n \in Int
  PROVE  /\ DowncountToCycles(downcount) \in Int
         /\ Shortened(n).slice \in 0 .. MaxSliceLength /\ Shortened(n).slice <= slice
         /\ Shortened(n).downcount \in Int
         /\ DowncountToCycles(Shortened(n).downcount) \in Int
         /\ DowncountToCycles(Shortened(n).downcount) <= Shortened(n).slice
         /\ slice - DowncountToCycles(downcount)
              <= Shortened(n).slice - DowncountToCycles(Shortened(n).downcount)
         /\ Shortened(n).slice <= slice - DowncountToCycles(downcount) + Larger(0, n)
<1> DEFINE left == DowncountToCycles(downcount)
           cycles == Larger(0, n)
           count == CyclesToDowncount(cycles, factor)
           back == DowncountToCycles(count)
           forced == Shortened(n)
<1>1. /\ factor \in Factors /\ downcount \in Int
      /\ slice \in 0 .. MaxSliceLength /\ MaxSliceLength \in Nat
  BY TimingAssumption DEF Typed
<1>2. cycles \in Nat
  BY DEF Larger
<1>3. /\ \A c \in Int : CyclesToDowncount(c, factor) \in Int
      /\ \A c \in Nat : DowncountToCycles(CyclesToDowncount(c, factor)) <= c
      /\ \A d \in Int : DowncountToCycles(d) \in Int
  BY <1>1, ConversionFacts DEF DowncountToCycles
<1>4. left <= slice
  BY DEF Rounded
<1>5. forced = IF left > cycles
                 THEN [slice |-> slice - (left - cycles), downcount |-> count]
                 ELSE [slice |-> slice, downcount |-> downcount]
  BY DEF Shortened
<1> HIDE DEF cycles, forced
<1>6. left \in Int /\ count \in Int /\ back \in Int /\ back <= cycles
  BY <1>1, <1>2, <1>3
<1>7. CASE left > cycles
  <2>1. forced.slice = slice - (left - cycles) /\ forced.downcount = count
    BY <1>5, <1>7
  <2>2. DowncountToCycles(forced.downcount) = back
    BY <2>1
  <2> HIDE DEF left, count, back
  <2>3. /\ forced.slice \in 0 .. MaxSliceLength /\ forced.slice <= slice
        /\ forced.downcount \in Int /\ back <= forced.slice
        /\ slice - left <= forced.slice - back
        /\ forced.slice <= slice - left + cycles
    BY <1>1, <1>2, <1>4, <1>6, <1>7, <2>1
  <2> QED
    BY <1>6, <2>2, <2>3 DEF left, cycles, forced
<1>8. CASE ~(left > cycles)
  <2>1. forced.slice = slice /\ forced.downcount = downcount
    BY <1>5, <1>8
  <2>2. DowncountToCycles(forced.downcount) = left
    BY <2>1
  <2> HIDE DEF left, count, back
  <2>3. /\ forced.slice \in 0 .. MaxSliceLength /\ forced.slice <= slice
        /\ forced.downcount \in Int /\ left <= forced.slice
        /\ slice - left <= forced.slice - left
        /\ forced.slice <= slice - left + cycles
    BY <1>1, <1>2, <1>4, <1>6, <1>8, <2>1
  <2> QED
    BY <1>6, <2>2, <2>3 DEF left, cycles, forced
<1> QED
  BY <1>7, <1>8
-----------------------------------------------------------------------------
(***************************************************************************)
(* The queue through the steps of the CPU thread.                          *)
(***************************************************************************)
LEMMA TicksType ==
  ASSUME Typed
  PROVE  /\ DowncountToCycles(downcount) \in Int /\ timer \in Int /\ slice \in Int
         /\ Ticks \in Int
         /\ Ticks = IF sane THEN timer ELSE timer + slice - DowncountToCycles(downcount)
<1>1. factor \in Factors /\ downcount \in Int /\ timer \in Int /\ slice \in Int
  BY TimingAssumption DEF Typed
<1>2. DowncountToCycles(downcount) \in Int
  BY <1>1, ConversionFacts DEF DowncountToCycles
<1> QED
  BY <1>1, <1>2 DEF Ticks

\* What is an order for the queue, as one formula.
InOrder(q, id, n, ordered) ==
  /\ TimeSorted(q)
  /\ ordered => Sorted(q) /\ Numbered(q, id, n)

LEMMA EmptyInOrder ==
  ASSUME NEW id, NEW n, NEW ordered
  PROVE  <<>> \in Seq(EventRecords) /\ InOrder(<<>>, id, n, ordered)
<1>1. <<>> \in Seq(EventRecords) /\ DOMAIN <<>> = {}
  OBVIOUS
<1> QED
  BY <1>1 DEF InOrder, TimeSorted, Sorted, Numbered

\* ScheduleEvent() on the CPU thread.
LEMMA ScheduleFacts ==
  ASSUME Typed, Ordered, NEW d \in Delays, NEW type \in Types, ScheduleEvent(d, type)
  PROVE  /\ queue' \in Seq(EventRecords)
         /\ InOrder(queue', fifoId', added', inOrder')
         /\ \A i \in DOMAIN queue' :
              queue'[i].limit = {Larger(Ticks, Ticks + d)} \/ \E j \in DOMAIN queue : queue'[i] = queue[j]
<1> DEFINE e == [time |-> Ticks + d, type |-> type, fifo |-> fifoId,
                 nth |-> added + 1, limit |-> {Larger(Ticks, Ticks + d)}]
           h == PushHeap(queue, e)
<1>1. /\ queue' = h /\ fifoId' = fifoId + 1 /\ added' = added + 1 /\ inOrder' = inOrder
  BY DEF ScheduleEvent
<1>2. /\ Ticks \in Int /\ d \in Int /\ fifoId \in Nat /\ added \in Nat
      /\ queue \in Seq(EventRecords)
  BY TicksType, TimingAssumption DEF Typed
<1>3. /\ e \in EventRecords /\ e.fifo = fifoId /\ e.nth = added + 1
      /\ e.limit = {Larger(Ticks, Ticks + d)}
  <2> DEFINE t == Ticks
  <2>1. t \in Int /\ t + d \in Int /\ Larger(t, t + d) \in Int
    BY <1>2 DEF Larger
  <2> HIDE DEF t
  <2>2. {Larger(t, t + d)} \in SUBSET Int /\ added + 1 \in Nat
    BY <1>2, <2>1
  <2>3. e = [time |-> t + d, type |-> type, fifo |-> fifoId,
             nth |-> added + 1, limit |-> {Larger(t, t + d)}]
    BY DEF t
  <2> HIDE DEF e
  <2> QED
    BY <1>2, <2>1, <2>2, <2>3 DEF EventRecords, t
<1> HIDE DEF e
<1>4. h \in Seq(EventRecords)
  BY <1>2, <1>3, PushHeapFacts
<1>5. /\ TimeSorted(queue) => TimeSorted(h)
      /\ Sorted(queue) => Sorted(h)
      /\ \A i \in DOMAIN h : h[i] = e \/ \E j \in DOMAIN queue : h[i] = queue[j]
  BY <1>2, <1>3, PushHeapSorts
<1> HIDE DEF h
<1>6. ASSUME Numbered(queue, fifoId, added) PROVE Numbered(h, fifoId + 1, added + 1)
  <2>1. \A j \in DOMAIN queue : /\ queue[j].fifo \in Nat /\ queue[j].nth \in Nat
                                /\ queue[j].fifo < fifoId /\ queue[j].nth <= added
    <3>1. \A r \in EventRecords : r.fifo \in Nat /\ r.nth \in Nat
      BY DEF EventRecords
    <3>2. \A j \in DOMAIN queue : queue[j] \in EventRecords
      BY <1>2
    <3> QED
      BY <1>6, <3>1, <3>2 DEF Numbered
  <2>2. ASSUME NEW i \in DOMAIN h, NEW j \in DOMAIN h, h[i].fifo <= h[j].fifo
        PROVE  h[i].nth <= h[j].nth
    <3>1. CASE h[i] = e
      BY <1>2, <1>3, <1>5, <2>1, <2>2, <3>1
    <3>2. CASE \E k \in DOMAIN queue : h[i] = queue[k]
      <4>1. CASE h[j] = e
        BY <1>2, <1>3, <2>1, <3>2, <4>1
      <4>2. CASE \E k \in DOMAIN queue : h[j] = queue[k]
        BY <1>6, <2>2, <3>2, <4>2 DEF Numbered
      <4> QED
        BY <1>5, <4>1, <4>2
    <3> QED
      BY <1>5, <3>1, <3>2
  <2>3. ASSUME NEW i \in DOMAIN h PROVE h[i].fifo < fifoId + 1 /\ h[i].nth <= added + 1
    BY <1>2, <1>3, <1>5, <2>1
  <2> QED
    BY <2>2, <2>3 DEF Numbered
<1> QED
  BY <1>1, <1>3, <1>4, <1>5, <1>6 DEF Ordered, InOrder

\* RemoveAllEvents()
LEMMA RemoveAllFacts ==
  ASSUME Typed, Ordered, NEW type \in Types, RemoveAllEvents(type)
  PROVE  /\ queue' \in Seq(EventRecords) /\ InOrder(queue', fifoId', added', inOrder')
         /\ \A i \in DOMAIN queue' :
              queue'[i].limit = NoLimit \/ \E j \in DOMAIN queue : queue'[i] = queue[j]
<1> DEFINE moved == MoveEvents(queue, fifoId, added)
           q == moved.queue
           h == Remaining(q, type)
<1>1. /\ queue' = h /\ fifoId' = moved.fifoId /\ added' = moved.added /\ inOrder' = inOrder
  BY DEF RemoveAllEvents
<1>2. /\ q \in Seq(EventRecords) /\ TimeSorted(q)
      /\ inOrder => Sorted(q) /\ Numbered(q, moved.fifoId, moved.added)
      /\ \A i \in DOMAIN q : q[i].limit = NoLimit \/ \E j \in DOMAIN queue : q[i] = queue[j]
  BY MoveEventsFacts
<1> HIDE DEF moved, q
<1>3. /\ h \in Seq(EventRecords) /\ TimeSorted(h) /\ (Sorted(q) => Sorted(h))
      /\ \A i \in DOMAIN h : \E j \in DOMAIN q : h[i] = q[j]
  BY <1>2, RemainingFacts
<1> HIDE DEF h
<1>4. inOrder => Numbered(h, moved.fifoId, moved.added)
  BY <1>2, <1>3, NumberedPart
<1> QED
  BY <1>1, <1>2, <1>3, <1>4 DEF InOrder

\* RemoveEvent()
LEMMA RemoveFacts ==
  ASSUME Typed, Ordered, NEW type \in Types, RemoveEvent(type)
  PROVE  /\ queue' \in Seq(EventRecords) /\ InOrder(queue', fifoId', added', inOrder')
         /\ \A i \in DOMAIN queue' : \E j \in DOMAIN queue : queue'[i] = queue[j]
<1> DEFINE h == Remaining(queue, type)
<1>1. /\ queue' = h /\ fifoId' = fifoId /\ added' = added /\ inOrder' = inOrder
  BY DEF RemoveEvent
<1>2. /\ queue \in Seq(EventRecords) /\ TimeSorted(queue)
      /\ inOrder => Sorted(queue) /\ Numbered(queue, fifoId, added)
  BY DEF Typed, Ordered
<1>3. /\ h \in Seq(EventRecords) /\ TimeSorted(h) /\ (Sorted(queue) => Sorted(h))
      /\ \A i \in DOMAIN h : \E j \in DOMAIN queue : h[i] = queue[j]
  BY <1>2, RemainingFacts
<1> HIDE DEF h
<1>4. inOrder => Numbered(h, fifoId, added)
  BY <1>2, <1>3, NumberedPart
<1> QED
  BY <1>1, <1>2, <1>3, <1>4 DEF InOrder

\* The scaling keeps the order of the times, though not of equal ones.
LEMMA AdjustFacts ==
  ASSUME Typed, Ordered, NEW ratio \in ClockRatios, AdjustEventQueueTimes(ratio)
  PROVE  queue' \in Seq(EventRecords) /\ InOrder(queue', fifoId', added', inOrder')
<1> DEFINE scaled(t) == timer + TruncDiv((t - timer) * ratio[1], ratio[2])
           h == [i \in DOMAIN queue |->
                  [queue[i] EXCEPT !.time = scaled(@), !.limit = NoLimit]]
<1>1. queue' = h /\ inOrder' = FALSE
  BY DEF AdjustEventQueueTimes
<1>2. /\ ratio[1] \in Nat \ {0} /\ ratio[2] \in Nat \ {0} /\ timer \in Int
      /\ queue \in Seq(EventRecords)
  BY TimingAssumption DEF Typed
<1>3. ASSUME NEW t \in Int PROVE scaled(t) \in Int
  <2>1. t - timer \in Int
    BY <1>2
  <2>2. (t - timer) * ratio[1] \in Int
    BY <1>2, <2>1, TimesFacts
  <2>3. TruncDiv((t - timer) * ratio[1], ratio[2]) \in Int
    BY <1>2, <2>2, TruncDivFacts
  <2> QED
    BY <1>2, <2>3
<1>4. ASSUME NEW t \in Int, NEW u \in Int, t <= u PROVE scaled(t) <= scaled(u)
  <2>1. t - timer \in Int /\ u - timer \in Int /\ t - timer <= u - timer
    BY <1>2, <1>4
  <2>2. /\ (t - timer) * ratio[1] \in Int /\ (u - timer) * ratio[1] \in Int
        /\ (t - timer) * ratio[1] <= (u - timer) * ratio[1]
    BY <1>2, <2>1, TimesFacts
  <2>3. /\ TruncDiv((t - timer) * ratio[1], ratio[2]) <= TruncDiv((u - timer) * ratio[1], ratio[2])
        /\ TruncDiv((t - timer) * ratio[1], ratio[2]) \in Int
        /\ TruncDiv((u - timer) * ratio[1], ratio[2]) \in Int
    BY <1>2, <2>2, TruncDivFacts
  <2> QED
    BY <1>2, <2>3
<1>5. \A i \in DOMAIN queue : queue[i] \in EventRecords
  BY <1>2
<1> HIDE DEF scaled
<1>6. ASSUME NEW i \in DOMAIN queue
      PROVE  h[i] \in EventRecords /\ h[i].time = scaled(queue[i].time)
  <2>1. h[i] = [queue[i] EXCEPT !.time = scaled(queue[i].time), !.limit = NoLimit]
    OBVIOUS
  <2>2. queue[i].time \in Int /\ NoLimit \in SUBSET Int
    BY <1>5 DEF EventRecords, NoLimit
  <2>3. scaled(queue[i].time) \in Int
    BY <1>3, <2>2
  <2> HIDE DEF h
  <2> QED
    BY <1>5, <2>1, <2>2, <2>3 DEF EventRecords
<1>7. h \in Seq(EventRecords)
  <2>1. DOMAIN queue = 1 .. Len(queue) /\ Len(queue) \in Nat /\ DOMAIN h = DOMAIN queue
    BY <1>2
  <2>2. h \in [1 .. Len(queue) -> EventRecords]
    BY <1>6, <2>1
  <2> HIDE DEF h
  <2> QED
    BY <2>1, <2>2
<1>8. TimeSorted(h)
  <2>1. DOMAIN h = DOMAIN queue
    OBVIOUS
  <2>2. \A i \in DOMAIN queue : queue[i].time \in Int
    BY <1>5 DEF EventRecords
  <2> HIDE DEF h
  <2> QED
    BY <1>4, <1>6, <2>1, <2>2 DEF Ordered, TimeSorted
<1> HIDE DEF h
<1> QED
  BY <1>1, <1>7, <1>8 DEF InOrder

\* The callback of the front event.
LEMMA DispatchFacts ==
  ASSUME Typed, Ordered, Dispatch
  PROVE  queue' \in Seq(EventRecords) /\ InOrder(queue', fifoId', added', inOrder')
<1> DEFINE h == Tail(queue)
<1>1. /\ queue' = h /\ fifoId' = fifoId /\ added' = added /\ inOrder' = inOrder
      /\ queue \in Seq(EventRecords) /\ queue # <<>>
  BY DEF Dispatch, Typed
<1>2. /\ h \in Seq(EventRecords) /\ Len(h) = Len(queue) - 1 /\ Len(queue) \in Nat
      /\ \A i \in 1 .. Len(queue) - 1 : h[i] = queue[i + 1]
      /\ DOMAIN queue = 1 .. Len(queue)
  BY <1>1
<1>3. DOMAIN h = 1 .. Len(queue) - 1
  <2> HIDE DEF h
  <2> QED
    BY <1>2
<1> HIDE DEF h
<1>4. \A i \in DOMAIN h : i \in Int /\ i + 1 \in DOMAIN queue /\ h[i] = queue[i + 1]
  BY <1>2, <1>3
<1>5. \A i, j \in DOMAIN h : i <= j => i + 1 <= j + 1
  BY <1>4
<1>6. TimeSorted(h)
  BY <1>4, <1>5 DEF Ordered, TimeSorted
<1>7. inOrder => Sorted(h)
  BY <1>4, <1>5 DEF Ordered, Sorted
<1>8. inOrder => Numbered(h, fifoId, added)
  BY <1>4, NumberedPart DEF Ordered
<1> QED
  BY <1>1, <1>2, <1>6, <1>7, <1>8 DEF InOrder

\* The end of Advance().
LEMMA AdvanceEndFacts ==
  ASSUME Typed, Ordered, AdvanceEnd
  PROVE  /\ queue' \in Seq(EventRecords) /\ InOrder(queue', fifoId', added', inOrder')
         /\ \A i \in DOMAIN queue' : i \in DOMAIN queue /\ queue'[i].limit = {queue[i].time}
<1> DEFINE h == [i \in DOMAIN queue |-> [queue[i] EXCEPT !.limit = {queue[i].time}]]
<1>1. /\ queue' = h /\ fifoId' = fifoId /\ added' = added /\ inOrder' = inOrder
      /\ queue \in Seq(EventRecords)
  BY DEF AdvanceEnd, Typed
<1>2. DOMAIN queue = 1 .. Len(queue) /\ Len(queue) \in Nat /\ DOMAIN h = DOMAIN queue
  BY <1>1
<1>3. ASSUME NEW i \in DOMAIN queue
      PROVE  /\ h[i] \in EventRecords /\ h[i].time = queue[i].time /\ h[i].fifo = queue[i].fifo
             /\ h[i].nth = queue[i].nth /\ h[i].limit = {queue[i].time}
  <2>1. h[i] = [queue[i] EXCEPT !.limit = {queue[i].time}] /\ queue[i] \in EventRecords
    BY <1>1
  <2>2. {queue[i].time} \in SUBSET Int
    BY <2>1 DEF EventRecords
  <2> HIDE DEF h
  <2> QED
    BY <2>1, <2>2 DEF EventRecords
<1>4. h \in Seq(EventRecords)
  <2>1. h \in [1 .. Len(queue) -> EventRecords]
    BY <1>2, <1>3
  <2> HIDE DEF h
  <2> QED
    BY <1>2, <2>1
<1> HIDE DEF h
<1>5. TimeSorted(h)
  BY <1>2, <1>3 DEF Ordered, TimeSorted
<1>6. inOrder => Sorted(h)
  BY <1>2, <1>3 DEF Ordered, Sorted, Before
<1>7. inOrder => Numbered(h, fifoId, added)
  BY <1>2, <1>3 DEF Ordered, Numbered
<1> QED
  BY <1>1, <1>2, <1>3, <1>4, <1>5, <1>6, <1>7 DEF InOrder

\* A load sorts the events of the savestate.
LEMMA LoadFacts ==
  ASSUME Typed, SavedOK, Load
  PROVE  /\ queue' \in Seq(EventRecords) /\ InOrder(queue', fifoId', added', inOrder')
         /\ \A i \in DOMAIN queue' : \E j \in DOMAIN saved[1].queue : queue'[i] = saved[1].queue[j]
<1> DEFINE q == saved[1].queue
           none == <<>>
           all == DOMAIN q
           h == PushEach(none, q, all)
<1>1. queue' = h /\ inOrder' = FALSE /\ q \in Seq(EventRecords)
  BY DEF Load, SavedOK
<1>2. none \in Seq(EventRecords) /\ DOMAIN none = {} /\ TimeSorted(none)
  BY DEF TimeSorted
<1> HIDE DEF q, none, all
<1>3. /\ h \in Seq(EventRecords) /\ (TimeSorted(none) => TimeSorted(h))
      /\ (Sorted(none) => Sorted(h))
      /\ \A i \in DOMAIN h : (\E j \in DOMAIN none : h[i] = none[j])
                               \/ (\E j \in DOMAIN q : h[i] = q[j])
  <2>1. q \in Seq(EventRecords)
    BY <1>1
  <2>2. h = PushEach(none, q, all)
    OBVIOUS
  <2>3. none \in Seq(EventRecords)
    BY <1>2
  <2> HIDE DEF h
  <2> QED
    BY <2>1, <2>2, <2>3, PushEachFacts
<1> HIDE DEF h
<1> QED
  BY <1>1, <1>2, <1>3 DEF InOrder, q
-----------------------------------------------------------------------------
(***************************************************************************)
(* The parts of the invariant, each through every step.                    *)
(***************************************************************************)
LEMMA NextQueue ==
  ASSUME Typed, Phases, Ordered, SavedOK, [Next]_vars
  PROVE  queue' \in Seq(EventRecords) /\ Ordered'
<1> SUFFICES queue' \in Seq(EventRecords) /\ InOrder(queue', fifoId', added', inOrder')
  BY DEF InOrder, Ordered
<1>1. CASE queue' = queue /\ fifoId' = fifoId /\ added' = added /\ inOrder' = inOrder
  BY <1>1 DEF Typed, Ordered, InOrder
<1>2. CASE \/ \E n \in 1 .. MaxBlock : Execute(n)
           \/ \E n \in Delays : ForceExceptionCheck(n)
           \/ \E d \in OffThreadDelays, type \in Types : OffThreadRead(d, type)
           \/ OffThreadPush \/ Idle \/ UNCHANGED vars
  BY <1>1, <1>2 DEF Execute, ForceExceptionCheck, OffThreadRead, OffThreadPush, Idle, vars
<1>3. ASSUME NEW d \in Delays, NEW type \in Types, ScheduleEvent(d, type)
      PROVE  queue' \in Seq(EventRecords) /\ InOrder(queue', fifoId', added', inOrder')
  BY <1>3, ScheduleFacts
<1>4. ASSUME NEW type \in Types, RemoveEvent(type)
      PROVE  queue' \in Seq(EventRecords) /\ InOrder(queue', fifoId', added', inOrder')
  BY <1>4, RemoveFacts
<1>5. ASSUME NEW type \in Types, RemoveAllEvents(type)
      PROVE  queue' \in Seq(EventRecords) /\ InOrder(queue', fifoId', added', inOrder')
  BY <1>5, RemoveAllFacts
<1>6. ASSUME NEW ratio \in ClockRatios, AdjustEventQueueTimes(ratio)
      PROVE  queue' \in Seq(EventRecords) /\ InOrder(queue', fifoId', added', inOrder')
  BY <1>6, AdjustFacts
<1>7. CASE (\E f \in Factors : AdvanceBegin(f)) \/ Save
  <2>1. LET moved == MoveEvents(queue, fifoId, added)
        IN  /\ queue' = moved.queue /\ fifoId' = moved.fifoId /\ added' = moved.added
            /\ inOrder' = inOrder
    BY <1>7 DEF AdvanceBegin, Save
  <2> QED
    BY <2>1, MoveEventsFacts DEF InOrder
<1>8. CASE \E f \in Factors : Restart(f)
  <2>1. queue' = <<>>
    BY <1>8 DEF Restart, Phases
  <2> QED
    BY <2>1, EmptyInOrder
<1>9. CASE Dispatch
  BY <1>9, DispatchFacts
<1>10. CASE AdvanceEnd
  BY <1>10, AdvanceEndFacts
<1>11. CASE Load
  BY <1>11, LoadFacts
<1>12. CASE Shutdown
  <2>1. queue' = <<>>
    BY <1>12 DEF Shutdown
  <2> QED
    BY <2>1, EmptyInOrder
<1> QED
  BY <1>2, <1>3, <1>4, <1>5, <1>6, <1>7, <1>8, <1>9, <1>10, <1>11, <1>12 DEF Next

\* The events of other threads on their way, and the bound on them all.
Bounded ==
  /\ fifoId \in Nat /\ added \in Nat
  /\ tsQueue \in Seq(TsEvents) /\ offThread \in Seq(TsEvents) /\ Len(offThread) <= 1
  /\ added + Len(tsQueue) + Len(offThread) <= MaxEvents

LEMMA NextBounded ==
  ASSUME Typed, Ordered, SavedOK, [Next]_vars
  PROVE  Bounded'
<1>1. /\ fifoId \in Nat /\ added \in Nat /\ tsQueue \in Seq(TsEvents)
      /\ offThread \in Seq(TsEvents) /\ Len(offThread) <= 1
      /\ added + Len(tsQueue) + Len(offThread) <= MaxEvents
      /\ Len(tsQueue) \in Nat /\ Len(offThread) \in Nat /\ MaxEvents \in Nat /\ timer \in Int
  BY TimingAssumption DEF Typed
<1>2. <<>> \in Seq(TsEvents) /\ Len(<<>>) = 0
  OBVIOUS
<1>3. CASE /\ fifoId' = fifoId /\ added' = added
           /\ tsQueue' = tsQueue /\ offThread' = offThread
  BY <1>1, <1>3 DEF Bounded
<1>4. CASE \/ \E n \in 1 .. MaxBlock : Execute(n)
           \/ \E n \in Delays : ForceExceptionCheck(n)
           \/ \E type \in Types : RemoveEvent(type)
           \/ \E ratio \in ClockRatios : AdjustEventQueueTimes(ratio)
           \/ Idle \/ Dispatch \/ AdvanceEnd \/ UNCHANGED vars
  BY <1>3, <1>4 DEF Execute, ForceExceptionCheck, RemoveEvent, AdjustEventQueueTimes, Idle,
     Dispatch, AdvanceEnd, vars
<1>5. ASSUME NEW d \in Delays, NEW type \in Types, ScheduleEvent(d, type)
      PROVE  Bounded'
  <2>1. /\ fifoId' = fifoId + 1 /\ added' = added + 1
        /\ tsQueue' = tsQueue /\ offThread' = offThread
        /\ added + Len(tsQueue) + Len(offThread) < MaxEvents
    BY <1>5 DEF ScheduleEvent
  <2> QED
    BY <1>1, <2>1 DEF Bounded
<1>6. ASSUME NEW d \in OffThreadDelays, NEW type \in Types, OffThreadRead(d, type)
      PROVE  Bounded'
  <2> DEFINE e == [time |-> timer + d, type |-> type]
  <2>1. /\ fifoId' = fifoId /\ added' = added /\ tsQueue' = tsQueue /\ offThread' = <<e>>
        /\ added + Len(tsQueue) < MaxEvents
    BY <1>6 DEF OffThreadRead
  <2>2. e \in TsEvents
    BY <1>1, TimingAssumption DEF TsEvents
  <2> HIDE DEF e
  <2>3. <<e>> \in Seq(TsEvents) /\ Len(<<e>>) = 1
    BY <2>2
  <2> QED
    BY <1>1, <2>1, <2>3 DEF Bounded
<1>7. CASE OffThreadPush
  <2>1. /\ fifoId' = fifoId /\ added' = added /\ tsQueue' = tsQueue \o offThread
        /\ offThread' = <<>>
    BY <1>7 DEF OffThreadPush
  <2>2. /\ tsQueue \o offThread \in Seq(TsEvents)
        /\ Len(tsQueue \o offThread) = Len(tsQueue) + Len(offThread)
    BY <1>1
  <2> QED
    BY <1>1, <1>2, <2>1, <2>2 DEF Bounded
<1>8. CASE \/ \E type \in Types : RemoveAllEvents(type)
           \/ \E f \in Factors : AdvanceBegin(f)
           \/ Save \/ Load \/ Shutdown
  <2>1. fifoId' \in Nat /\ added' \in {added, added + Len(tsQueue)}
    <3>1. CASE \/ \E type \in Types : RemoveAllEvents(type)
               \/ \E f \in Factors : AdvanceBegin(f)
               \/ Save
      <4>1. LET moved == MoveEvents(queue, fifoId, added)
            IN  fifoId' = moved.fifoId /\ added' = moved.added
        BY <3>1 DEF RemoveAllEvents, AdvanceBegin, Save
      <4> QED
        BY <4>1, MoveEventsFacts
    <3>2. CASE Load
      <4>1. saved[1].fifoId \in Nat /\ fifoId' = saved[1].fifoId + Len(tsQueue) /\ added' = added
        BY <3>2 DEF Load, SavedOK
      <4> QED
        BY <1>1, <4>1
    <3>3. CASE Shutdown
      BY <1>1, <3>3 DEF Shutdown
    <3> QED
      BY <1>8, <3>1, <3>2, <3>3
  <2>2. tsQueue' = <<>> /\ offThread' = offThread
    BY <1>8 DEF RemoveAllEvents, AdvanceBegin, Save, Load, Shutdown
  <2> QED
    BY <1>1, <1>2, <2>1, <2>2 DEF Bounded
<1>9. CASE \E f \in Factors : Restart(f)
  <2>1. /\ fifoId' = 0 /\ added' = added
        /\ tsQueue' = tsQueue /\ offThread' = offThread
    BY <1>9 DEF Restart
  <2> QED
    BY <1>1, <2>1 DEF Bounded
<1> QED
  BY <1>4, <1>5, <1>6, <1>7, <1>8, <1>9 DEF Next

\* The clock.
Clocked ==
  /\ timer \in Int /\ slice \in 0 .. MaxSliceLength /\ downcount \in Int
  /\ factor \in Factors
  /\ sane \in BOOLEAN /\ inOrder \in BOOLEAN
  /\ pc \in {"slice", "loop", "callback", "off"}

\* The downcount d in cycles, under the factor f.
InCycles(d, f) == TruncDiv(d * f[2], f[1])

LEMMA InCyclesFacts ==
  ASSUME NEW f \in Factors
  PROVE  /\ \A c \in Int : CyclesToDowncount(c, f) \in Int
         /\ \A c \in Nat : InCycles(CyclesToDowncount(c, f), f) <= c
         /\ \A d \in Int : InCycles(d, f) \in Int
         /\ \A c, d \in Int : c <= d => InCycles(c, f) <= InCycles(d, f)
  BY ConversionFacts DEF InCycles

\* The length of the slice that Advance() ends with.
LEMMA LengthFacts ==
  ASSUME Typed, AdvanceEnd
  PROVE  /\ slice' \in 0 .. MaxSliceLength
         /\ downcount' = CyclesToDowncount(slice', factor)
         /\ queue # <<>> => slice' <= queue[1].time - timer
<1>1. /\ timer \in Int /\ slice \in 0 .. MaxSliceLength /\ MaxSliceLength \in Nat
      /\ queue \in Seq(EventRecords)
  BY TimingAssumption DEF Typed
<1>2. CASE queue = <<>>
  BY <1>1, <1>2 DEF AdvanceEnd
<1>3. CASE queue # <<>>
  <2>1. Head(queue) = queue[1] /\ queue[1] \in EventRecords
    BY <1>1, <1>3
  <2>2. queue[1].time \in Int
    BY <2>1 DEF EventRecords
  <2>3. queue[1].time > timer
    BY <1>3, <2>1 DEF AdvanceEnd
  <2>4. /\ slice' = Smaller(queue[1].time - timer, MaxSliceLength)
        /\ downcount' = CyclesToDowncount(slice', factor)
    BY <1>3, <2>1 DEF AdvanceEnd
  <2>5. slice' \in 0 .. MaxSliceLength /\ slice' <= queue[1].time - timer
    BY <1>1, <2>2, <2>3, <2>4 DEF Smaller
  <2> QED
    BY <2>4, <2>5
<1> QED
  BY <1>2, <1>3

LEMMA NextClock ==
  ASSUME Typed, Phases, Rounded, SavedOK, [Next]_vars
  PROVE  Clocked' /\ Phases' /\ Rounded'
<1>1. /\ Clocked /\ timer \in Int /\ slice \in 0 .. MaxSliceLength /\ downcount \in Int
      /\ factor \in Factors /\ MaxSliceLength \in Nat \ {0}
  BY TimingAssumption DEF Typed, Clocked
<1>2. /\ \A c \in Int : CyclesToDowncount(c, factor) \in Int
      /\ \A c \in Nat : InCycles(CyclesToDowncount(c, factor), factor) <= c
      /\ \A d \in Int : InCycles(d, factor) \in Int
      /\ \A c, d \in Int : c <= d => InCycles(c, factor) <= InCycles(d, factor)
  BY <1>1, InCyclesFacts
<1>3. pc \in {"slice", "off"} => InCycles(downcount, factor) <= slice
  BY DEF Rounded, InCycles, DowncountToCycles
<1>4. ASSUME pc' \in {"slice", "off"} => InCycles(downcount', factor') <= slice'
      PROVE  Rounded'
  BY <1>4 DEF Rounded, InCycles, DowncountToCycles
<1>5. CASE UNCHANGED <<clock, pc, inOrder>> /\ (queue' = <<>> \/ pc # "off")
  <2>1. Clocked' /\ Phases'
    BY <1>1, <1>5 DEF Clocked, Phases, clock
  <2>2. Rounded'
    BY <1>3, <1>4, <1>5 DEF clock
  <2> QED
    BY <2>1, <2>2
<1>6. CASE \/ \E type \in Types : RemoveEvent(type) \/ RemoveAllEvents(type)
           \/ Save
  BY <1>5, <1>6 DEF RemoveEvent, RemoveAllEvents, Save, OnCPU
<1>7. CASE \/ \E d \in OffThreadDelays, type \in Types : OffThreadRead(d, type)
           \/ OffThreadPush \/ UNCHANGED vars
  <2>1. UNCHANGED <<clock, pc, inOrder, queue>>
    BY <1>7 DEF OffThreadRead, OffThreadPush, vars
  <2> QED
    BY <1>5, <2>1 DEF Phases
<1>8. CASE Idle \/ \E n \in 1 .. MaxBlock : Execute(n)
  <2>1. /\ pc = "slice" /\ UNCHANGED <<timer, slice, factor, sane, pc, inOrder>>
        /\ downcount' \in Int /\ downcount' <= downcount
    <3>1. CASE Idle
      BY <1>1, <3>1 DEF Idle
    <3>2. ASSUME NEW n \in 1 .. MaxBlock, Execute(n)
          PROVE  downcount' \in Int /\ downcount' <= downcount
      BY <1>1, <3>2, TimingAssumption DEF Execute
    <3> QED
      BY <1>8, <3>1, <3>2 DEF Execute
  <2>2. InCycles(downcount', factor) <= slice
    <3>1. /\ InCycles(downcount', factor) <= InCycles(downcount, factor)
          /\ InCycles(downcount', factor) \in Int /\ InCycles(downcount, factor) \in Int
      BY <1>1, <1>2, <2>1
    <3> QED
      BY <1>1, <1>3, <2>1, <3>1
  <2>3. Clocked' /\ Phases'
    BY <1>1, <2>1 DEF Clocked, Phases
  <2> QED
    BY <1>4, <2>1, <2>2, <2>3
<1>9. CASE \/ \E n \in Delays : ForceExceptionCheck(n)
           \/ \E d \in Delays, type \in Types : ScheduleEvent(d, type)
  <2>1. CASE sane /\ \E d \in Delays, type \in Types : ScheduleEvent(d, type)
    BY <1>5, <2>1 DEF ScheduleEvent, OnCPU, clock
  <2>2. ASSUME NEW n \in Delays,
               ForceExceptionCheck(n) \/ (~sane /\ \E type \in Types : ScheduleEvent(n, type))
        PROVE  Clocked' /\ Phases' /\ Rounded'
    <3>1. pc = "slice" /\ n \in Int
      BY <2>2, TimingAssumption DEF ForceExceptionCheck, ScheduleEvent, OnCPU, Phases
    <3>2. /\ UNCHANGED <<timer, factor, sane, pc, inOrder>>
          /\ slice' = Shortened(n).slice /\ downcount' = Shortened(n).downcount
      BY <2>2 DEF ForceExceptionCheck, ScheduleEvent
    <3>3. /\ slice' \in 0 .. MaxSliceLength /\ downcount' \in Int
          /\ InCycles(downcount', factor) <= slice'
      BY <3>1, <3>2, ForceFacts DEF InCycles, DowncountToCycles
    <3>4. Clocked' /\ Phases'
      BY <1>1, <3>1, <3>2, <3>3 DEF Clocked, Phases
    <3> QED
      BY <1>4, <3>2, <3>3, <3>4
  <2> QED
    BY <1>9, <2>1, <2>2
<1>10. CASE \E ratio \in ClockRatios : AdjustEventQueueTimes(ratio)
  <2>1. UNCHANGED <<clock, pc>> /\ pc = "callback" /\ inOrder' = FALSE
    BY <1>10 DEF AdjustEventQueueTimes
  <2>2. Clocked' /\ Phases'
    BY <1>1, <2>1 DEF Clocked, Phases, clock
  <2> QED
    BY <1>4, <2>1, <2>2
<1>11. ASSUME NEW f \in Factors, AdvanceBegin(f)
       PROVE  Clocked' /\ Phases' /\ Rounded'
  <2>1. /\ timer' = timer + slice - InCycles(downcount, factor) /\ factor' = f
        /\ slice' = MaxSliceLength /\ sane' = TRUE /\ pc' = "loop"
        /\ downcount' = downcount /\ inOrder' = inOrder
    BY <1>11 DEF AdvanceBegin, InCycles, DowncountToCycles
  <2>2. InCycles(downcount, factor) \in Int
    BY <1>1, <1>2
  <2>3. timer' \in Int /\ slice' \in 0 .. MaxSliceLength
    BY <1>1, <2>1, <2>2
  <2>4. Clocked'
    BY <1>1, <2>1, <2>3 DEF Clocked
  <2>5. Phases'
    BY <2>1 DEF Phases
  <2> QED
    BY <1>4, <2>1, <2>4, <2>5
<1>12. ASSUME NEW f \in Factors, Restart(f)
       PROVE  Clocked' /\ Phases' /\ Rounded'
  <2>1. /\ timer' = 0 /\ slice' = MaxSliceLength /\ factor' = f /\ sane' = TRUE
        /\ downcount' = CyclesToDowncount(MaxSliceLength, f) /\ pc' = "slice" /\ inOrder' = TRUE
    BY <1>12 DEF Restart, StartUp
  <2>2. downcount' \in Int /\ InCycles(downcount', factor') <= slice'
    BY <1>1, <2>1, InCyclesFacts
  <2>3. slice' \in 0 .. MaxSliceLength /\ timer' \in Int
    BY <1>1, <2>1
  <2>4. Clocked' /\ Phases'
    BY <2>1, <2>2, <2>3 DEF Clocked, Phases
  <2> QED
    BY <1>4, <2>2, <2>4
<1>13. CASE Dispatch
  <2>1. UNCHANGED <<clock, inOrder>> /\ pc \in {"loop", "callback"} /\ pc' = "callback"
    BY <1>13 DEF Dispatch
  <2>2. Clocked' /\ Phases'
    BY <1>1, <2>1 DEF Clocked, Phases, clock
  <2> QED
    BY <1>4, <2>1, <2>2
<1>14. CASE AdvanceEnd
  <2>1. UNCHANGED <<timer, factor, inOrder>> /\ sane' = FALSE /\ pc' = "slice"
    BY <1>14 DEF AdvanceEnd
  <2>2. slice' \in 0 .. MaxSliceLength /\ downcount' = CyclesToDowncount(slice', factor)
    BY <1>14, LengthFacts
  <2>3. slice' \in Nat
    BY <1>1, <2>2
  <2>4. downcount' \in Int /\ InCycles(downcount', factor) <= slice'
    BY <1>2, <2>2, <2>3
  <2>5. Clocked' /\ Phases'
    BY <1>1, <2>1, <2>2, <2>4 DEF Clocked, Phases
  <2> QED
    BY <1>4, <2>1, <2>4, <2>5
<1>15. CASE Load
  <2>1. /\ timer' = saved[1].clock[1] /\ slice' = saved[1].clock[2]
        /\ downcount' = saved[1].clock[3] /\ factor' = saved[1].clock[4]
        /\ sane' = sane /\ inOrder' = FALSE /\ pc' = pc /\ pc = "slice"
    BY <1>15 DEF Load
  <2>2. /\ timer' \in Int /\ slice' \in 0 .. MaxSliceLength /\ downcount' \in Int
        /\ factor' \in Factors /\ InCycles(downcount', factor') <= slice'
    BY <1>15, <2>1 DEF SavedOK, InCycles, Load
  <2>3. Clocked' /\ Phases'
    BY <1>1, <2>1, <2>2 DEF Clocked, Phases
  <2> QED
    BY <1>4, <2>2, <2>3
<1>16. CASE Shutdown
  <2>1. UNCHANGED <<clock, inOrder>> /\ pc = "slice" /\ pc' = "off" /\ queue' = <<>>
    BY <1>16 DEF Shutdown
  <2>2. Clocked' /\ Phases'
    BY <1>1, <2>1 DEF Clocked, Phases, clock
  <2> QED
    BY <1>3, <1>4, <2>1, <2>2 DEF clock
<1> QED
  BY <1>6, <1>7, <1>8, <1>9, <1>10, <1>11, <1>12, <1>13, <1>14, <1>15, <1>16 DEF Next

LEMMA NextTyped ==
  ASSUME Typed, Phases, Ordered, Rounded, SavedOK, [Next]_vars
  PROVE  Typed'
<1>1. queue' \in Seq(EventRecords)
  BY NextQueue
<1>2. Bounded' /\ Clocked'
  BY NextBounded, NextClock
<1> QED
  BY <1>1, <1>2 DEF Typed, Bounded, Clocked

LEMMA NextSaved ==
  ASSUME Typed, Ordered, Rounded, SavedOK, SliceEndsInTime, [Next]_vars
  PROVE  SavedOK'
<1>1. CASE saved' = saved
  BY <1>1 DEF SavedOK
<1>2. CASE Load
  <2>1. saved' = <<>>
    BY <1>2 DEF Load
  <2> QED
    BY <2>1 DEF SavedOK
<1>3. CASE Save
  <2> DEFINE moved == MoveEvents(queue, fifoId, added)
             q == moved.queue
             state == [clock |-> clock, fifoId |-> fifoId, queue |-> q]
  <2>1. saved' = <<state>> /\ pc = "slice" /\ ~sane
    BY <1>3 DEF Save
  <2>2. /\ q \in Seq(EventRecords)
        /\ \A i \in DOMAIN q : q[i].limit = NoLimit \/ \E j \in DOMAIN queue : q[i] = queue[j]
    BY MoveEventsFacts
  <2> HIDE DEF moved, q
  <2>3. /\ saved'[1] = state
        /\ state.queue = q /\ state.fifoId = fifoId /\ state.clock = clock
    BY <2>1
  <2>4. /\ state.clock[1] = timer /\ state.clock[2] = slice
        /\ state.clock[3] = downcount /\ state.clock[4] = factor
    BY <2>3 DEF clock
  <2> HIDE DEF state
  <2>5. /\ timer \in Int /\ slice \in 0 .. MaxSliceLength /\ downcount \in Int
        /\ factor \in Factors /\ fifoId \in Nat
    BY DEF Typed
  <2>6. TruncDiv(downcount * factor[2], factor[1]) <= slice
    BY <2>1 DEF Rounded, DowncountToCycles
  <2>7. \A i \in DOMAIN q : \A t \in q[i].limit : timer + slice <= t
    BY <2>1, <2>2 DEF SliceEndsInTime, NoLimit
  <2> QED
    BY <2>2, <2>3, <2>4, <2>5, <2>6, <2>7 DEF SavedOK
<1>4. Load \/ Save \/ saved' = saved
  BY DEF Next, Execute, ForceExceptionCheck, ScheduleEvent, OffThreadRead, OffThreadPush,
     RemoveEvent, RemoveAllEvents, Idle, AdjustEventQueueTimes, AdvanceBegin, Restart,
     Dispatch, AdvanceEnd, Shutdown, vars
<1> QED
  BY <1>1, <1>2, <1>3, <1>4

\* ScheduleEvent() cuts the slice for its own event, Advance() for the first
\* of them all and so, the queue being sorted by time, for each of them.
LEMMA NextSlice ==
  ASSUME Typed, Phases, Ordered, Rounded, SavedOK, SliceEndsInTime, [Next]_vars
  PROVE  SliceEndsInTime'
<1>1. timer \in Int /\ slice \in Int /\ MaxSliceLength \in Nat
  BY TimingAssumption DEF Typed
<1>2. ASSUME pc = "slice", ~sane, timer' = timer, slice' \in Int, slice' <= slice,
             \A i \in DOMAIN queue' :
               queue'[i].limit = NoLimit \/ \E j \in DOMAIN queue : queue'[i] = queue[j]
      PROVE  SliceEndsInTime'
  <2>1. \A i \in DOMAIN queue : \A t \in queue[i].limit : t \in Int /\ timer + slice <= t
    <3>1. \A i \in DOMAIN queue : queue[i] \in EventRecords
      BY DEF Typed
    <3>2. \A r \in EventRecords : \A t \in r.limit : t \in Int
      BY DEF EventRecords
    <3> QED
      BY <1>2, <3>1, <3>2 DEF SliceEndsInTime
  <2>2. \A t \in Int : timer + slice <= t => timer' + slice' <= t
    <3>1. timer' = timer /\ slice' \in Int /\ slice' <= slice
      BY <1>2
    <3>2. ASSUME NEW u \in Int, NEW s \in Int, NEW r \in Int, s <= r, NEW t \in Int, u + r <= t
          PROVE  u + s <= t
      BY <3>2
    <3> QED
      BY <1>1, <3>1, <3>2
  <2>3. \A i \in DOMAIN queue' : \A t \in queue'[i].limit : timer' + slice' <= t
    BY <1>2, <2>1, <2>2 DEF NoLimit
  <2> QED
    BY <2>3 DEF SliceEndsInTime
<1>3. CASE ~(pc' = "slice" /\ ~sane')
  BY <1>3 DEF SliceEndsInTime
<1>4. CASE \/ \E n \in 1 .. MaxBlock : Execute(n)
           \/ \E d \in OffThreadDelays, type \in Types : OffThreadRead(d, type)
           \/ OffThreadPush \/ Idle \/ UNCHANGED vars
  <2>1. UNCHANGED <<queue, timer, slice, sane, pc>>
    BY <1>4 DEF Execute, OffThreadRead, OffThreadPush, Idle, vars, clock
  <2> QED
    BY <2>1 DEF SliceEndsInTime
<1>5. ASSUME NEW n \in Delays, ForceExceptionCheck(n)
      PROVE  SliceEndsInTime'
  <2>1. /\ pc = "slice" /\ UNCHANGED <<queue, timer, sane, pc>>
        /\ slice' = Shortened(n).slice /\ n \in Int
    BY <1>5, TimingAssumption DEF ForceExceptionCheck
  <2>2. slice' \in Int /\ slice' <= slice
    BY <1>1, <2>1, ForceFacts
  <2> QED
    BY <1>2, <1>3, <2>1, <2>2
<1>6. ASSUME NEW d \in Delays, NEW type \in Types, ScheduleEvent(d, type)
      PROVE  SliceEndsInTime'
  <2> SUFFICES ASSUME pc' = "slice" /\ ~sane' PROVE SliceEndsInTime'
    BY <1>3
  <2>1. /\ pc = "slice" /\ ~sane /\ timer' = timer /\ d \in Int
        /\ slice' = Shortened(d).slice
    BY <1>6, TimingAssumption DEF ScheduleEvent
  <2> DEFINE left == DowncountToCycles(downcount)
  <2>2. /\ slice' \in Int /\ slice' <= slice /\ left \in Int
        /\ slice' <= slice - left + Larger(0, d)
    BY <1>1, <2>1, ForceFacts
  <2>3. Ticks = timer + slice - left /\ Ticks \in Int
    BY <2>1, TicksType
  <2> HIDE DEF left
  <2>4. timer' + slice' <= Larger(Ticks, Ticks + d)
    BY <1>1, <2>1, <2>2, <2>3 DEF Larger
  <2>5. ASSUME NEW i \in DOMAIN queue', NEW t \in queue'[i].limit
        PROVE  timer' + slice' <= t
    <3>1. CASE queue'[i].limit = {Larger(Ticks, Ticks + d)}
      BY <2>4, <2>5, <3>1
    <3>2. CASE \E j \in DOMAIN queue : queue'[i] = queue[j]
      <4>1. PICK j \in DOMAIN queue : queue'[i] = queue[j]
        BY <3>2
      <4>2. t \in queue[j].limit /\ queue[j] \in EventRecords
        BY <2>5, <4>1 DEF Typed
      <4>3. t \in Int /\ timer + slice <= t
        BY <2>1, <4>2 DEF SliceEndsInTime, EventRecords
      <4> QED
        BY <1>1, <2>1, <2>2, <4>3
    <3> QED
      BY <1>6, <3>1, <3>2, ScheduleFacts
  <2> QED
    BY <2>5 DEF SliceEndsInTime
<1>7. CASE \/ \E type \in Types : RemoveEvent(type) \/ RemoveAllEvents(type)
           \/ Save
  <2>1. UNCHANGED <<timer, slice, sane, pc>>
    BY <1>7 DEF RemoveEvent, RemoveAllEvents, Save, clock
  <2>2. \A i \in DOMAIN queue' :
          queue'[i].limit = NoLimit \/ \E j \in DOMAIN queue : queue'[i] = queue[j]
    <3>1. CASE Save
      <4>1. queue' = MoveEvents(queue, fifoId, added).queue
        BY <3>1 DEF Save
      <4> QED
        BY <4>1, MoveEventsFacts
    <3>2. CASE \E type \in Types : RemoveEvent(type)
      BY <3>2, RemoveFacts
    <3>3. CASE \E type \in Types : RemoveAllEvents(type)
      BY <3>3, RemoveAllFacts
    <3> QED
      BY <1>7, <3>1, <3>2, <3>3
  <2>3. slice' \in Int /\ slice' <= slice
    BY <1>1, <2>1
  <2> QED
    BY <1>2, <1>3, <2>1, <2>2, <2>3
<1>8. CASE \/ \E ratio \in ClockRatios : AdjustEventQueueTimes(ratio)
           \/ \E f \in Factors : AdvanceBegin(f) \/ Restart(f)
           \/ Dispatch \/ Shutdown
  BY <1>3, <1>8 DEF AdjustEventQueueTimes, AdvanceBegin, Restart, Dispatch, Shutdown
<1>9. CASE AdvanceEnd
  <2>1. timer' = timer
    BY <1>9 DEF AdvanceEnd
  <2>2. ASSUME NEW i \in DOMAIN queue', NEW t \in queue'[i].limit
        PROVE  timer' + slice' <= t
    <3>1. i \in DOMAIN queue /\ t = queue[i].time
      BY <1>9, <2>2, AdvanceEndFacts
    <3>2. /\ queue \in Seq(EventRecords) /\ DOMAIN queue = 1 .. Len(queue)
          /\ Len(queue) \in Nat
      BY DEF Typed
    <3>3. i \in Nat /\ 1 <= i /\ 1 \in DOMAIN queue /\ queue # <<>>
      BY <3>1, <3>2
    <3>4. queue[1].time \in Int /\ queue[i].time \in Int
      <4>1. queue[1] \in EventRecords /\ queue[i] \in EventRecords
        BY <3>1, <3>2, <3>3
      <4> QED
        BY <4>1 DEF EventRecords
    <3>5. queue[1].time <= queue[i].time
      BY <3>1, <3>3 DEF Ordered, TimeSorted
    <3>6. slice' \in 0 .. MaxSliceLength /\ slice' <= queue[1].time - timer
      BY <1>9, <3>3, LengthFacts
    <3> QED
      BY <1>1, <2>1, <3>1, <3>4, <3>5, <3>6
  <2> QED
    BY <2>2 DEF SliceEndsInTime
<1>10. CASE Load
  <2>1. /\ timer' = saved[1].clock[1] /\ slice' = saved[1].clock[2] /\ saved # <<>>
    BY <1>10 DEF Load
  <2>2. \A i \in DOMAIN queue' : \A t \in queue'[i].limit : timer' + slice' <= t
    BY <1>10, <2>1, LoadFacts DEF SavedOK
  <2> QED
    BY <2>2 DEF SliceEndsInTime
<1> QED
  BY <1>4, <1>5, <1>6, <1>7, <1>8, <1>9, <1>10 DEF Next

\* Where the clock is read in two ways, before and after a step, the roundings
\* only ever add to it.
LEMMA NextTicks ==
  ASSUME Typed, Phases, Rounded, SavedOK, [Next]_vars
  PROVE  Ticks' >= Ticks \/ pc = "off" \/ Load
<1> SUFFICES ASSUME pc # "off", ~Load PROVE Ticks' >= Ticks
  OBVIOUS
<1> DEFINE left == InCycles(downcount, factor)
<1>1. /\ timer \in Int /\ slice \in Int /\ downcount \in Int /\ factor \in Factors
      /\ MaxSliceLength \in Nat \ {0}
  BY TimingAssumption DEF Typed
<1>2. /\ \A c \in Int : CyclesToDowncount(c, factor) \in Int
      /\ \A c \in Nat : InCycles(CyclesToDowncount(c, factor), factor) <= c
      /\ \A d \in Int : InCycles(d, factor) \in Int
      /\ \A c, d \in Int : c <= d => InCycles(c, factor) <= InCycles(d, factor)
  BY <1>1, InCyclesFacts
<1>3. left \in Int /\ (pc = "slice" => left <= slice)
  BY <1>1, <1>2 DEF Rounded, InCycles, DowncountToCycles
<1>4. Ticks = IF sane THEN timer ELSE timer + slice - left
  BY DEF Ticks, InCycles, DowncountToCycles
<1>5. Ticks' = IF sane' THEN timer' ELSE timer' + slice' - InCycles(downcount', factor')
  BY DEF Ticks, InCycles, DowncountToCycles
<1>6. CASE UNCHANGED clock
  BY <1>1, <1>3, <1>4, <1>5, <1>6 DEF clock
<1>7. CASE \/ \E d \in OffThreadDelays, type \in Types : OffThreadRead(d, type)
           \/ OffThreadPush
           \/ \E type \in Types : RemoveEvent(type) \/ RemoveAllEvents(type)
           \/ \E ratio \in ClockRatios : AdjustEventQueueTimes(ratio)
           \/ Dispatch \/ Save \/ Shutdown \/ UNCHANGED vars
  BY <1>6, <1>7 DEF OffThreadRead, OffThreadPush, RemoveEvent, RemoveAllEvents,
     AdjustEventQueueTimes, Dispatch, Save, Shutdown, vars
<1>8. CASE Idle \/ \E n \in 1 .. MaxBlock : Execute(n)
  <2>1. /\ ~sane /\ UNCHANGED <<timer, slice, factor, sane>>
        /\ downcount' \in Int /\ downcount' <= downcount
    <3>1. CASE Idle
      BY <1>1, <3>1 DEF Idle
    <3>2. ASSUME NEW n \in 1 .. MaxBlock, Execute(n)
          PROVE  downcount' \in Int /\ downcount' <= downcount
      BY <1>1, <3>2, TimingAssumption DEF Execute
    <3> QED
      BY <1>8, <3>1, <3>2 DEF Execute
  <2>2. InCycles(downcount', factor) \in Int /\ InCycles(downcount', factor) <= left
    BY <1>1, <1>2, <2>1
  <2> HIDE DEF left
  <2> QED
    BY <1>1, <1>3, <1>4, <1>5, <2>1, <2>2
<1>9. CASE \/ \E n \in Delays : ForceExceptionCheck(n)
           \/ \E d \in Delays, type \in Types : ScheduleEvent(d, type)
  <2>1. UNCHANGED <<timer, factor, sane>>
    BY <1>9 DEF ForceExceptionCheck, ScheduleEvent
  <2>2. CASE sane
    BY <1>1, <1>4, <1>5, <2>1, <2>2
  <2>3. CASE ~sane
    <3>1. PICK n \in Delays : /\ slice' = Shortened(n).slice
                              /\ downcount' = Shortened(n).downcount
      BY <1>9, <2>3 DEF ForceExceptionCheck, ScheduleEvent
    <3>2. pc = "slice" /\ n \in Int
      BY <1>9, <2>3, TimingAssumption DEF ForceExceptionCheck, ScheduleEvent, OnCPU, Phases
    <3>3. /\ slice' \in Int /\ InCycles(downcount', factor) \in Int
          /\ slice - left <= slice' - InCycles(downcount', factor)
      BY <3>1, <3>2, ForceFacts, TimingAssumption DEF InCycles, DowncountToCycles
    <3> HIDE DEF left
    <3> QED
      BY <1>1, <1>3, <1>4, <1>5, <2>1, <2>3, <3>3
  <2> QED
    BY <2>2, <2>3
<1>10. CASE \E f \in Factors : AdvanceBegin(f)
  <2>1. sane' /\ timer' = timer + slice - left /\ pc = "slice"
    BY <1>10 DEF AdvanceBegin, InCycles, DowncountToCycles
  <2> HIDE DEF left
  <2> QED
    BY <1>1, <1>3, <1>4, <1>5, <2>1
<1>11. CASE AdvanceEnd
  <2>1. sane /\ ~sane' /\ timer' = timer /\ factor' = factor
    BY <1>11 DEF AdvanceEnd, Phases
  <2>2. slice' \in Nat /\ downcount' = CyclesToDowncount(slice', factor)
    BY <1>1, <1>11, LengthFacts
  <2>3. InCycles(downcount', factor) <= slice' /\ InCycles(downcount', factor) \in Int
    BY <1>2, <2>2
  <2> QED
    BY <1>1, <1>4, <1>5, <2>1, <2>2, <2>3
<1>12. CASE \E f \in Factors : Restart(f)
  BY <1>12 DEF Restart
<1> QED
  BY <1>7, <1>8, <1>9, <1>10, <1>11, <1>12 DEF Next
-----------------------------------------------------------------------------
LEMMA InitIInv == Init => IInv
<1> SUFFICES ASSUME NEW f \in Factors,
                    queue = <<>>, fifoId = 0, tsQueue = <<>>, offThread = <<>>,
                    timer = 0, slice = MaxSliceLength,
                    downcount = CyclesToDowncount(MaxSliceLength, f),
                    factor = f, sane = TRUE, pc = "slice", added = 0, saved = <<>>,
                    inOrder = TRUE
             PROVE  IInv
  BY DEF Init, StartUp
<1>1. MaxSliceLength \in Nat \ {0} /\ MaxEvents \in Nat
  BY TimingAssumption
<1>2. downcount \in Int /\ InCycles(downcount, factor) <= slice
  BY <1>1, InCyclesFacts
<1>3. queue \in Seq(EventRecords) /\ InOrder(queue, fifoId, added, inOrder)
  BY EmptyInOrder
<1>4. <<>> \in Seq(TsEvents) /\ Len(<<>>) = 0
  OBVIOUS
<1>5. Typed
  BY <1>1, <1>2, <1>3, <1>4 DEF Typed
<1>6. Ordered
  BY <1>3 DEF InOrder, Ordered
<1>7. Phases /\ SavedOK /\ SliceEndsInTime
  BY DEF Phases, SavedOK, SliceEndsInTime
<1>8. Rounded
  BY <1>2 DEF Rounded, InCycles, DowncountToCycles
<1> QED
  BY <1>5, <1>6, <1>7, <1>8 DEF IInv

LEMMA NextIInv == IInv /\ [Next]_vars => IInv'
<1> SUFFICES ASSUME Typed, Phases, Ordered, Rounded, SavedOK, SliceEndsInTime, [Next]_vars
             PROVE  IInv'
  BY DEF IInv
<1>1. Typed'
  BY NextTyped
<1>2. Ordered'
  BY NextQueue
<1>3. Phases' /\ Rounded'
  BY NextClock
<1>4. SavedOK' /\ SliceEndsInTime'
  BY NextSaved, NextSlice
<1> QED
  BY <1>1, <1>2, <1>3, <1>4 DEF IInv

LEMMA Invariance == Spec => []IInv
  BY InitIInv, NextIInv, PTL DEF Spec

\* The slice stays between 0 and MAX_SLICE_LENGTH whatever ScheduleEvent()
\* and ForceExceptionCheck() take off it, and the clock stays a number, for
\* any overclocking factors.
THEOREM TypeCorrect == Spec => []TypeOK
<1>1. ASSUME IInv PROVE TypeOK
  <2>1. /\ queue \in Seq(EventRecords) /\ added \in Nat /\ Len(tsQueue) \in Nat
        /\ Len(offThread) \in Nat /\ added + Len(tsQueue) + Len(offThread) <= MaxEvents
        /\ MaxEvents \in Nat
    BY <1>1, TimingAssumption DEF IInv, Typed
  <2>2. \A i \in DOMAIN queue : queue[i].time \in Int /\ queue[i].type \in Types
    <3>1. \A i \in DOMAIN queue : queue[i] \in EventRecords
      BY <2>1
    <3>2. \A r \in EventRecords : r.time \in Int /\ r.type \in Types
      BY DEF EventRecords
    <3> QED
      BY <3>1, <3>2
  <2>3. added \in 0 .. MaxEvents
    BY <2>1
  <2> QED
    BY <1>1, <2>2, <2>3 DEF IInv, Typed, TypeOK
<1> QED
  BY <1>1, Invariance, PTL

\* No slice runs past an event: ScheduleEvent() and Advance() cut it short in
\* time, for any overclocking factors and any savestate that is loaded.
THEOREM SliceIsShort == Spec => []SliceEndsInTime
<1>1. IInv => SliceEndsInTime
  BY DEF IInv
<1> QED
  BY <1>1, Invariance, PTL

\* The front of the queue is the earliest event and, of those, the one that
\* was added first, also among events of other threads and of the CPU thread.
THEOREM OrderIsKept == Spec => []FirstComesFirst
<1>1. ASSUME IInv PROVE FirstComesFirst
  <2> SUFFICES ASSUME inOrder, NEW i \in DOMAIN queue
               PROVE  \/ queue[1].time < queue[i].time
                      \/ queue[1].time = queue[i].time /\ queue[1].nth <= queue[i].nth
    BY DEF FirstComesFirst
  <2>1. Sorted(queue) /\ Numbered(queue, fifoId, added)
    BY <1>1 DEF IInv, Ordered
  <2>2. queue \in Seq(EventRecords)
    BY <1>1 DEF IInv, Typed
  <2>3. 1 \in DOMAIN queue /\ 1 <= i
    BY <2>2
  <2>4. queue[1] \in EventRecords /\ queue[i] \in EventRecords
    BY <2>2, <2>3
  <2>5. ~Before(queue[i], queue[1])
    BY <2>1, <2>3 DEF Sorted
  <2>6. /\ queue[1].time \in Int /\ queue[i].time \in Int
        /\ queue[1].fifo \in Nat /\ queue[i].fifo \in Nat
    BY <2>4 DEF EventRecords
  <2>7. \/ queue[1].time < queue[i].time
        \/ queue[1].time = queue[i].time /\ queue[1].fifo <= queue[i].fifo
    BY <2>5, <2>6 DEF Before
  <2>8. queue[1].fifo <= queue[i].fifo => queue[1].nth <= queue[i].nth
    BY <2>1, <2>3 DEF Numbered
  <2> QED
    BY <2>7, <2>8
<1> QED
  BY <1>1, Invariance, PTL

\* The emulated clock never goes back, except by a load and a restart: the
\* roundings of the overclock never give time back.
THEOREM ClockIsMonotone == Spec => TicksNeverGoBack
<1>1. IInv /\ [Next]_vars => [Ticks' >= Ticks \/ pc = "off" \/ Load]_vars
  BY NextTicks DEF IInv
<1> QED
  BY <1>1, Invariance, PTL DEF Spec, TicksNeverGoBack
=============================================================================
