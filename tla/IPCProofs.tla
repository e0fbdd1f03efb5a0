------------------------------ MODULE IPCProofs ------------------------------
(***************************************************************************)
(* For any requests, devices and delays: every reply is in one place, and  *)
(* those to commands are in the order of their execution.                  *)
(*                                                                         *)
(* A line is what waits in a queue and behind it in the events, as a       *)
(* function from places to messages.  What happens to the queues and       *)
(* events moves the places of a line, drops the first or adds one; the     *)
(* invariant is about the order of the places, never about their numbers.  *)
(***************************************************************************)
EXTENDS IPC, FiniteSetTheorems, WellFoundedInduction, TLAPS

\* The messages of A are in the line, each of them once.
Once(g, A) == IsInjective(g) /\ Range(g) = A

\* The commands of the line are those of d, in its order.
Right(g, d) ==
  /\ d \in Seq(Commands)
  /\ IsInjective(d) /\ Range(d) = Range(g) \cap Commands
  /\ \A i, j \in DOMAIN d : \A p, q \in DOMAIN g :
       i < j /\ g[p] = d[i] /\ g[q] = d[j] => p < q

\* The events are in the order in which they come.
Sorted(events) == \A i, j \in DOMAIN events : i <= j => events[i].left <= events[j].left

States == {"idle", "sent", "open", "answered", "orphan"}

Answered(state) == {r \in Requests : state[r] \in {"answered", "orphan"}}
Sent(state) == {r \in Requests : state[r] = "sent"}

\* ReplyToCommand() schedules no reply after last.
InTime(events, last) ==
  \A i \in DOMAIN events :
    events[i].what = "reply" /\ events[i].msg \in Commands => events[i].left <= last

\* Replies and requests are in one place each and agree with the history; the
\* requests of exec are being executed.
Good(replies, requests, events, state, last, due, exec) ==
  /\ replies \in Seq(Requests) /\ requests \in Seq(Requests)
  /\ events \in Seq(IPCEvents) /\ Sorted(events)
  /\ state \in [Requests -> States] /\ last \in Nat
  /\ InTime(events, last)
  /\ Once(Line(replies, events, "reply"), Answered(state))
  /\ Right(Line(replies, events, "reply"), due)
  /\ Once(Line(requests, events, "request"), Sent(state) \ exec)

\* The replies in the mailbox and in the queue behind it.
Behind(s) == IF s.y1 THEN <<s.arm>> \o s.replies ELSE s.replies

\* The invariant of a record, as ExecuteIPCCommand() gets it: the requests of
\* exec were taken from the queue and are still to be dealt with.
Inv(s, exec) ==
  /\ s \in Kernels
  /\ s.y1 => s.arm \in Requests
  /\ Good(Behind(s), s.requests, s.events, s.state, s.last, s.due, exec)

IInv == Inv(k, {})
-----------------------------------------------------------------------------
(***************************************************************************)
(* Lines.                                                                  *)
(***************************************************************************)
Without(g, x) == [p \in DOMAIN g \ {x} |-> g[p]]

\* f gives the place in g of every place of h.
Moves(f, h, g) ==
  /\ \A p \in DOMAIN h : f[p] \in DOMAIN g /\ h[p] = g[f[p]]
  /\ \A p, q \in DOMAIN h : p < q => f[p] < f[q]
  /\ \A y \in DOMAIN g : \E p \in DOMAIN h : f[p] = y

\* Only the numbers of the places differ.
Moved(h, g) == \E f : Moves(f, h, g)

\* A line that was moved holds the same messages,
LEMMA MovedOnce ==
  ASSUME NEW g, NEW h, DOMAIN g \subseteq Nat, DOMAIN h \subseteq Nat, Moved(h, g),
         NEW A, Once(g, A)
  PROVE  Once(h, A)
<1>1. PICK f : Moves(f, h, g)
  BY DEF Moved
<1>2. IsInjective(h)
  <2> SUFFICES ASSUME NEW p \in DOMAIN h, NEW q \in DOMAIN h, h[p] = h[q] PROVE p = q
    BY DEF IsInjective
  <2>1. f[p] = f[q]
    BY <1>1 DEF Moves, Once, IsInjective
  <2>2. f[p] \in Nat /\ p \in Nat /\ q \in Nat
    BY <1>1 DEF Moves
  <2>3. ~(p < q) /\ ~(q < p)
    BY <1>1, <2>1, <2>2 DEF Moves
  <2> QED
    BY <2>2, <2>3
<1>3. Range(h) = Range(g)
  BY <1>1 DEF Moves, Range
<1> QED
  BY <1>2, <1>3 DEF Once

\* in the same order.
LEMMA MovedRight ==
  ASSUME NEW g, NEW h, DOMAIN g \subseteq Nat, DOMAIN h \subseteq Nat, Moved(h, g),
         NEW d, Right(g, d)
  PROVE  Right(h, d)
<1>1. PICK f : Moves(f, h, g)
  BY DEF Moved
<1>2. Range(h) = Range(g)
  BY <1>1 DEF Moves, Range
<1>3. ASSUME NEW i \in DOMAIN d, NEW j \in DOMAIN d, NEW p \in DOMAIN h, NEW q \in DOMAIN h,
             i < j, h[p] = d[i], h[q] = d[j]
      PROVE  p < q
  <2>1. f[p] \in DOMAIN g /\ f[q] \in DOMAIN g /\ g[f[p]] = d[i] /\ g[f[q]] = d[j]
    BY <1>1, <1>3 DEF Moves
  <2>2. f[p] < f[q]
    BY <1>3, <2>1 DEF Right
  <2>3. f[p] \in Nat /\ f[q] \in Nat /\ p \in Nat /\ q \in Nat
    BY <2>1
  <2>4. ~(q < p) /\ p # q
    BY <1>1, <2>2, <2>3 DEF Moves
  <2> QED
    BY <2>3, <2>4
<1> QED
  BY <1>2, <1>3 DEF Right

\* A line with a new place.
LEMMA AddedOnce ==
  ASSUME NEW g, NEW x \in DOMAIN g, NEW A, Once(Without(g, x), A), g[x] \notin A
  PROVE  Once(g, A \cup {g[x]})
<1> DEFINE h == Without(g, x)
<1>1. DOMAIN h = DOMAIN g \ {x} /\ \A p \in DOMAIN h : h[p] = g[p]
  BY DEF Without
<1>2. Range(h) = A /\ IsInjective(h)
  BY DEF Once
<1> HIDE DEF h
<1>3. \A p \in DOMAIN g : p # x => g[p] \in A
  BY <1>1, <1>2 DEF Range
<1>4. \A a \in A : \E p \in DOMAIN g : g[p] = a
  BY <1>1, <1>2 DEF Range
<1>5. Range(g) = A \cup {g[x]}
  BY <1>3, <1>4 DEF Range
<1>6. IsInjective(g)
  BY <1>1, <1>2, <1>3 DEF IsInjective
<1> QED
  BY <1>5, <1>6 DEF Once

\* A reply to a command comes after all the others.
LEMMA AddedRight ==
  ASSUME NEW g, DOMAIN g \subseteq Nat, NEW x \in DOMAIN g, NEW d,
         Right(Without(g, x), d), g[x] \notin Range(Without(g, x))
  PROVE  /\ g[x] \notin Commands => Right(g, d)
         /\ g[x] \in Commands /\ (\A y \in DOMAIN g : g[y] \in Commands => y <= x)
              => Right(g, Append(d, g[x]))
<1> DEFINE h == Without(g, x)
           r == g[x]
<1>1. DOMAIN h = DOMAIN g \ {x} /\ \A p \in DOMAIN h : h[p] = g[p]
  BY DEF Without
<1>2. /\ d \in Seq(Commands)
      /\ \A i, j \in DOMAIN d : d[i] = d[j] => i = j
      /\ Range(d) = Range(h) \cap Commands
      /\ \A i, j \in DOMAIN d : \A p, q \in DOMAIN h :
           i < j /\ h[p] = d[i] /\ h[q] = d[j] => p < q
  BY DEF Right, IsInjective
<1>3. r \notin Range(h)
  OBVIOUS
<1> HIDE DEF h
<1>4. Range(g) = Range(h) \cup {r}
  BY <1>1 DEF Range
<1>5. Len(d) \in Nat /\ DOMAIN d = 1 .. Len(d)
  BY <1>2
<1>6. \A i \in DOMAIN d : d[i] # r /\ d[i] \in Commands /\ d[i] \in Range(h)
  <2>1. \A i \in DOMAIN d : d[i] \in Range(d)
    BY DEF Range
  <2> QED
    BY <1>2, <1>3, <2>1
<1>7. \A p \in DOMAIN g : g[p] # r => p \in DOMAIN h /\ h[p] = g[p]
  BY <1>1
<1>8. ASSUME r \notin Commands PROVE Right(g, d)
  <2>1. Range(d) = Range(g) \cap Commands
    BY <1>2, <1>4, <1>8
  <2>2. \A i, j \in DOMAIN d : \A p, q \in DOMAIN g :
          i < j /\ g[p] = d[i] /\ g[q] = d[j] => p < q
    BY <1>2, <1>6, <1>7
  <2> QED
    BY <1>2, <2>1, <2>2 DEF Right, IsInjective
<1>9. ASSUME r \in Commands, \A y \in DOMAIN g : g[y] \in Commands => y <= x
      PROVE  Right(g, Append(d, r))
  <2> DEFINE e == Append(d, r)
  <2>1. /\ e \in Seq(Commands) /\ DOMAIN e = 1 .. Len(d) + 1
        /\ \A i \in 1 .. Len(d) : e[i] = d[i]
        /\ e[Len(d) + 1] = r
    BY <1>2, <1>9
  <2> HIDE DEF e
  <2>2. IsInjective(e)
    BY <1>2, <1>5, <1>6, <2>1 DEF IsInjective
  <2>3. Range(e) = Range(d) \cup {r}
    <3>1. DOMAIN e = DOMAIN d \cup {Len(d) + 1}
      BY <1>5, <2>1
    <3> QED
      BY <1>5, <2>1, <3>1 DEF Range
  <2>4. Range(e) = Range(g) \cap Commands
    BY <1>2, <1>4, <1>9, <2>3
  <2>5. ASSUME NEW i \in DOMAIN e, NEW j \in DOMAIN e, NEW p \in DOMAIN g, NEW q \in DOMAIN g,
               i < j, g[p] = e[i], g[q] = e[j]
        PROVE  p < q
    <3>1. i \in DOMAIN d /\ e[i] = d[i]
      BY <1>5, <2>1, <2>5
    <3>2. p \in DOMAIN h /\ h[p] = d[i]
      BY <1>6, <1>7, <2>5, <3>1
    <3>3. CASE j \in DOMAIN d
      <4>1. e[j] = d[j]
        BY <1>5, <2>1, <3>3
      <4>2. q \in DOMAIN h /\ h[q] = d[j]
        BY <1>6, <1>7, <2>5, <3>3, <4>1
      <4> QED
        BY <1>2, <2>5, <3>1, <3>2, <3>3, <4>2
    <3>4. CASE j \notin DOMAIN d
      <4>1. j = Len(d) + 1
        BY <1>5, <2>1, <3>4
      <4>2. g[q] = r
        BY <2>1, <2>5, <4>1
      <4>3. q = x
        <5>1. q \in DOMAIN h => h[q] = g[q] /\ h[q] \in Range(h)
          BY <1>1 DEF Range
        <5> QED
          BY <1>1, <1>3, <4>2, <5>1
      <4>4. p # x /\ p <= x
        BY <1>1, <1>6, <1>9, <3>1, <3>2
      <4> QED
        BY <4>3, <4>4
    <3> QED
      BY <3>3, <3>4
  <2>6. Right(g, e)
    BY <2>1, <2>2, <2>4, <2>5 DEF Right
  <2> QED
    BY <2>6 DEF e
<1> QED
  BY <1>8, <1>9

\* A line without its first place.
LEMMA DroppedOnce ==
  ASSUME NEW g, NEW x \in DOMAIN g, NEW A, Once(g, A)
  PROVE  Once(Without(g, x), A \ {g[x]})
<1> DEFINE h == Without(g, x)
<1>1. DOMAIN h = DOMAIN g \ {x} /\ \A p \in DOMAIN h : h[p] = g[p]
  BY DEF Without
<1>2. Range(g) = A /\ \A p, q \in DOMAIN g : g[p] = g[q] => p = q
  BY DEF Once, IsInjective
<1> HIDE DEF h
<1>3. Range(h) = A \ {g[x]}
  <2>1. \A a \in A : \E p \in DOMAIN g : g[p] = a
    BY <1>2 DEF Range
  <2>2. \A p \in DOMAIN g : g[p] \in A
    BY <1>2 DEF Range
  <2>3. \A a \in A \ {g[x]} : \E p \in DOMAIN h : h[p] = a
    BY <1>1, <2>1
  <2>4. \A p \in DOMAIN h : h[p] \in A \ {g[x]}
    BY <1>1, <1>2, <2>2
  <2> QED
    BY <2>3, <2>4 DEF Range
<1>4. IsInjective(h)
  BY <1>1, <1>2 DEF IsInjective
<1>5. Once(h, A \ {g[x]})
  BY <1>3, <1>4 DEF Once
<1> QED
  BY <1>5 DEF h

\* The reply that is dropped is not one that should come later.
LEMMA DroppedRight ==
  ASSUME NEW g, DOMAIN g \subseteq Nat, NEW x \in DOMAIN g, IsInjective(g),
         \A y \in DOMAIN g : x <= y, NEW d, Right(g, d)
  PROVE  Right(Without(g, x), IF d # <<>> /\ d[1] = g[x] THEN Tail(d) ELSE d)
<1> DEFINE h == Without(g, x)
           r == g[x]
<1>1. DOMAIN h = DOMAIN g \ {x} /\ \A p \in DOMAIN h : h[p] = g[p]
  BY DEF Without
<1>2. /\ d \in Seq(Commands)
      /\ \A i, j \in DOMAIN d : d[i] = d[j] => i = j
      /\ Range(d) = Range(g) \cap Commands
      /\ \A i, j \in DOMAIN d : \A p, q \in DOMAIN g :
           i < j /\ g[p] = d[i] /\ g[q] = d[j] => p < q
  BY DEF Right, IsInjective
<1>3. Range(h) = Range(g) \ {r}
  <2>1. Once(g, Range(g))
    BY DEF Once
  <2> QED
    BY <2>1, DroppedOnce DEF Once
<1> HIDE DEF h
<1>4. Len(d) \in Nat /\ DOMAIN d = 1 .. Len(d) /\ (d # <<>> <=> Len(d) > 0)
  BY <1>2
<1>5. ASSUME r \in Commands PROVE d # <<>> /\ d[1] = r
  <2>1. r \in Range(d)
    BY <1>2, <1>5 DEF Range
  <2>2. PICK i \in DOMAIN d : d[i] = r
    BY <2>1 DEF Range
  <2>3. 1 \in DOMAIN d /\ i \in Nat /\ 1 <= i
    BY <1>4
  <2>4. ASSUME i # 1 PROVE FALSE
    <3>1. 1 < i
      BY <2>3, <2>4
    <3>2. d[1] \in Range(g)
      BY <1>2, <2>3 DEF Range
    <3>3. PICK y \in DOMAIN g : g[y] = d[1]
      BY <3>2 DEF Range
    <3>4. y < x
      BY <1>2, <2>2, <2>3, <3>1, <3>3
    <3> QED
      BY <3>3, <3>4
  <2> QED
    BY <1>4, <2>2, <2>3, <2>4
<1>6. ASSUME d # <<>>, d[1] = r PROVE Right(h, Tail(d))
  <2> DEFINE e == Tail(d)
  <2>1. /\ e \in Seq(Commands) /\ DOMAIN e = 1 .. Len(d) - 1
        /\ \A i \in 1 .. Len(d) - 1 : e[i] = d[i + 1]
    BY <1>2, <1>4, <1>6
  <2> HIDE DEF e
  <2>2. 1 \in DOMAIN d /\ \A i \in DOMAIN e : i \in Nat /\ i + 1 \in DOMAIN d /\ i + 1 # 1
    BY <1>4, <1>6, <2>1
  <2>3. IsInjective(e)
    BY <1>2, <1>4, <2>1, <2>2 DEF IsInjective
  <2>4. Range(e) = Range(d) \ {r}
    <3>1. \A i \in DOMAIN d : i # 1 => i - 1 \in DOMAIN e /\ e[i - 1] = d[i]
      BY <1>4, <2>1
    <3>2. \A i \in DOMAIN e : e[i] # r /\ e[i] = d[i + 1]
      BY <1>2, <1>6, <2>1, <2>2
    <3> QED
      BY <1>6, <2>2, <3>1, <3>2 DEF Range
  <2>5. Range(e) = Range(h) \cap Commands
    BY <1>2, <1>3, <2>4
  <2>6. ASSUME NEW i \in DOMAIN e, NEW j \in DOMAIN e, NEW p \in DOMAIN h, NEW q \in DOMAIN h,
               i < j, h[p] = e[i], h[q] = e[j]
        PROVE  p < q
    <3>1. g[p] = d[i + 1] /\ g[q] = d[j + 1] /\ p \in DOMAIN g /\ q \in DOMAIN g
      BY <1>1, <2>1, <2>6
    <3>2. i + 1 \in DOMAIN d /\ j + 1 \in DOMAIN d /\ i + 1 < j + 1
      BY <2>2, <2>6
    <3> QED
      BY <1>2, <3>1, <3>2
  <2>7. Right(h, e)
    BY <2>1, <2>3, <2>5, <2>6 DEF Right
  <2> QED
    BY <2>7 DEF e
<1>7. ASSUME ~(d # <<>> /\ d[1] = r) PROVE Right(h, d)
  <2>1. r \notin Commands
    BY <1>5, <1>7
  <2>2. Range(d) = Range(h) \cap Commands
    BY <1>2, <1>3, <2>1
  <2>3. \A i, j \in DOMAIN d : \A p, q \in DOMAIN h :
          i < j /\ h[p] = d[i] /\ h[q] = d[j] => p < q
    BY <1>1, <1>2
  <2> QED
    BY <1>2, <2>2, <2>3 DEF Right, IsInjective
<1> QED
  BY <1>6, <1>7 DEF h
-----------------------------------------------------------------------------
(***************************************************************************)
(* The events.                                                             *)
(***************************************************************************)
\* The fields of an event.
LEMMA EventFacts ==
  ASSUME NEW e \in IPCEvents
  PROVE  /\ e.left \in Nat
         /\ e.what \in {"request", "reply", "ack", "ints"}
         /\ e.what \in {"request", "reply"} => e.msg \in Requests
         /\ e.what \in {"ack", "ints"} => e.msg = Dummy
  BY DEF IPCEvents

LEMMA EventTypes ==
  ASSUME NEW left \in Nat
  PROVE  /\ \A what \in {"request", "reply"}, msg \in Requests :
              Event(left, what, msg) \in IPCEvents
         /\ \A what \in {"ack", "ints"} : Event(left, what, Dummy) \in IPCEvents
         /\ \A what, msg : /\ Event(left, what, msg).left = left
                           /\ Event(left, what, msg).what = what
                           /\ Event(left, what, msg).msg = msg
  BY DEF IPCEvents, Event

LEMMA EventsFacts ==
  ASSUME NEW events \in Seq(IPCEvents)
  PROVE  /\ DOMAIN events = 1 .. Len(events) /\ Len(events) \in Nat
         /\ \A i \in DOMAIN events :
              /\ events[i] \in IPCEvents /\ events[i].left \in Nat
              /\ events[i].what \in {"request", "reply"} => events[i].msg \in Requests
<1>1. \A i \in DOMAIN events : events[i] \in IPCEvents
  OBVIOUS
<1> QED
  BY <1>1, EventFacts

\* How many events go before new ones.
Place(events, left) == Cardinality({i \in DOMAIN events : events[i].left <= left})

LEMMA PlaceFacts ==
  ASSUME NEW events \in Seq(IPCEvents), NEW left \in Nat, Sorted(events)
  PROVE  /\ Place(events, left) \in 0 .. Len(events)
         /\ \A i \in DOMAIN events : i <= Place(events, left) <=> events[i].left <= left
<1> DEFINE S == {i \in DOMAIN events : events[i].left <= left}
           n == Cardinality(S)
<1>1. DOMAIN events = 1 .. Len(events) /\ Len(events) \in Nat
      /\ \A i \in DOMAIN events : events[i].left \in Nat
  BY EventsFacts
<1>2. IsFiniteSet(1 .. Len(events)) /\ Cardinality(1 .. Len(events)) = Len(events)
  BY <1>1, FS_Interval
<1>3. S \subseteq 1 .. Len(events)
  BY <1>1
<1>4. IsFiniteSet(S) /\ n \in Nat /\ n <= Len(events)
  BY <1>2, <1>3, FS_Subset, FS_CardinalityType
<1>5. ASSUME NEW i \in DOMAIN events, events[i].left <= left PROVE i <= n
  <2>1. 1 .. i \subseteq S
    BY <1>1, <1>5 DEF Sorted
  <2>2. IsFiniteSet(1 .. i) /\ Cardinality(1 .. i) = i
    <3>1. i \in Int /\ i >= 1 /\ 1 \in Int
      BY <1>1
    <3>2. IsFiniteSet(1 .. i) /\ Cardinality(1 .. i) = IF 1 > i THEN 0 ELSE i - 1 + 1
      BY <3>1, FS_Interval
    <3> QED
      BY <3>1, <3>2
  <2> QED
    BY <1>4, <2>1, <2>2, FS_Subset
<1>6. ASSUME NEW i \in DOMAIN events, ~(events[i].left <= left) PROVE ~(i <= n)
  <2>1. S \subseteq 1 .. (i - 1)
    <3>1. ASSUME NEW j \in S PROVE j < i
      BY <1>1, <1>6 DEF Sorted
    <3> QED
      BY <1>1, <3>1
  <2>2. IsFiniteSet(1 .. (i - 1)) /\ Cardinality(1 .. (i - 1)) = i - 1
    <3>1. i - 1 \in Int /\ i - 1 >= 0
      BY <1>1
    <3> QED
      BY <3>1, FS_Interval
  <2>3. n <= i - 1
    BY <2>1, <2>2, FS_Subset
  <2> QED
    BY <1>1, <1>4, <2>3
<1> HIDE DEF S
<1>7. Place(events, left) = n
  BY DEF Place, S
<1> HIDE DEF n
<1> QED
  BY <1>1, <1>4, <1>5, <1>6, <1>7

\* The parts of the events after new ones came.
LEMMA InsertFacts ==
  ASSUME NEW events \in Seq(IPCEvents), NEW left \in Nat, Sorted(events),
         NEW batch \in Seq(IPCEvents)
  PROVE  LET n == Place(events, left)
             m == Len(batch)
             new == Insert(events, left, batch)
         IN  /\ n \in 0 .. Len(events)
             /\ new \in Seq(IPCEvents) /\ Len(new) = Len(events) + m
             /\ \A i \in 1 .. n : new[i] = events[i]
             /\ \A i \in 1 .. m : new[n + i] = batch[i]
             /\ \A i \in n + 1 .. Len(events) : new[i + m] = events[i]
<1> DEFINE n == Place(events, left)
           m == Len(batch)
           a == SubSeq(events, 1, n)
           b == SubSeq(events, n + 1, Len(events))
<1>1. n \in 0 .. Len(events) /\ Len(events) \in Nat /\ m \in Nat
  BY PlaceFacts
<1> HIDE DEF n
<1>2. a \in Seq(IPCEvents) /\ Len(a) = n /\ \A i \in 1 .. n : a[i] = events[i]
  BY <1>1
<1>3. /\ b \in Seq(IPCEvents) /\ Len(b) = Len(events) - n
      /\ \A i \in 1 .. Len(events) - n : b[i] = events[n + i]
  BY <1>1
<1>4. Insert(events, left, batch) = a \o batch \o b
  BY DEF Insert, Place, n
<1> HIDE DEF a, b
<1> DEFINE c == a \o batch
<1>5. /\ c \in Seq(IPCEvents) /\ Len(c) = n + m
      /\ \A i \in 1 .. n : c[i] = a[i]
      /\ \A i \in 1 .. m : c[n + i] = batch[i]
  BY <1>1, <1>2
<1>6. Insert(events, left, batch) = c \o b
  BY <1>4
<1> HIDE DEF c, m
<1>7. /\ c \o b \in Seq(IPCEvents) /\ Len(c \o b) = Len(events) + m
      /\ \A i \in 1 .. n + m : (c \o b)[i] = c[i]
      /\ \A i \in 1 .. Len(events) - n : (c \o b)[(n + m) + i] = b[i]
  <2>1. /\ c \o b \in Seq(IPCEvents) /\ Len(c \o b) = Len(c) + Len(b)
        /\ \A j \in 1 .. Len(c) + Len(b) :
             (c \o b)[j] = IF j <= Len(c) THEN c[j] ELSE b[j - Len(c)]
    BY <1>3, <1>5
  <2>2. ASSUME NEW i \in 1 .. Len(events) - n PROVE (c \o b)[(n + m) + i] = b[i]
    <3> DEFINE j == (n + m) + i
    <3>1. j \in 1 .. Len(c) + Len(b) /\ ~(j <= Len(c)) /\ j - Len(c) = i
      BY <1>1, <1>3, <1>5
    <3> HIDE DEF j
    <3>2. (c \o b)[j] = b[j - Len(c)]
      BY <2>1, <3>1
    <3> QED
      BY <3>1, <3>2 DEF j
  <2>3. /\ Len(c) + Len(b) = Len(events) + m
        /\ \A i \in 1 .. n + m : i \in 1 .. Len(c) + Len(b) /\ i <= Len(c)
    BY <1>1, <1>3, <1>5
  <2> QED
    BY <2>1, <2>2, <2>3
<1>8. \A i \in 1 .. n : (c \o b)[i] = events[i]
  BY <1>1, <1>2, <1>5, <1>7
<1>9. \A i \in 1 .. m : (c \o b)[n + i] = batch[i]
  BY <1>1, <1>5, <1>7
<1>10. ASSUME NEW i \in n + 1 .. Len(events) PROVE (c \o b)[i + m] = events[i]
  <2>1. i - n \in 1 .. Len(events) - n /\ (n + m) + (i - n) = i + m /\ n + (i - n) = i
    BY <1>1
  <2>2. (c \o b)[(n + m) + (i - n)] = b[i - n] /\ b[i - n] = events[n + (i - n)]
    BY <1>3, <1>7, <2>1
  <2> QED
    BY <2>1, <2>2
<1> QED
  BY <1>1, <1>6, <1>7, <1>8, <1>9, <1>10 DEF n, m

\* Every event is an old one or a new one.
LEMMA InsertCases ==
  ASSUME NEW events \in Seq(IPCEvents), NEW left \in Nat, Sorted(events),
         NEW batch \in Seq(IPCEvents),
         NEW i \in 1 .. Len(events) + Len(batch)
  PROVE  LET n == Place(events, left)
             m == Len(batch)
             new == Insert(events, left, batch)
         IN  \/ i \in 1 .. n /\ new[i] = events[i]
             \/ i > n /\ i - n \in 1 .. m /\ new[i] = batch[i - n]
             \/ i - m \in n + 1 .. Len(events) /\ new[i] = events[i - m]
<1> DEFINE n == Place(events, left)
           m == Len(batch)
           new == Insert(events, left, batch)
<1>1. /\ n \in 0 .. Len(events)
      /\ \A j \in 1 .. n : new[j] = events[j]
      /\ \A j \in 1 .. m : new[n + j] = batch[j]
      /\ \A j \in n + 1 .. Len(events) : new[j + m] = events[j]
  BY InsertFacts
<1>2. Len(events) \in Nat /\ m \in Nat
  OBVIOUS
<1> HIDE DEF n, m, new
<1>3. CASE i <= n
  BY <1>1, <1>2, <1>3 DEF n, m, new
<1>4. CASE i > n /\ i <= n + m
  <2>1. i - n \in 1 .. m /\ n + (i - n) = i
    BY <1>1, <1>2, <1>4 DEF m
  <2>2. new[n + (i - n)] = batch[i - n]
    BY <1>1, <2>1
  <2>3. i > n /\ i - n \in 1 .. m /\ new[i] = batch[i - n]
    BY <1>4, <2>1, <2>2
  <2> QED
    BY <2>3 DEF n, m, new
<1>5. CASE i > n + m
  <2>1. i - m \in n + 1 .. Len(events) /\ (i - m) + m = i
    BY <1>1, <1>2, <1>5 DEF m
  <2>2. new[(i - m) + m] = events[i - m]
    BY <1>1, <2>1
  <2>3. i - m \in n + 1 .. Len(events) /\ new[i] = events[i - m]
    BY <2>1, <2>2
  <2> QED
    BY <2>3 DEF n, m, new
<1> QED
  BY <1>1, <1>2, <1>3, <1>4, <1>5

\* The events stay in the order in which they come.
LEMMA InsertSorts ==
  ASSUME NEW events \in Seq(IPCEvents), NEW left \in Nat, Sorted(events),
         NEW batch \in Seq(IPCEvents), \A i \in DOMAIN batch : batch[i].left = left
  PROVE  Sorted(Insert(events, left, batch))
<1> DEFINE n == Place(events, left)
           m == Len(batch)
           new == Insert(events, left, batch)
<1>1. new \in Seq(IPCEvents) /\ Len(new) = Len(events) + m
  BY InsertFacts
<1>2. /\ n \in 0 .. Len(events)
      /\ \A i \in DOMAIN events : i <= n <=> events[i].left <= left
  BY PlaceFacts
<1>3. /\ DOMAIN events = 1 .. Len(events) /\ Len(events) \in Nat
      /\ \A i \in DOMAIN events : events[i].left \in Nat
      /\ m \in Nat /\ DOMAIN batch = 1 .. m
  BY EventsFacts
<1>4. \A i \in 1 .. Len(events) + m :
        \/ i \in 1 .. n /\ new[i] = events[i]
        \/ i > n /\ i - n \in 1 .. m /\ new[i] = batch[i - n]
        \/ i - m \in n + 1 .. Len(events) /\ new[i] = events[i - m]
  BY InsertCases
<1>5. DOMAIN new = 1 .. Len(events) + m
  BY <1>1, <1>3
<1> HIDE DEF n, m, new
<1>6. ASSUME NEW i \in 1 .. Len(events) + m, NEW j \in 1 .. Len(events) + m, i <= j
      PROVE  new[i].left <= new[j].left
  <2>1. \/ i \in 1 .. n /\ new[i] = events[i]
        \/ i > n /\ i - n \in 1 .. m /\ new[i] = batch[i - n]
        \/ i - m \in n + 1 .. Len(events) /\ new[i] = events[i - m]
    BY <1>4
  <2>2. \/ j \in 1 .. n /\ new[j] = events[j]
        \/ j > n /\ j - n \in 1 .. m /\ new[j] = batch[j - n]
        \/ j - m \in n + 1 .. Len(events) /\ new[j] = events[j - m]
    BY <1>4
  <2>3. CASE i \in 1 .. n /\ new[i] = events[i]
    <3>1. i \in DOMAIN events /\ events[i].left <= left
      BY <1>2, <1>3, <2>3
    <3>2. CASE j \in 1 .. n /\ new[j] = events[j]
      BY <1>2, <1>3, <1>6, <2>3, <3>1, <3>2 DEF Sorted
    <3>3. CASE j > n /\ j - n \in 1 .. m /\ new[j] = batch[j - n]
      BY <1>3, <2>3, <3>1, <3>3
    <3>4. CASE j - m \in n + 1 .. Len(events) /\ new[j] = events[j - m]
      <4>1. j - m \in DOMAIN events /\ i <= j - m
        BY <1>2, <1>3, <2>3, <3>4
      <4> QED
        BY <2>3, <3>1, <3>4, <4>1 DEF Sorted
    <3> QED
      BY <2>2, <3>2, <3>3, <3>4
  <2>4. CASE i > n /\ i - n \in 1 .. m /\ new[i] = batch[i - n]
    <3>1. new[i].left = left
      BY <1>3, <2>4
    <3>2. CASE j > n /\ j - n \in 1 .. m /\ new[j] = batch[j - n]
      BY <1>3, <3>1, <3>2
    <3>3. CASE j - m \in n + 1 .. Len(events) /\ new[j] = events[j - m]
      <4>1. j - m \in DOMAIN events /\ ~(j - m <= n)
        BY <1>2, <1>3, <3>3
      <4>2. ~(events[j - m].left <= left) /\ events[j - m].left \in Nat
        BY <1>2, <1>3, <4>1
      <4> QED
        BY <3>1, <3>3, <4>2
    <3>4. ~(j \in 1 .. n)
      BY <1>2, <1>3, <1>6, <2>4
    <3> QED
      BY <2>2, <3>2, <3>3, <3>4
  <2>5. CASE i - m \in n + 1 .. Len(events) /\ new[i] = events[i - m]
    <3>1. j > n + m
      BY <1>2, <1>3, <1>6, <2>5
    <3>2. j - m \in n + 1 .. Len(events) /\ new[j] = events[j - m]
      BY <1>2, <1>3, <2>2, <3>1
    <3>3. i - m \in DOMAIN events /\ j - m \in DOMAIN events /\ i - m <= j - m
      BY <1>2, <1>3, <1>6, <2>5, <3>2
    <3> QED
      BY <2>5, <3>2, <3>3 DEF Sorted
  <2> QED
    BY <2>1, <2>3, <2>4, <2>5
<1>7. Sorted(new)
  BY <1>5, <1>6 DEF Sorted
<1> QED
  BY <1>7 DEF new

LEMMA TailSorted ==
  ASSUME NEW events \in Seq(IPCEvents), Sorted(events), events # <<>>
  PROVE  Tail(events) \in Seq(IPCEvents) /\ Sorted(Tail(events))
<1>1. /\ Tail(events) \in Seq(IPCEvents) /\ DOMAIN Tail(events) = 1 .. Len(events) - 1
      /\ \A i \in 1 .. Len(events) - 1 : Tail(events)[i] = events[i + 1]
      /\ DOMAIN events = 1 .. Len(events) /\ Len(events) \in Nat
  OBVIOUS
<1> QED
  BY <1>1 DEF Sorted

\* Every set of numbers has a least one.
LEMMA LeastNatural ==
  ASSUME NEW T, T \subseteq Nat, T # {}
  PROVE  \E x \in T : \A y \in T : x <= y
<1>1. PICK x \in T : \A y \in T : ~ (<<y, x>> \in OpToRel(<, Nat))
  BY WFMin, NatLessThanWellFounded
<1>2. ASSUME NEW y \in T, y < x PROVE <<y, x>> \in OpToRel(<, Nat)
  BY <1>2 DEF OpToRel
<1>3. \A y \in T : ~(y < x)
  BY <1>1, <1>2, Zenon
<1>4. \A y \in T : x <= y
  BY <1>3
<1> QED
  BY <1>4

\* The steps of RemoveAllEvents().
LEMMA RemoveAllSteps ==
  ASSUME NEW events, Len(events) \in Nat
  PROVE  \E f : /\ f[0] = <<>> /\ f[Len(events)] = RemoveAllEvents(events)
                /\ \A n \in 1 .. Len(events) :
                     f[n] = IF events[n].what = "ints" THEN Append(f[n - 1], events[n])
                            ELSE f[n - 1]
<1> DEFINE Step(x, n) == IF events[n].what = "ints" THEN Append(x, events[n]) ELSE x
           Built(f, m) == f = [n \in 0 .. m |-> IF n = 0 THEN <<>> ELSE Step(f[n - 1], n)]
           Fails == {m \in Nat : ~ \E f : Built(f, m)}
           kept[n \in 0 .. Len(events)] ==
             IF n = 0 THEN <<>>
             ELSE IF events[n].what = "ints" THEN Append(kept[n - 1], events[n]) ELSE kept[n - 1]
<1>1. kept = CHOOSE f : Built(f, Len(events))
  BY DEF kept
<1>2. RemoveAllEvents(events) = kept[Len(events)]
  BY DEF RemoveAllEvents
<1> HIDE DEF Step, kept
<1>3. Fails = {}
  <2> SUFFICES ASSUME Fails # {} PROVE FALSE
    OBVIOUS
  <2>1. PICK m \in Fails : \A n \in Fails : m <= n
    <3>1. Fails \subseteq Nat
      OBVIOUS
    <3> HIDE DEF Fails
    <3> QED
      BY <3>1, LeastNatural
  <2>2. CASE m = 0
    <3> DEFINE f == [n \in 0 .. 0 |-> <<>>]
    <3>1. f = [n \in 0 .. 0 |-> IF n = 0 THEN <<>> ELSE Step(f[n - 1], n)]
      OBVIOUS
    <3> QED
      BY <2>1, <2>2, <3>1
  <2>3. CASE m # 0
    <3>1. m - 1 \in Nat /\ m - 1 \notin Fails
      <4>1. m \in Nat
        OBVIOUS
      <4> HIDE DEF Fails
      <4> QED
        BY <2>1, <2>3, <4>1
    <3>2. PICK f : Built(f, m - 1)
      BY <3>1
    <3> DEFINE g == [n \in 0 .. m |-> IF n = m THEN Step(f[m - 1], m) ELSE f[n]]
    <3>3. ASSUME NEW n \in 0 .. m
          PROVE  g[n] = IF n = 0 THEN <<>> ELSE Step(g[n - 1], n)
      <4>1. CASE n = m
        BY <2>1, <2>3, <4>1
      <4>2. CASE n # m
        <5>1. n \in 0 .. m - 1 /\ g[n] = f[n]
          BY <2>1, <4>2
        <5>2. f[n] = IF n = 0 THEN <<>> ELSE Step(f[n - 1], n)
          BY <3>2, <5>1
        <5>3. n # 0 => g[n - 1] = f[n - 1]
          BY <2>1, <5>1
        <5> QED
          BY <5>1, <5>2, <5>3
      <4> QED
        BY <4>1, <4>2
    <3>4. Built(g, m)
      BY <3>3
    <3> QED
      BY <2>1, <3>4
  <2> QED
    BY <2>2, <2>3
<1>4. \E f : Built(f, Len(events))
  BY <1>3
<1>5. Built(kept, Len(events))
  BY <1>1, <1>4
<1>6. kept[0] = <<>> /\ \A n \in 1 .. Len(events) : kept[n] = Step(kept[n - 1], n)
  BY <1>5
<1> QED
  BY <1>2, <1>6 DEF Step

\* Only the events of WII_IPC.cpp are left.
LEMMA RemoveAllFacts ==
  ASSUME NEW events \in Seq(IPCEvents), Sorted(events)
  PROVE  LET left == RemoveAllEvents(events)
         IN  /\ left \in Seq(IPCEvents) /\ Sorted(left)
             /\ \A i \in DOMAIN left : left[i].what = "ints"
<1> DEFINE Kept(h, n) == /\ h \in Seq(IPCEvents) /\ Sorted(h)
                         /\ \A i \in DOMAIN h : h[i].what = "ints"
                         /\ \A i \in DOMAIN h : \E j \in 1 .. n : h[i] = events[j]
<1>1. /\ Len(events) \in Nat /\ DOMAIN events = 1 .. Len(events)
      /\ \A i \in DOMAIN events : events[i] \in IPCEvents /\ events[i].left \in Nat
  BY EventsFacts
<1>2. PICK f : /\ f[0] = <<>> /\ f[Len(events)] = RemoveAllEvents(events)
               /\ \A n \in 1 .. Len(events) :
                    f[n] = IF events[n].what = "ints" THEN Append(f[n - 1], events[n])
                           ELSE f[n - 1]
  BY <1>1, RemoveAllSteps
<1>3. Kept(<<>>, 0)
  BY DEF Sorted
<1>4. ASSUME NEW n \in 1 .. Len(events), NEW h, Kept(h, n - 1)
      PROVE  Kept(IF events[n].what = "ints" THEN Append(h, events[n]) ELSE h, n)
  <2>1. 1 .. n - 1 \subseteq 1 .. n /\ n \in 1 .. n /\ n \in DOMAIN events
        /\ 1 .. n \subseteq DOMAIN events /\ \A j \in 1 .. n : j <= n
    BY <1>1
  <2>2. CASE events[n].what # "ints"
    <3>1. \A i \in DOMAIN h : \E j \in 1 .. n : h[i] = events[j]
      BY <1>4, <2>1
    <3> QED
      BY <1>4, <2>2, <3>1
  <2>3. CASE events[n].what = "ints"
    <3> DEFINE e == Append(h, events[n])
    <3>1. /\ e \in Seq(IPCEvents) /\ DOMAIN e = 1 .. Len(h) + 1 /\ Len(h) \in Nat
          /\ DOMAIN h = 1 .. Len(h)
          /\ \A i \in DOMAIN h : e[i] = h[i]
          /\ e[Len(h) + 1] = events[n]
      BY <1>1, <1>4, <2>1
    <3> HIDE DEF e
    <3>2. \A i \in DOMAIN e : i \in DOMAIN h \/ i = Len(h) + 1
      BY <3>1
    <3>3. \A i \in DOMAIN h : h[i].left <= events[n].left
      BY <1>1, <1>4, <2>1 DEF Sorted
    <3>4. Sorted(e)
      <4> SUFFICES ASSUME NEW i \in DOMAIN e, NEW j \in DOMAIN e, i <= j
                   PROVE  e[i].left <= e[j].left
        BY DEF Sorted
      <4>1. CASE j = Len(h) + 1
        <5>1. events[n].left <= events[n].left
          BY <1>1, <2>1
        <5> QED
          BY <3>1, <3>2, <3>3, <4>1, <5>1
      <4>2. CASE j # Len(h) + 1
        <5>1. i \in DOMAIN h /\ j \in DOMAIN h
          BY <3>1, <4>2
        <5> QED
          BY <1>4, <3>1, <5>1 DEF Sorted
      <4> QED
        BY <4>1, <4>2
    <3>5. \A i \in DOMAIN e : e[i].what = "ints" /\ \E j \in 1 .. n : e[i] = events[j]
      BY <1>4, <2>1, <2>3, <3>1, <3>2
    <3>6. Kept(e, n)
      BY <3>1, <3>4, <3>5
    <3> QED
      BY <2>3, <3>6 DEF e
  <2> QED
    BY <2>2, <2>3
<1> HIDE DEF Kept
<1> DEFINE Fails == {n \in Nat : n <= Len(events) /\ ~Kept(f[n], n)}
<1>5. Fails = {}
  <2> SUFFICES ASSUME Fails # {} PROVE FALSE
    OBVIOUS
  <2>1. PICK m \in Fails : \A n \in Fails : m <= n
    <3>1. Fails \subseteq Nat
      OBVIOUS
    <3> HIDE DEF Fails
    <3> QED
      BY <3>1, LeastNatural
  <2>2. m \in Nat /\ m <= Len(events) /\ ~Kept(f[m], m)
    OBVIOUS
  <2>3. m # 0
    BY <1>2, <1>3, <2>2
  <2>4. m - 1 \in Nat /\ m - 1 <= Len(events) /\ m \in 1 .. Len(events)
    BY <1>1, <2>2, <2>3
  <2>5. m - 1 \notin Fails
    <3> HIDE DEF Fails
    <3> QED
      BY <2>1, <2>2, <2>4
  <2>6. Kept(f[m - 1], m - 1)
    BY <2>4, <2>5
  <2>7. Kept(f[m], m)
    BY <1>2, <1>4, <2>4, <2>6
  <2> QED
    BY <2>2, <2>7
<1>6. Kept(f[Len(events)], Len(events))
  BY <1>1, <1>5
<1> QED
  BY <1>2, <1>6 DEF Kept
-----------------------------------------------------------------------------
(***************************************************************************)
(* The lines of queues and events.                                         *)
(***************************************************************************)
LEMMA LineFacts ==
  ASSUME NEW q \in Seq(Requests), NEW events \in Seq(IPCEvents), NEW what
  PROVE  LET g == Line(q, events, what)
         IN  /\ DOMAIN g \subseteq Nat
             /\ g = [p \in DOMAIN g |-> g[p]]
             /\ \A p \in 1 .. Len(q) : p \in DOMAIN g /\ g[p] = q[p]
             /\ \A i \in 1 .. Len(events) : events[i].what = what =>
                  Len(q) + i \in DOMAIN g /\ g[Len(q) + i] = events[i].msg
             /\ \A p \in DOMAIN g :
                  \/ p \in 1 .. Len(q)
                  \/ p > Len(q) /\ p - Len(q) \in 1 .. Len(events) /\ events[p - Len(q)].what = what
<1> DEFINE P == DOMAIN q \cup {Len(q) + i : i \in {i \in DOMAIN events : events[i].what = what}}
           g == Line(q, events, what)
<1>1. /\ DOMAIN q = 1 .. Len(q) /\ Len(q) \in Nat
      /\ DOMAIN events = 1 .. Len(events) /\ Len(events) \in Nat
  OBVIOUS
<1>2. g = [p \in P |-> IF p \in DOMAIN q THEN q[p] ELSE events[p - Len(q)].msg]
  BY DEF Line
<1>3. \A p \in P : \/ p \in 1 .. Len(q)
                   \/ p > Len(q) /\ p - Len(q) \in 1 .. Len(events) /\ events[p - Len(q)].what = what
  <2> SUFFICES ASSUME NEW i \in 1 .. Len(events), events[i].what = what
               PROVE  /\ Len(q) + i > Len(q) /\ (Len(q) + i) - Len(q) = i
    BY <1>1
  <2> QED
    BY <1>1
<1>4. P \subseteq Nat
  BY <1>1
<1>5. \A p \in 1 .. Len(q) : p \in P
  BY <1>1
<1>6. \A i \in 1 .. Len(events) : events[i].what = what => Len(q) + i \in P
  BY <1>1
<1> HIDE DEF P, g
<1>7. DOMAIN g = P /\ g = [p \in DOMAIN g |-> g[p]]
  BY <1>2
<1>8. \A p \in 1 .. Len(q) : g[p] = q[p]
  BY <1>1, <1>2, <1>5
<1>9. ASSUME NEW i \in 1 .. Len(events), events[i].what = what
      PROVE  g[Len(q) + i] = events[i].msg
  <2>1. Len(q) + i \notin DOMAIN q /\ (Len(q) + i) - Len(q) = i
    BY <1>1
  <2> QED
    BY <1>2, <1>6, <1>9, <2>1
<1> QED
  BY <1>3, <1>4, <1>5, <1>6, <1>7, <1>8, <1>9 DEF g

\* A line has the same places when only the times of its events differ.
LEMMA LineSame ==
  ASSUME NEW q, NEW events, NEW later, NEW what, DOMAIN later = DOMAIN events,
         \A i \in DOMAIN events :
           later[i].what = events[i].what /\ later[i].msg = events[i].msg,
         q \in Seq(Requests), events \in Seq(IPCEvents), later \in Seq(IPCEvents)
  PROVE  Line(q, later, what) = Line(q, events, what)
<1> DEFINE g == Line(q, events, what)
           h == Line(q, later, what)
<1>1. /\ Len(q) \in Nat /\ Len(later) = Len(events) /\ Len(events) \in Nat
      /\ DOMAIN events = 1 .. Len(events)
  OBVIOUS
<1>2. /\ DOMAIN g \subseteq Nat
      /\ g = [p \in DOMAIN g |-> g[p]]
      /\ \A p \in 1 .. Len(q) : p \in DOMAIN g /\ g[p] = q[p]
      /\ \A i \in 1 .. Len(events) : events[i].what = what =>
           Len(q) + i \in DOMAIN g /\ g[Len(q) + i] = events[i].msg
      /\ \A p \in DOMAIN g :
           \/ p \in 1 .. Len(q)
           \/ p > Len(q) /\ p - Len(q) \in 1 .. Len(events) /\ events[p - Len(q)].what = what
  BY LineFacts
<1>3. /\ DOMAIN h \subseteq Nat
      /\ h = [p \in DOMAIN h |-> h[p]]
      /\ \A p \in 1 .. Len(q) : p \in DOMAIN h /\ h[p] = q[p]
      /\ \A i \in 1 .. Len(later) : later[i].what = what =>
           Len(q) + i \in DOMAIN h /\ h[Len(q) + i] = later[i].msg
      /\ \A p \in DOMAIN h :
           \/ p \in 1 .. Len(q)
           \/ p > Len(q) /\ p - Len(q) \in 1 .. Len(later) /\ later[p - Len(q)].what = what
  BY LineFacts
<1> HIDE DEF g, h
<1>4. \A p \in Nat : Len(q) + (p - Len(q)) = p
  BY <1>1
<1>5. \A p \in DOMAIN g : p \in DOMAIN h /\ h[p] = g[p]
  <2> SUFFICES ASSUME NEW p \in DOMAIN g PROVE p \in DOMAIN h /\ h[p] = g[p]
    OBVIOUS
  <2>1. CASE p \in 1 .. Len(q)
    BY <1>2, <1>3, <2>1
  <2>2. CASE p - Len(q) \in 1 .. Len(events) /\ events[p - Len(q)].what = what
    <3> DEFINE i == p - Len(q)
    <3>1. i \in 1 .. Len(events) /\ events[i].what = what /\ Len(q) + i = p
      BY <1>2, <1>4, <2>2
    <3> HIDE DEF i
    <3> QED
      BY <1>1, <1>2, <1>3, <3>1
  <2> QED
    BY <1>2, <2>1, <2>2
<1>6. \A p \in DOMAIN h : p \in DOMAIN g
  <2> SUFFICES ASSUME NEW p \in DOMAIN h PROVE p \in DOMAIN g
    OBVIOUS
  <2>1. CASE p \in 1 .. Len(q)
    BY <1>2, <2>1
  <2>2. CASE p - Len(q) \in 1 .. Len(later) /\ later[p - Len(q)].what = what
    <3> DEFINE i == p - Len(q)
    <3>1. i \in 1 .. Len(later) /\ later[i].what = what /\ Len(q) + i = p
      BY <1>3, <1>4, <2>2
    <3> HIDE DEF i
    <3> QED
      BY <1>1, <1>2, <3>1
  <2> QED
    BY <1>3, <2>1, <2>2
<1>7. DOMAIN h = DOMAIN g
  BY <1>5, <1>6
<1>8. h = g
  BY <1>2, <1>3, <1>5, <1>7
<1> QED
  BY <1>8 DEF g, h

\* The first event goes to the end of the queue.
LEMMA LineShift ==
  ASSUME NEW q \in Seq(Requests), NEW events \in Seq(IPCEvents), NEW what,
         events # <<>>, events[1].what = what, what \in {"request", "reply"}
  PROVE  Line(Append(q, events[1].msg), Tail(events), what) = Line(q, events, what)
<1> DEFINE u == Append(q, events[1].msg)
           rest == Tail(events)
           g == Line(q, events, what)
           h == Line(u, rest, what)
<1>1. Len(q) \in Nat /\ Len(events) \in Nat /\ Len(events) > 0
  OBVIOUS
<1>2. /\ rest \in Seq(IPCEvents) /\ Len(rest) = Len(events) - 1
      /\ \A i \in 1 .. Len(events) - 1 : rest[i] = events[i + 1]
  OBVIOUS
<1>3. events[1].msg \in Requests
  BY <1>1, EventsFacts
<1>4. /\ u \in Seq(Requests) /\ Len(u) = Len(q) + 1
      /\ \A i \in 1 .. Len(q) : u[i] = q[i]
      /\ u[Len(q) + 1] = events[1].msg
  BY <1>3
<1> HIDE DEF u, rest
<1>5. /\ DOMAIN g \subseteq Nat
      /\ g = [p \in DOMAIN g |-> g[p]]
      /\ \A p \in 1 .. Len(q) : p \in DOMAIN g /\ g[p] = q[p]
      /\ \A i \in 1 .. Len(events) : events[i].what = what =>
           Len(q) + i \in DOMAIN g /\ g[Len(q) + i] = events[i].msg
      /\ \A p \in DOMAIN g :
           \/ p \in 1 .. Len(q)
           \/ p > Len(q) /\ p - Len(q) \in 1 .. Len(events) /\ events[p - Len(q)].what = what
  BY LineFacts
<1>6. /\ DOMAIN h \subseteq Nat
      /\ h = [p \in DOMAIN h |-> h[p]]
      /\ \A p \in 1 .. Len(u) : p \in DOMAIN h /\ h[p] = u[p]
      /\ \A i \in 1 .. Len(rest) : rest[i].what = what =>
           Len(u) + i \in DOMAIN h /\ h[Len(u) + i] = rest[i].msg
      /\ \A p \in DOMAIN h :
           \/ p \in 1 .. Len(u)
           \/ p > Len(u) /\ p - Len(u) \in 1 .. Len(rest) /\ rest[p - Len(u)].what = what
  BY <1>2, <1>4, LineFacts
<1> HIDE DEF g, h
<1>7. Len(q) + 1 \in DOMAIN g /\ Len(q) + 1 \in DOMAIN h
      /\ g[Len(q) + 1] = events[1].msg /\ h[Len(q) + 1] = events[1].msg
  BY <1>1, <1>4, <1>5, <1>6
<1>8. ASSUME NEW i \in 2 .. Len(events), events[i].what = what
      PROVE  LET p == Len(q) + i
             IN  p \in DOMAIN g /\ p \in DOMAIN h /\ g[p] = events[i].msg /\ h[p] = events[i].msg
  <2> DEFINE j == i - 1
  <2>1. j \in 1 .. Len(rest) /\ j + 1 = i /\ Len(u) + j = Len(q) + i /\ i \in 1 .. Len(events)
    BY <1>1, <1>2, <1>4
  <2> HIDE DEF j
  <2>2. rest[j] = events[i]
    BY <1>2, <2>1
  <2>3. Len(u) + j \in DOMAIN h /\ h[Len(u) + j] = events[i].msg
    BY <1>6, <1>8, <2>1, <2>2
  <2>4. Len(q) + i \in DOMAIN g /\ g[Len(q) + i] = events[i].msg
    BY <1>5, <1>8, <2>1
  <2> QED
    BY <2>1, <2>3, <2>4
<1>9. \A p \in 1 .. Len(q) : p \in DOMAIN g /\ p \in DOMAIN h /\ h[p] = g[p]
  BY <1>1, <1>4, <1>5, <1>6
<1>10. ASSUME NEW p \in DOMAIN g PROVE p \in DOMAIN h /\ h[p] = g[p]
  <2>1. CASE p \in 1 .. Len(q)
    BY <1>9, <2>1
  <2>2. CASE p - Len(q) \in 1 .. Len(events) /\ events[p - Len(q)].what = what
    <3> DEFINE i == p - Len(q)
    <3>1. /\ i \in 1 .. Len(events) /\ events[i].what = what /\ Len(q) + i = p
          /\ i = 1 \/ i \in 2 .. Len(events)
      BY <1>1, <1>5, <2>2
    <3> HIDE DEF i
    <3> QED
      BY <1>7, <1>8, <3>1
  <2> QED
    BY <1>5, <2>1, <2>2
<1>11. ASSUME NEW p \in DOMAIN h PROVE p \in DOMAIN g
  <2>1. CASE p \in 1 .. Len(u)
    <3>1. p \in 1 .. Len(q) \/ p = Len(q) + 1
      BY <1>1, <1>4, <2>1
    <3> QED
      BY <1>7, <1>9, <3>1
  <2>2. CASE p - Len(u) \in 1 .. Len(rest) /\ rest[p - Len(u)].what = what
    <3> DEFINE j == p - Len(u)
    <3>1. p \in Nat /\ j \in 1 .. Len(rest) /\ rest[j].what = what
      BY <1>6, <2>2
    <3>2. /\ j \in 1 .. Len(events) - 1 /\ Len(q) + (j + 1) = p
          /\ j + 1 \in 2 .. Len(events)
      BY <1>1, <1>2, <1>4, <3>1
    <3> HIDE DEF j
    <3>3. events[j + 1].what = what
      BY <1>2, <3>1, <3>2
    <3> QED
      BY <1>8, <3>2, <3>3
  <2> QED
    BY <1>6, <2>1, <2>2
<1>12. DOMAIN h = DOMAIN g
  BY <1>10, <1>11
<1>13. h = g
  BY <1>5, <1>6, <1>10, <1>12
<1> QED
  BY <1>13 DEF g, h, u, rest

\* The first event is of another kind.
LEMMA LineTail ==
  ASSUME NEW q \in Seq(Requests), NEW events \in Seq(IPCEvents), NEW what,
         events # <<>>, events[1].what # what
  PROVE  Moved(Line(q, Tail(events), what), Line(q, events, what))
<1> DEFINE rest == Tail(events)
           g == Line(q, events, what)
           h == Line(q, rest, what)
<1>1. Len(q) \in Nat /\ Len(events) \in Nat /\ Len(events) > 0
  OBVIOUS
<1>2. /\ rest \in Seq(IPCEvents) /\ Len(rest) = Len(events) - 1
      /\ \A i \in 1 .. Len(events) - 1 : rest[i] = events[i + 1]
  OBVIOUS
<1> HIDE DEF rest
<1>3. /\ DOMAIN g \subseteq Nat
      /\ \A p \in 1 .. Len(q) : p \in DOMAIN g /\ g[p] = q[p]
      /\ \A i \in 1 .. Len(events) : events[i].what = what =>
           Len(q) + i \in DOMAIN g /\ g[Len(q) + i] = events[i].msg
      /\ \A p \in DOMAIN g :
           \/ p \in 1 .. Len(q)
           \/ p > Len(q) /\ p - Len(q) \in 1 .. Len(events) /\ events[p - Len(q)].what = what
  BY LineFacts
<1>4. /\ DOMAIN h \subseteq Nat
      /\ \A p \in 1 .. Len(q) : p \in DOMAIN h /\ h[p] = q[p]
      /\ \A i \in 1 .. Len(rest) : rest[i].what = what =>
           Len(q) + i \in DOMAIN h /\ h[Len(q) + i] = rest[i].msg
      /\ \A p \in DOMAIN h :
           \/ p \in 1 .. Len(q)
           \/ p > Len(q) /\ p - Len(q) \in 1 .. Len(rest) /\ rest[p - Len(q)].what = what
  BY <1>2, LineFacts
<1> HIDE DEF g, h
<1> DEFINE f == [p \in DOMAIN h |-> IF p <= Len(q) THEN p ELSE p + 1]
<1>5. ASSUME NEW p \in DOMAIN h PROVE f[p] \in DOMAIN g /\ h[p] = g[f[p]]
  <2>1. CASE p \in 1 .. Len(q)
    BY <1>1, <1>3, <1>4, <2>1
  <2>2. CASE p > Len(q) /\ p - Len(q) \in 1 .. Len(rest) /\ rest[p - Len(q)].what = what
    <3> DEFINE j == p - Len(q)
    <3>1. p \in Nat /\ p > Len(q) /\ j \in 1 .. Len(rest) /\ rest[j].what = what
      BY <1>4, <2>2
    <3>2. f[p] = p + 1
      BY <1>1, <3>1
    <3>3. /\ Len(q) + j = p /\ p + 1 = Len(q) + (j + 1)
          /\ j + 1 \in 1 .. Len(events) /\ j \in 1 .. Len(events) - 1
      <4>1. Len(rest) = Len(events) - 1 /\ j = p - Len(q)
        BY <1>2
      <4> HIDE DEF j
      <4>2. j \in Nat /\ j + 1 \in 1 .. Len(events) /\ j \in 1 .. Len(events) - 1
        BY <1>1, <3>1, <4>1
      <4>3. p \in Nat
        BY <3>1
      <4>4. Len(q) + j = p /\ p + 1 = Len(q) + (j + 1)
        BY <1>1, <4>1, <4>2, <4>3
      <4> QED
        BY <4>2, <4>4
    <3> HIDE DEF j, f
    <3>4. rest[j] = events[j + 1]
      BY <1>2, <3>3
    <3>5. h[p] = rest[j].msg
      BY <1>4, <3>1, <3>3
    <3>6. f[p] \in DOMAIN g /\ g[f[p]] = events[j + 1].msg
      BY <1>3, <3>1, <3>2, <3>3, <3>4
    <3> QED
      BY <3>4, <3>5, <3>6
  <2> QED
    BY <1>4, <2>1, <2>2
<1>6. \A p, r \in DOMAIN h : p < r => f[p] < f[r]
  BY <1>1, <1>4
<1>7. ASSUME NEW y \in DOMAIN g PROVE \E p \in DOMAIN h : f[p] = y
  <2>1. CASE y \in 1 .. Len(q)
    BY <1>1, <1>4, <2>1
  <2>2. CASE y > Len(q) /\ y - Len(q) \in 1 .. Len(events) /\ events[y - Len(q)].what = what
    <3> DEFINE j == y - Len(q) - 1
    <3>1. j + 1 = y - Len(q) /\ events[j + 1].what = what /\ j + 1 # 1
      BY <1>1, <1>3, <2>2
    <3>2. j \in 1 .. Len(events) - 1 /\ j \in 1 .. Len(rest)
      BY <1>1, <1>2, <1>3, <2>2, <3>1
    <3>3. rest[j].what = what
      BY <1>2, <3>1, <3>2
    <3>4. Len(q) + j \in DOMAIN h
      BY <1>4, <3>2, <3>3
    <3>5. f[Len(q) + j] = y
      BY <1>1, <1>3, <2>2, <3>1, <3>2, <3>4
    <3> QED
      BY <3>4, <3>5
  <2> QED
    BY <1>3, <2>1, <2>2
<1> HIDE DEF f
<1>8. Moves(f, h, g)
  BY <1>5, <1>6, <1>7 DEF Moves
<1> QED
  BY <1>8 DEF Moved, g, h, rest

\* The first of the queue goes.
LEMMA LinePop ==
  ASSUME NEW q \in Seq(Requests), NEW events \in Seq(IPCEvents), NEW what, q # <<>>
  PROVE  LET g == Line(q, events, what)
         IN  /\ 1 \in DOMAIN g /\ g[1] = q[1]
             /\ \A p \in DOMAIN g : 1 <= p
             /\ Moved(Line(Tail(q), events, what), Without(g, 1))
<1> DEFINE u == Tail(q)
           g == Line(q, events, what)
           h == Line(u, events, what)
           w == Without(g, 1)
<1>1. Len(q) \in Nat /\ Len(events) \in Nat /\ Len(q) > 0
  OBVIOUS
<1>2. /\ u \in Seq(Requests) /\ Len(u) = Len(q) - 1
      /\ \A i \in 1 .. Len(q) - 1 : u[i] = q[i + 1]
  OBVIOUS
<1> HIDE DEF u
<1>3. u \in Seq(Requests) /\ Len(u) \in Nat /\ Len(u) + 1 = Len(q)
  BY <1>1, <1>2
<1>4. /\ DOMAIN g \subseteq Nat
      /\ \A p \in 1 .. Len(q) : p \in DOMAIN g /\ g[p] = q[p]
      /\ \A i \in 1 .. Len(events) : events[i].what = what =>
           Len(q) + i \in DOMAIN g /\ g[Len(q) + i] = events[i].msg
      /\ \A p \in DOMAIN g :
           \/ p \in 1 .. Len(q)
           \/ p > Len(q) /\ p - Len(q) \in 1 .. Len(events) /\ events[p - Len(q)].what = what
  BY LineFacts
<1>5. /\ DOMAIN h \subseteq Nat
      /\ \A p \in 1 .. Len(u) : p \in DOMAIN h /\ h[p] = u[p]
      /\ \A i \in 1 .. Len(events) : events[i].what = what =>
           Len(u) + i \in DOMAIN h /\ h[Len(u) + i] = events[i].msg
      /\ \A p \in DOMAIN h :
           \/ p \in 1 .. Len(u)
           \/ p > Len(u) /\ p - Len(u) \in 1 .. Len(events) /\ events[p - Len(u)].what = what
  BY <1>3, LineFacts
<1>6. DOMAIN w = DOMAIN g \ {1} /\ \A p \in DOMAIN w : w[p] = g[p]
  BY DEF Without
<1> HIDE DEF g, h, w
<1>7. 1 \in DOMAIN g /\ g[1] = q[1] /\ \A p \in DOMAIN g : 1 <= p
  BY <1>1, <1>4
<1> DEFINE f == [p \in DOMAIN h |-> p + 1]
<1>8. ASSUME NEW p \in DOMAIN h PROVE f[p] \in DOMAIN w /\ h[p] = w[f[p]]
  <2>1. CASE p \in 1 .. Len(u)
    <3>1. p + 1 \in 1 .. Len(q) /\ p + 1 # 1 /\ p \in 1 .. Len(q) - 1
      BY <1>1, <1>2, <2>1
    <3>2. h[p] = q[p + 1]
      BY <1>2, <1>5, <2>1, <3>1
    <3> QED
      BY <1>4, <1>6, <3>1, <3>2
  <2>2. CASE p > Len(u) /\ p - Len(u) \in 1 .. Len(events) /\ events[p - Len(u)].what = what
    <3> DEFINE j == p - Len(u)
    <3>1. p \in Nat /\ j \in 1 .. Len(events) /\ events[j].what = what
      BY <1>5, <2>2
    <3>2. Len(u) + j = p /\ f[p] = Len(q) + j /\ Len(q) + j # 1
      <4>1. f[p] = p + 1 /\ j = p - Len(u) /\ j >= 1
        BY <3>1
      <4>2. j \in Nat
        BY <1>1, <3>1
      <4> HIDE DEF f, j
      <4>3. Len(u) + j = p
        BY <1>3, <3>1, <4>1, <4>2
      <4>4. p + 1 = Len(q) + j /\ Len(q) + j # 1
        BY <1>1, <1>3, <4>1, <4>2, <4>3
      <4> QED
        BY <4>1, <4>3, <4>4
    <3> HIDE DEF j, f
    <3>3. h[p] = events[j].msg
      BY <1>5, <3>1, <3>2
    <3>4. f[p] \in DOMAIN g /\ g[f[p]] = events[j].msg
      BY <1>4, <3>1, <3>2
    <3> QED
      BY <1>6, <3>2, <3>3, <3>4
  <2> QED
    BY <1>5, <2>1, <2>2
<1>9. \A p, r \in DOMAIN h : p < r => f[p] < f[r]
  BY <1>5
<1>10. ASSUME NEW y \in DOMAIN w PROVE \E p \in DOMAIN h : f[p] = y
  <2>1. y \in DOMAIN g /\ y # 1 /\ y \in Nat
    BY <1>4, <1>6
  <2>2. CASE y \in 1 .. Len(q)
    <3>1. y - 1 \in 1 .. Len(u) /\ (y - 1) + 1 = y
      BY <1>1, <1>2, <2>1, <2>2
    <3> QED
      BY <1>5, <3>1
  <2>3. CASE y > Len(q) /\ y - Len(q) \in 1 .. Len(events) /\ events[y - Len(q)].what = what
    <3> DEFINE j == y - Len(q)
    <3>1. j \in 1 .. Len(events) /\ events[j].what = what
      BY <2>3
    <3>2. (Len(u) + j) + 1 = y
      BY <1>1, <1>2, <2>1
    <3>3. Len(u) + j \in DOMAIN h
      BY <1>5, <3>1
    <3> QED
      BY <3>2, <3>3
  <2> QED
    BY <1>4, <2>1, <2>2, <2>3
<1> HIDE DEF f
<1>11. Moves(f, h, w)
  BY <1>8, <1>9, <1>10 DEF Moves
<1> QED
  BY <1>7, <1>11 DEF Moved, g, h, w, u

\* The places of the events that were there before new ones came.
LEMMA LineInsert ==
  ASSUME NEW q \in Seq(Requests), NEW events \in Seq(IPCEvents), NEW what,
         NEW left \in Nat, Sorted(events), NEW batch \in Seq(IPCEvents)
  PROVE  LET n == Place(events, left)
             g == Line(q, events, what)
             h == Line(q, Insert(events, left, batch), what)
             rest == {p \in DOMAIN h : p <= Len(q) + n \/ p > Len(q) + n + Len(batch)}
         IN  Moved([p \in rest |-> h[p]], g)
<1> DEFINE n == Place(events, left)
           m == Len(batch)
           new == Insert(events, left, batch)
           g == Line(q, events, what)
           h == Line(q, new, what)
           rest == {p \in DOMAIN h : p <= Len(q) + n \/ p > Len(q) + n + m}
           r == [p \in rest |-> h[p]]
<1>1. Len(q) \in Nat /\ Len(events) \in Nat /\ m \in Nat
  OBVIOUS
<1>2. /\ n \in 0 .. Len(events)
      /\ new \in Seq(IPCEvents) /\ Len(new) = Len(events) + m
      /\ \A i \in 1 .. n : new[i] = events[i]
      /\ \A i \in n + 1 .. Len(events) : new[i + m] = events[i]
  BY InsertFacts
<1>3. /\ DOMAIN g \subseteq Nat
      /\ \A p \in 1 .. Len(q) : p \in DOMAIN g /\ g[p] = q[p]
      /\ \A i \in 1 .. Len(events) : events[i].what = what =>
           Len(q) + i \in DOMAIN g /\ g[Len(q) + i] = events[i].msg
      /\ \A p \in DOMAIN g :
           \/ p \in 1 .. Len(q)
           \/ p > Len(q) /\ p - Len(q) \in 1 .. Len(events) /\ events[p - Len(q)].what = what
  BY LineFacts
<1> HIDE DEF n, m, new
<1>4. /\ DOMAIN h \subseteq Nat
      /\ \A p \in 1 .. Len(q) : p \in DOMAIN h /\ h[p] = q[p]
      /\ \A i \in 1 .. Len(new) : new[i].what = what =>
           Len(q) + i \in DOMAIN h /\ h[Len(q) + i] = new[i].msg
      /\ \A p \in DOMAIN h :
           \/ p \in 1 .. Len(q)
           \/ p > Len(q) /\ p - Len(q) \in 1 .. Len(new) /\ new[p - Len(q)].what = what
  BY <1>2, LineFacts
<1> HIDE DEF g, h
<1>5. DOMAIN r = rest /\ \A p \in DOMAIN r : r[p] = h[p]
  OBVIOUS
<1> HIDE DEF r
<1> DEFINE f == [p \in rest |-> IF p <= Len(q) + n THEN p ELSE p - m]
<1>6. ASSUME NEW p \in rest PROVE f[p] \in DOMAIN g /\ h[p] = g[f[p]]
  <2>1. CASE p \in 1 .. Len(q)
    <3>1. f[p] = p
      BY <1>1, <1>2, <2>1
    <3> QED
      BY <1>3, <1>4, <2>1, <3>1
  <2>2. CASE p > Len(q) /\ p <= Len(q) + n /\ p - Len(q) \in 1 .. Len(new) /\ new[p - Len(q)].what = what
    <3> DEFINE j == p - Len(q)
    <3>1. p \in Nat /\ j \in 1 .. Len(new) /\ new[j].what = what
      BY <1>4, <2>2
    <3>2. j \in 1 .. n /\ Len(q) + j = p /\ f[p] = p /\ j \in 1 .. Len(events)
      BY <1>1, <1>2, <2>2, <3>1
    <3> HIDE DEF j, f
    <3>3. new[j] = events[j]
      BY <1>2, <3>2
    <3>4. h[p] = events[j].msg
      BY <1>4, <3>1, <3>2, <3>3
    <3> QED
      BY <1>3, <3>1, <3>2, <3>3, <3>4
  <2>3. CASE p > Len(q) + n + m /\ p - Len(q) \in 1 .. Len(new) /\ new[p - Len(q)].what = what
    <3> DEFINE i == p - Len(q)
               j == i - m
    <3>1. p \in Nat /\ i \in 1 .. Len(new) /\ new[i].what = what
      BY <1>4, <2>3
    <3>2. i \in Nat /\ Len(q) + i = p /\ j \in n + 1 .. Len(events) /\ j + m = i
      BY <1>1, <1>2, <2>3, <3>1
    <3>3. f[p] = Len(q) + j /\ j \in 1 .. Len(events)
      BY <1>1, <1>2, <2>3, <3>1, <3>2
    <3> HIDE DEF i, j, f
    <3>4. new[i] = events[j]
      BY <1>2, <3>2
    <3>5. h[p] = events[j].msg
      BY <1>4, <3>1, <3>2, <3>4
    <3> QED
      BY <1>3, <3>1, <3>3, <3>4, <3>5
  <2>4. p \in DOMAIN h /\ (p <= Len(q) + n \/ p > Len(q) + n + m)
    OBVIOUS
  <2> QED
    BY <1>4, <2>1, <2>2, <2>3, <2>4
<1>7. \A p, s \in rest : p < s => f[p] < f[s]
  <2> SUFFICES ASSUME NEW p \in rest, NEW s \in rest, p < s PROVE f[p] < f[s]
    OBVIOUS
  <2>1. p \in Nat /\ s \in Nat /\ (p <= Len(q) + n \/ p > Len(q) + n + m)
        /\ (s <= Len(q) + n \/ s > Len(q) + n + m)
    BY <1>4
  <2>2. n \in Nat
    BY <1>1, <1>2
  <2> QED
    BY <1>1, <2>1, <2>2
<1>8. ASSUME NEW y \in DOMAIN g PROVE \E p \in rest : f[p] = y
  <2>1. CASE y \in 1 .. Len(q)
    <3>1. y \in rest
      BY <1>1, <1>2, <1>4, <2>1
    <3> QED
      BY <1>1, <1>2, <2>1, <3>1
  <2>2. CASE y > Len(q) /\ y - Len(q) \in 1 .. Len(events) /\ events[y - Len(q)].what = what
    <3> DEFINE j == y - Len(q)
    <3>1. y \in Nat /\ j \in 1 .. Len(events) /\ events[j].what = what
      BY <1>3, <2>2
    <3>2. Len(q) + j = y /\ n \in Nat /\ j \in Nat
      <4>1. n \in Nat
        BY <1>1, <1>2
      <4> QED
        BY <1>1, <3>1, <4>1
    <3> HIDE DEF j
    <3>3. CASE j <= n
      <4>1. j \in 1 .. n /\ j \in 1 .. Len(new)
        BY <1>1, <1>2, <3>1, <3>3
      <4>2. new[j].what = what
        BY <1>2, <3>1, <4>1
      <4>3. y \in DOMAIN h
        BY <1>4, <3>2, <4>1, <4>2
      <4>4. y <= Len(q) + n
        BY <1>1, <3>2, <3>3
      <4>5. y \in rest /\ f[y] = y
        BY <4>3, <4>4
      <4> QED
        BY <4>5
    <3>4. CASE ~(j <= n)
      <4>1. j \in n + 1 .. Len(events) /\ j + m \in 1 .. Len(new)
        BY <1>1, <1>2, <3>1, <3>2, <3>4
      <4>2. new[j + m].what = what
        BY <1>2, <3>1, <4>1
      <4>3. Len(q) + (j + m) \in DOMAIN h
        BY <1>4, <4>1, <4>2
      <4> DEFINE p == Len(q) + (j + m)
      <4>4. p > Len(q) + n + m /\ ~(p <= Len(q) + n) /\ p - m = y
        BY <1>1, <3>2, <4>1
      <4> HIDE DEF p
      <4>5. p \in rest /\ f[p] = y
        BY <4>3, <4>4 DEF p
      <4> QED
        BY <4>5
    <3> QED
      BY <3>3, <3>4
  <2> QED
    BY <1>3, <2>1, <2>2
<1> HIDE DEF f, rest
<1>9. Moves(f, r, g)
  BY <1>5, <1>6, <1>7, <1>8 DEF Moves
<1> QED
  BY <1>9 DEF Moved, r, rest, g, h, new, n, m

\* New events of another kind,
LEMMA LineInsertOther ==
  ASSUME NEW q \in Seq(Requests), NEW events \in Seq(IPCEvents), NEW what,
         NEW left \in Nat, Sorted(events), NEW batch \in Seq(IPCEvents),
         \A i \in DOMAIN batch : batch[i].what # what
  PROVE  Moved(Line(q, Insert(events, left, batch), what), Line(q, events, what))
<1> DEFINE n == Place(events, left)
           m == Len(batch)
           new == Insert(events, left, batch)
           h == Line(q, new, what)
           rest == {p \in DOMAIN h : p <= Len(q) + n \/ p > Len(q) + n + m}
<1>1. Len(q) \in Nat /\ Len(events) \in Nat /\ m \in Nat /\ DOMAIN batch = 1 .. m
  OBVIOUS
<1>2. /\ n \in 0 .. Len(events) /\ new \in Seq(IPCEvents) /\ Len(new) = Len(events) + m
      /\ \A i \in 1 .. m : new[n + i] = batch[i]
  BY InsertFacts
<1>3. Moved([p \in rest |-> h[p]], Line(q, events, what))
  BY LineInsert
<1> HIDE DEF n, m, new
<1>4. /\ DOMAIN h \subseteq Nat /\ h = [p \in DOMAIN h |-> h[p]]
      /\ \A p \in DOMAIN h :
           \/ p \in 1 .. Len(q)
           \/ p > Len(q) /\ p - Len(q) \in 1 .. Len(new) /\ new[p - Len(q)].what = what
  BY <1>2, LineFacts
<1> HIDE DEF h
<1>5. ASSUME NEW p \in DOMAIN h, ~(p <= Len(q) + n \/ p > Len(q) + n + m) PROVE FALSE
  <2> DEFINE i == p - Len(q) - n
  <2>1. p \in Nat /\ n \in Nat
    BY <1>1, <1>2, <1>4
  <2>2. i \in 1 .. m /\ n + i = p - Len(q) /\ ~(p \in 1 .. Len(q))
    <3>1. ~(p <= Len(q) + n) /\ p <= Len(q) + n + m /\ Len(q) \in Nat /\ m \in Nat
      BY <1>1, <1>5, <2>1
    <3> QED
      BY <2>1, <3>1
  <2>3. new[p - Len(q)].what = what
    BY <1>4, <2>2
  <2> HIDE DEF i
  <2>4. new[n + i] = batch[i] /\ batch[i].what # what
    BY <1>1, <1>2, <2>2
  <2> QED
    BY <2>2, <2>3, <2>4
<1>6. rest = DOMAIN h
  BY <1>5
<1> HIDE DEF rest
<1>7. [p \in rest |-> h[p]] = h
  BY <1>4, <1>6
<1> QED
  BY <1>3, <1>7 DEF h, new

\* and one of the kind of the line.
LEMMA LineInsertOne ==
  ASSUME NEW q \in Seq(Requests), NEW events \in Seq(IPCEvents),
         NEW left \in Nat, Sorted(events), NEW e \in IPCEvents
  PROVE  LET x == Len(q) + Place(events, left) + 1
             h == Line(q, Insert(events, left, <<e>>), e.what)
         IN  /\ x \in DOMAIN h /\ h[x] = e.msg
             /\ Moved(Without(h, x), Line(q, events, e.what))
             /\ \A y \in DOMAIN h : y > x => \E i \in DOMAIN events :
                  events[i].what = e.what /\ events[i].msg = h[y] /\ ~(events[i].left <= left)
<1> DEFINE n == Place(events, left)
           batch == <<e>>
           new == Insert(events, left, batch)
           x == Len(q) + n + 1
           h == Line(q, new, e.what)
           rest == {p \in DOMAIN h : p <= Len(q) + n \/ p > Len(q) + n + Len(batch)}
<1>1. Len(q) \in Nat /\ Len(events) \in Nat /\ batch \in Seq(IPCEvents) /\ Len(batch) = 1
      /\ batch[1] = e
  OBVIOUS
<1> HIDE DEF batch
<1>2. /\ n \in 0 .. Len(events) /\ new \in Seq(IPCEvents) /\ Len(new) = Len(events) + 1
      /\ new[n + 1] = e
      /\ \A i \in n + 1 .. Len(events) : new[i + 1] = events[i]
  <2>1. batch \in Seq(IPCEvents)
    BY <1>1
  <2>2. /\ n \in 0 .. Len(events)
        /\ new \in Seq(IPCEvents) /\ Len(new) = Len(events) + Len(batch)
        /\ \A i \in 1 .. Len(batch) : new[n + i] = batch[i]
        /\ \A i \in n + 1 .. Len(events) : new[i + Len(batch)] = events[i]
    BY <2>1, InsertFacts
  <2> HIDE DEF n, new
  <2>3. 1 \in 1 .. Len(batch)
    BY <1>1
  <2> QED
    BY <1>1, <2>2, <2>3
<1>3. Moved([p \in rest |-> h[p]], Line(q, events, e.what))
  BY <1>1, LineInsert
<1>4. \A i \in DOMAIN events : i <= n <=> events[i].left <= left
  BY PlaceFacts
<1> HIDE DEF n, new
<1>5. /\ DOMAIN h \subseteq Nat
      /\ \A i \in 1 .. Len(new) : new[i].what = e.what =>
           Len(q) + i \in DOMAIN h /\ h[Len(q) + i] = new[i].msg
      /\ \A p \in DOMAIN h :
           \/ p \in 1 .. Len(q)
           \/ p > Len(q) /\ p - Len(q) \in 1 .. Len(new) /\ new[p - Len(q)].what = e.what
  <2>1. new \in Seq(IPCEvents)
    BY <1>2
  <2> QED
    BY <2>1, LineFacts
<1> HIDE DEF h
<1>6. n \in Nat /\ n + 1 \in 1 .. Len(new) /\ new[n + 1] = e /\ x = Len(q) + (n + 1)
  BY <1>1, <1>2
<1>7. x \in DOMAIN h /\ h[x] = e.msg
  <2> HIDE DEF x
  <2> QED
    BY <1>5, <1>6
<1>8. rest = DOMAIN h \ {x}
  <2>1. \A p \in Nat : (p <= Len(q) + n \/ p > Len(q) + n + 1) <=> p # x
    BY <1>1, <1>6
  <2> HIDE DEF x
  <2> QED
    BY <1>1, <1>5, <2>1
<1>9. Without(h, x) = [p \in rest |-> h[p]]
  BY <1>8 DEF Without
<1>10. ASSUME NEW y \in DOMAIN h, y > x
       PROVE  \E i \in DOMAIN events :
                events[i].what = e.what /\ events[i].msg = h[y] /\ ~(events[i].left <= left)
  <2> DEFINE i == y - Len(q) - 1
  <2>1. y \in Nat /\ ~(y \in 1 .. Len(q)) /\ i + 1 = y - Len(q) /\ Len(q) + (i + 1) = y
    BY <1>1, <1>5, <1>6, <1>10
  <2>2. i + 1 \in 1 .. Len(new) /\ new[i + 1].what = e.what
    BY <1>5, <2>1
  <2>3. i \in n + 1 .. Len(events)
    BY <1>1, <1>2, <1>6, <1>10, <2>1, <2>2
  <2> HIDE DEF i
  <2>4. new[i + 1] = events[i] /\ h[y] = new[i + 1].msg
    BY <1>2, <1>5, <2>1, <2>2, <2>3
  <2>5. i \in DOMAIN events /\ ~(i <= n)
    BY <1>1, <1>6, <2>3
  <2> QED
    BY <1>4, <2>2, <2>4, <2>5
<1> HIDE DEF rest, x
<1>11. Moved(Without(h, x), Line(q, events, e.what))
  BY <1>3, <1>9
<1> QED
  BY <1>7, <1>10, <1>11 DEF h, x, new, n, batch
-----------------------------------------------------------------------------
(***************************************************************************)
(* The lines and the history, when something happens to one of them.       *)
(***************************************************************************)
LEMMA LineDomain ==
  ASSUME NEW q \in Seq(Requests), NEW events \in Seq(IPCEvents), NEW what
  PROVE  DOMAIN Line(q, events, what) \subseteq Nat
  BY LineFacts

LEMMA WithoutDomain ==
  ASSUME NEW g, DOMAIN g \subseteq Nat, NEW x
  PROVE  DOMAIN Without(g, x) \subseteq Nat
  BY DEF Without

\* A new event of ScheduleEvent().
LEMMA InsertOne ==
  ASSUME NEW events \in Seq(IPCEvents), Sorted(events), NEW e \in IPCEvents
  PROVE  LET new == Insert(events, e.left, <<e>>)
         IN  /\ new \in Seq(IPCEvents) /\ Sorted(new)
             /\ \A i \in DOMAIN new : new[i] = e \/ \E j \in DOMAIN events : new[i] = events[j]
<1> DEFINE batch == <<e>>
           left == e.left
           new == Insert(events, left, batch)
           n == Place(events, left)
<1>1. /\ batch \in Seq(IPCEvents) /\ Len(batch) = 1 /\ DOMAIN batch = 1 .. 1
      /\ batch[1] = e /\ left \in Nat
  BY EventFacts
<1>2. \A i \in DOMAIN batch : batch[i].left = left
  BY <1>1
<1> HIDE DEF batch, left
<1>3. Sorted(new)
  BY <1>1, <1>2, InsertSorts
<1>4. new \in Seq(IPCEvents) /\ Len(new) = Len(events) + 1 /\ n \in 0 .. Len(events)
  <2>1. new \in Seq(IPCEvents) /\ Len(new) = Len(events) + Len(batch) /\ n \in 0 .. Len(events)
    BY <1>1, InsertFacts
  <2> QED
    BY <1>1, <2>1
<1>5. \A i \in 1 .. Len(events) + Len(batch) :
        \/ i \in 1 .. n /\ new[i] = events[i]
        \/ i > n /\ i - n \in 1 .. Len(batch) /\ new[i] = batch[i - n]
        \/ i - Len(batch) \in n + 1 .. Len(events) /\ new[i] = events[i - Len(batch)]
  BY <1>1, InsertCases
<1> HIDE DEF new, n
<1>6. DOMAIN new = 1 .. Len(events) + 1 /\ DOMAIN events = 1 .. Len(events) /\ Len(events) \in Nat
  BY <1>4
<1>7. ASSUME NEW i \in DOMAIN new
      PROVE  new[i] = e \/ \E j \in DOMAIN events : new[i] = events[j]
  <2>1. i \in 1 .. Len(events) + Len(batch)
    BY <1>1, <1>6
  <2>2. CASE i \in 1 .. n /\ new[i] = events[i]
    <3>1. i \in DOMAIN events
      BY <1>4, <1>6, <2>2
    <3> QED
      BY <2>2, <3>1
  <2>3. CASE i - n \in 1 .. Len(batch) /\ new[i] = batch[i - n]
    <3>1. i - n = 1
      BY <1>1, <2>3
    <3> QED
      BY <1>1, <2>3, <3>1
  <2>4. CASE i - Len(batch) \in n + 1 .. Len(events) /\ new[i] = events[i - Len(batch)]
    <3>1. i - Len(batch) \in DOMAIN events
      BY <1>1, <1>4, <1>6, <2>4
    <3> QED
      BY <2>4, <3>1
  <2> QED
    BY <1>5, <2>1, <2>2, <2>3, <2>4
<1> QED
  BY <1>3, <1>4, <1>7 DEF new, batch, left

\* An event of another kind moves a line.
LEMMA LineInsertOtherOne ==
  ASSUME NEW q \in Seq(Requests), NEW events \in Seq(IPCEvents), NEW what,
         Sorted(events), NEW e \in IPCEvents, e.what # what
  PROVE  Moved(Line(q, Insert(events, e.left, <<e>>), what), Line(q, events, what))
<1> DEFINE batch == <<e>>
<1>1. batch \in Seq(IPCEvents) /\ e.left \in Nat /\ \A i \in DOMAIN batch : batch[i].what # what
  BY EventFacts
<1> HIDE DEF batch
<1>2. Moved(Line(q, Insert(events, e.left, batch), what), Line(q, events, what))
  BY <1>1, LineInsertOther
<1> QED
  BY <1>2 DEF batch

\* Interrupts and acknowledgements are scheduled.
LEMMA GoodInsert ==
  ASSUME NEW b, NEW rq, NEW ev, NEW st, NEW last, NEW due, NEW exec,
         Good(b, rq, ev, st, last, due, exec),
         NEW e \in IPCEvents, e.what \in {"ack", "ints"}
  PROVE  Good(b, rq, Insert(ev, e.left, <<e>>), st, last, due, exec)
<1> DEFINE new == Insert(ev, e.left, <<e>>)
<1>1. b \in Seq(Requests) /\ rq \in Seq(Requests) /\ ev \in Seq(IPCEvents) /\ Sorted(ev)
  BY DEF Good
<1>2. /\ new \in Seq(IPCEvents) /\ Sorted(new)
      /\ \A i \in DOMAIN new : new[i] = e \/ \E j \in DOMAIN ev : new[i] = ev[j]
  BY <1>1, InsertOne
<1>3. Moved(Line(b, new, "reply"), Line(b, ev, "reply"))
  BY <1>1, LineInsertOtherOne
<1>4. Moved(Line(rq, new, "request"), Line(rq, ev, "request"))
  BY <1>1, LineInsertOtherOne
<1> HIDE DEF new
<1>5. Once(Line(b, new, "reply"), Answered(st))
  BY <1>1, <1>2, <1>3, LineDomain, MovedOnce DEF Good
<1>6. Right(Line(b, new, "reply"), due)
  BY <1>1, <1>2, <1>3, LineDomain, MovedRight DEF Good
<1>7. Once(Line(rq, new, "request"), Sent(st) \ exec)
  BY <1>1, <1>2, <1>4, LineDomain, MovedOnce DEF Good
<1>8. InTime(new, last)
  BY <1>2 DEF Good, InTime
<1>9. Good(b, rq, new, st, last, due, exec)
  BY <1>2, <1>5, <1>6, <1>7, <1>8 DEF Good
<1> QED
  BY <1>9 DEF new

\* A device answers: a hook, or the command that is being executed.
LEMMA GoodReply ==
  ASSUME NEW b, NEW rq, NEW ev, NEW st, NEW last, NEW due, NEW exec,
         Good(b, rq, ev, st, last, due, exec),
         NEW e \in IPCEvents, e.what = "reply", st[e.msg] \notin {"answered", "orphan"},
         exec = {e.msg} \/ (exec = {} /\ st[e.msg] # "sent"),
         NEW last2 \in Nat, NEW due2,
         \/ e.msg \notin Commands /\ last2 = last /\ due2 = due
         \/ e.msg \in Commands /\ last <= last2 /\ e.left = last2 /\ due2 = Append(due, e.msg)
  PROVE  Good(b, rq, Insert(ev, e.left, <<e>>), [st EXCEPT ![e.msg] = "answered"],
              last2, due2, {})
<1> DEFINE new == Insert(ev, e.left, <<e>>)
           r == e.msg
           h == Line(b, new, "reply")
           x == Len(b) + Place(ev, e.left) + 1
           now == [st EXCEPT ![r] = "answered"]
<1>1. /\ b \in Seq(Requests) /\ rq \in Seq(Requests) /\ ev \in Seq(IPCEvents) /\ Sorted(ev)
      /\ st \in [Requests -> States] /\ last \in Nat
      /\ InTime(ev, last)
  BY DEF Good
<1>2. r \in Requests /\ e.left \in Nat
  BY EventFacts
<1>3. now \in [Requests -> States] /\ now[r] = "answered"
      /\ \A y \in Requests : y # r => now[y] = st[y]
  BY <1>1, <1>2 DEF States
<1>4. /\ new \in Seq(IPCEvents) /\ Sorted(new)
      /\ \A i \in DOMAIN new : new[i] = e \/ \E j \in DOMAIN ev : new[i] = ev[j]
  BY <1>1, InsertOne
<1>5. /\ x \in DOMAIN h /\ h[x] = r
      /\ Moved(Without(h, x), Line(b, ev, "reply"))
      /\ \A y \in DOMAIN h : y > x => \E i \in DOMAIN ev :
           ev[i].what = "reply" /\ ev[i].msg = h[y] /\ ~(ev[i].left <= e.left)
  <2> DEFINE g == Line(b, new, e.what)
  <2>1. /\ x \in DOMAIN g /\ g[x] = r
        /\ Moved(Without(g, x), Line(b, ev, e.what))
    BY <1>1, <1>2, LineInsertOne
  <2>2. \A y \in DOMAIN g : y > x => \E i \in DOMAIN ev :
          ev[i].what = e.what /\ ev[i].msg = g[y] /\ ~(ev[i].left <= e.left)
    BY <1>1, <1>2, LineInsertOne
  <2> QED
    BY <2>1, <2>2
<1>6. Moved(Line(rq, new, "request"), Line(rq, ev, "request"))
  BY <1>1, LineInsertOtherOne
<1> HIDE DEF new, r, now, x
<1>7. DOMAIN h \subseteq Nat
  BY <1>1, <1>4, LineDomain
<1> HIDE DEF h
<1>8. DOMAIN Without(h, x) \subseteq Nat
  BY <1>7, WithoutDomain
<1>9. Once(Without(h, x), Answered(st)) /\ Right(Without(h, x), due)
  BY <1>1, <1>5, <1>8, LineDomain, MovedOnce, MovedRight DEF Good
<1>10. r \notin Answered(st)
  BY DEF Answered, r
<1>11. Once(h, Answered(now))
  <2>1. Once(h, Answered(st) \cup {r})
    BY <1>5, <1>9, <1>10, AddedOnce
  <2>2. Answered(now) = Answered(st) \cup {r}
    BY <1>2, <1>3 DEF Answered
  <2> QED
    BY <2>1, <2>2
<1>12. Right(h, due2) /\ InTime(new, last2)
  <2>1. h[x] \notin Range(Without(h, x))
    BY <1>5, <1>9, <1>10 DEF Once
  <2>2. CASE r \notin Commands /\ last2 = last /\ due2 = due
    <3>1. Right(h, due2)
      BY <1>5, <1>7, <1>9, <2>1, <2>2, AddedRight
    <3>2. InTime(new, last2)
      BY <1>1, <1>4, <2>2 DEF InTime, r
    <3> QED
      BY <3>1, <3>2
  <2>3. CASE r \in Commands /\ last <= last2 /\ e.left = last2 /\ due2 = Append(due, r)
    <3>1. ASSUME NEW y \in DOMAIN h, h[y] \in Commands, ~(y <= x) PROVE FALSE
      <4>1. y > x
        BY <1>5, <1>7, <3>1
      <4>2. PICK i \in DOMAIN ev :
              ev[i].what = "reply" /\ ev[i].msg = h[y] /\ ~(ev[i].left <= e.left)
        BY <1>5, <4>1
      <4>3. ev[i].left \in Nat
        BY <1>1, EventsFacts
      <4>4. ev[i].left <= last
        BY <1>1, <3>1, <4>2 DEF InTime
      <4> QED
        BY <1>1, <2>3, <4>2, <4>3, <4>4
    <3>2. Right(h, Append(due, h[x]))
      BY <1>5, <1>7, <1>9, <2>1, <2>3, <3>1, AddedRight
    <3>3. InTime(new, last2)
      <4>1. \A j \in DOMAIN ev : ev[j].left \in Nat
        BY <1>1, EventsFacts
      <4> QED
        BY <1>1, <1>2, <1>4, <2>3, <4>1 DEF InTime
    <3> QED
      BY <1>5, <2>3, <3>2, <3>3
  <2> QED
    BY <2>2, <2>3 DEF r
<1>13. Once(Line(rq, new, "request"), Sent(now) \ {})
  <2>1. Once(Line(rq, new, "request"), Sent(st) \ exec)
    BY <1>1, <1>4, <1>6, LineDomain, MovedOnce DEF Good
  <2>2. Sent(now) \ {} = Sent(st) \ exec
    BY <1>2, <1>3 DEF Sent, r
  <2> QED
    BY <2>1, <2>2
<1>14. Good(b, rq, new, now, last2, due2, {})
  BY <1>1, <1>3, <1>4, <1>11, <1>12, <1>13 DEF Good, h
<1> QED
  BY <1>14 DEF new, now, r

\* The game sends a request.
LEMMA GoodSend ==
  ASSUME NEW b, NEW rq, NEW ev, NEW st, NEW last, NEW due,
         Good(b, rq, ev, st, last, due, {}),
         NEW e \in IPCEvents, e.what = "request", st[e.msg] = "idle"
  PROVE  Good(b, rq, Insert(ev, e.left, <<e>>), [st EXCEPT ![e.msg] = "sent"], last, due, {})
<1> DEFINE new == Insert(ev, e.left, <<e>>)
           r == e.msg
           h == Line(rq, new, "request")
           x == Len(rq) + Place(ev, e.left) + 1
           now == [st EXCEPT ![r] = "sent"]
<1>1. /\ b \in Seq(Requests) /\ rq \in Seq(Requests) /\ ev \in Seq(IPCEvents) /\ Sorted(ev)
      /\ st \in [Requests -> States]
      /\ InTime(ev, last)
  BY DEF Good
<1>2. r \in Requests /\ e.left \in Nat
  BY EventFacts
<1>3. now \in [Requests -> States] /\ now[r] = "sent"
      /\ \A y \in Requests : y # r => now[y] = st[y]
  BY <1>1, <1>2 DEF States
<1>4. /\ new \in Seq(IPCEvents) /\ Sorted(new)
      /\ \A i \in DOMAIN new : new[i] = e \/ \E j \in DOMAIN ev : new[i] = ev[j]
  BY <1>1, InsertOne
<1>5. x \in DOMAIN h /\ h[x] = r /\ Moved(Without(h, x), Line(rq, ev, "request"))
  BY <1>1, <1>2, LineInsertOne
<1>6. Moved(Line(b, new, "reply"), Line(b, ev, "reply"))
  BY <1>1, LineInsertOtherOne
<1> HIDE DEF new, r, now, x
<1>7. DOMAIN h \subseteq Nat
  BY <1>1, <1>4, LineDomain
<1> HIDE DEF h
<1>8. DOMAIN Without(h, x) \subseteq Nat
  BY <1>7, WithoutDomain
<1>9. Once(Without(h, x), Sent(st) \ {})
  BY <1>1, <1>5, <1>8, LineDomain, MovedOnce DEF Good
<1>10. Once(h, Sent(now) \ {})
  <2>1. r \notin Sent(st) \ {}
    BY DEF Sent, r
  <2>2. Once(h, (Sent(st) \ {}) \cup {r})
    BY <1>5, <1>9, <2>1, AddedOnce
  <2>3. Sent(now) \ {} = (Sent(st) \ {}) \cup {r}
    BY <1>2, <1>3 DEF Sent
  <2> QED
    BY <2>2, <2>3
<1>11. Once(Line(b, new, "reply"), Answered(now))
  <2>1. Once(Line(b, new, "reply"), Answered(st))
    BY <1>1, <1>4, <1>6, LineDomain, MovedOnce DEF Good
  <2>2. Answered(now) = Answered(st)
    BY <1>2, <1>3 DEF Answered, r
  <2> QED
    BY <2>1, <2>2
<1>12. Right(Line(b, new, "reply"), due)
  BY <1>1, <1>4, <1>6, LineDomain, MovedRight DEF Good
<1>13. InTime(new, last)
  BY <1>1, <1>4 DEF InTime
<1>14. Good(b, rq, new, now, last, due, {})
  BY <1>1, <1>3, <1>4, <1>10, <1>11, <1>12, <1>13 DEF Good, h
<1> QED
  BY <1>14 DEF new, now, r

\* The game has read the reply in the mailbox.
LEMMA GoodTakeReply ==
  ASSUME NEW b, NEW rq, NEW ev, NEW st, NEW last, NEW due,
         Good(b, rq, ev, st, last, due, {}), b # <<>>
  PROVE  Good(Tail(b), rq, ev, [st EXCEPT ![b[1]] = "idle"], last,
              IF due # <<>> /\ due[1] = b[1] THEN Tail(due) ELSE due, {})
<1> DEFINE r == b[1]
           g == Line(b, ev, "reply")
           h == Line(Tail(b), ev, "reply")
           now == [st EXCEPT ![r] = "idle"]
           left == IF due # <<>> /\ due[1] = r THEN Tail(due) ELSE due
<1>1. /\ b \in Seq(Requests) /\ rq \in Seq(Requests) /\ ev \in Seq(IPCEvents)
      /\ st \in [Requests -> States]
      /\ Once(g, Answered(st)) /\ Right(g, due)
  BY DEF Good
<1>2. r \in Requests /\ Tail(b) \in Seq(Requests)
  BY <1>1
<1>3. now \in [Requests -> States] /\ now[r] = "idle"
      /\ \A y \in Requests : y # r => now[y] = st[y]
  BY <1>1, <1>2 DEF States
<1>4. /\ 1 \in DOMAIN g /\ g[1] = r
      /\ \A p \in DOMAIN g : 1 <= p
      /\ Moved(h, Without(g, 1))
  BY <1>1, LinePop
<1>5. DOMAIN g \subseteq Nat /\ DOMAIN h \subseteq Nat
  BY <1>1, <1>2, LineDomain
<1> HIDE DEF g, h, r, now
<1>6. DOMAIN Without(g, 1) \subseteq Nat
  BY <1>5, WithoutDomain
<1>7. Once(Without(g, 1), Answered(st) \ {r})
  BY <1>1, <1>4, DroppedOnce
<1>8. Right(Without(g, 1), left)
  BY <1>1, <1>4, <1>5, DroppedRight DEF Once
<1> HIDE DEF left
<1>9. Once(h, Answered(st) \ {r}) /\ Right(h, left)
  BY <1>4, <1>5, <1>6, <1>7, <1>8, MovedOnce, MovedRight
<1>10. Answered(now) = Answered(st) \ {r}
  BY <1>2, <1>3 DEF Answered
<1>11. Sent(now) \ {} = Sent(st) \ {}
  <2>1. r \in Answered(st)
    BY <1>1, <1>4 DEF Once, Range
  <2> QED
    BY <1>2, <1>3, <2>1 DEF Sent, Answered
<1>12. Good(Tail(b), rq, ev, now, last, left, {})
  BY <1>2, <1>3, <1>9, <1>10, <1>11 DEF Good, h
<1> QED
  BY <1>12 DEF now, r, left

\* The kernel takes a request,
LEMMA GoodTakeRequest ==
  ASSUME NEW b, NEW rq, NEW ev, NEW st, NEW last, NEW due,
         Good(b, rq, ev, st, last, due, {}), rq # <<>>
  PROVE  /\ Good(b, Tail(rq), ev, st, last, due, {rq[1]})
         /\ rq[1] \in Requests /\ st[rq[1]] = "sent"
<1> DEFINE r == rq[1]
           g == Line(rq, ev, "request")
           h == Line(Tail(rq), ev, "request")
<1>1. /\ b \in Seq(Requests) /\ rq \in Seq(Requests) /\ ev \in Seq(IPCEvents)
      /\ Once(g, Sent(st) \ {})
  BY DEF Good
<1>2. r \in Requests /\ Tail(rq) \in Seq(Requests)
  BY <1>1
<1>3. 1 \in DOMAIN g /\ g[1] = r /\ Moved(h, Without(g, 1))
  BY <1>1, LinePop
<1>4. DOMAIN g \subseteq Nat /\ DOMAIN h \subseteq Nat
  BY <1>1, <1>2, LineDomain
<1> HIDE DEF g, h, r
<1>5. DOMAIN Without(g, 1) \subseteq Nat
  BY <1>4, WithoutDomain
<1>6. Once(Without(g, 1), (Sent(st) \ {}) \ {r})
  BY <1>1, <1>3, DroppedOnce
<1>7. Once(h, (Sent(st) \ {}) \ {r})
  BY <1>3, <1>4, <1>5, <1>6, MovedOnce
<1>8. Once(h, Sent(st) \ {r})
  <2>1. (Sent(st) \ {}) \ {r} = Sent(st) \ {r}
    OBVIOUS
  <2> QED
    BY <1>7, <2>1
<1>9. r \in Sent(st)
  BY <1>1, <1>3 DEF Once, Range
<1>10. st[r] = "sent"
  BY <1>9 DEF Sent
<1>11. Good(b, Tail(rq), ev, st, last, due, {r})
  BY <1>2, <1>8 DEF Good, h
<1> QED
  BY <1>2, <1>10, <1>11 DEF r

\* which a device keeps.
LEMMA GoodOpen ==
  ASSUME NEW b, NEW rq, NEW ev, NEW st, NEW last, NEW due, NEW r \in Requests,
         Good(b, rq, ev, st, last, due, {r}), st[r] = "sent"
  PROVE  Good(b, rq, ev, [st EXCEPT ![r] = "open"], last, due, {})
<1> DEFINE now == [st EXCEPT ![r] = "open"]
<1>1. st \in [Requests -> States]
  BY DEF Good
<1>2. now \in [Requests -> States] /\ now[r] = "open"
      /\ \A y \in Requests : y # r => now[y] = st[y]
  BY <1>1 DEF States
<1> HIDE DEF now
<1>3. Answered(now) = Answered(st)
  BY <1>2 DEF Answered
<1>4. Sent(now) \ {} = Sent(st) \ {r}
  BY <1>2 DEF Sent
<1>5. Good(b, rq, ev, now, last, due, {})
  BY <1>2, <1>3, <1>4 DEF Good
<1> QED
  BY <1>5 DEF now

\* The first event runs.
LEMMA GoodRun ==
  ASSUME NEW b, NEW rq, NEW ev, NEW st, NEW last, NEW due,
         Good(b, rq, ev, st, last, due, {}), ev # <<>>
  PROVE  /\ ev[1] \in IPCEvents
         /\ ev[1].what = "request" => Good(b, Append(rq, ev[1].msg), Tail(ev), st, last, due, {})
         /\ ev[1].what = "reply" => Good(Append(b, ev[1].msg), rq, Tail(ev), st, last, due, {})
         /\ ev[1].what \in {"ack", "ints"} => Good(b, rq, Tail(ev), st, last, due, {})
<1> DEFINE rest == Tail(ev)
<1>1. /\ b \in Seq(Requests) /\ rq \in Seq(Requests) /\ ev \in Seq(IPCEvents) /\ Sorted(ev)
      /\ Once(Line(b, ev, "reply"), Answered(st)) /\ Right(Line(b, ev, "reply"), due)
      /\ Once(Line(rq, ev, "request"), Sent(st) \ {})
  BY DEF Good
<1>2. rest \in Seq(IPCEvents) /\ Sorted(rest)
  BY <1>1, TailSorted
<1>3. InTime(rest, last)
  <2>1. /\ DOMAIN rest = 1 .. Len(ev) - 1 /\ DOMAIN ev = 1 .. Len(ev) /\ Len(ev) \in Nat
        /\ \A i \in 1 .. Len(ev) - 1 : rest[i] = ev[i + 1]
    BY <1>1
  <2>2. InTime(ev, last)
    BY DEF Good
  <2> HIDE DEF rest
  <2>3. \A i \in DOMAIN rest : i + 1 \in DOMAIN ev /\ rest[i] = ev[i + 1]
    BY <2>1
  <2> QED
    BY <2>2, <2>3 DEF InTime
<1>4. 1 \in DOMAIN ev
  BY <1>1
<1>5. /\ ev[1] \in IPCEvents
      /\ ev[1].what \in {"request", "reply"} => ev[1].msg \in Requests
  BY <1>1, <1>4, EventsFacts
<1>6. ASSUME ev[1].what # "reply"
      PROVE  Once(Line(b, rest, "reply"), Answered(st)) /\ Right(Line(b, rest, "reply"), due)
  <2>1. Moved(Line(b, rest, "reply"), Line(b, ev, "reply"))
    BY <1>1, <1>6, LineTail
  <2> HIDE DEF rest
  <2> QED
    BY <1>1, <1>2, <2>1, LineDomain, MovedOnce, MovedRight
<1>7. ASSUME ev[1].what # "request"
      PROVE  Once(Line(rq, rest, "request"), Sent(st) \ {})
  <2>1. Moved(Line(rq, rest, "request"), Line(rq, ev, "request"))
    BY <1>1, <1>7, LineTail
  <2> HIDE DEF rest
  <2> QED
    BY <1>1, <1>2, <2>1, LineDomain, MovedOnce
<1>8. ASSUME ev[1].what = "request"
      PROVE  Good(b, Append(rq, ev[1].msg), rest, st, last, due, {})
  <2>1. Line(Append(rq, ev[1].msg), rest, "request") = Line(rq, ev, "request")
    BY <1>1, <1>8, LineShift
  <2>2. Append(rq, ev[1].msg) \in Seq(Requests)
    BY <1>1, <1>5, <1>8
  <2> HIDE DEF rest
  <2>3. Once(Line(Append(rq, ev[1].msg), rest, "request"), Sent(st) \ {})
    BY <1>1, <2>1
  <2>4. Once(Line(b, rest, "reply"), Answered(st)) /\ Right(Line(b, rest, "reply"), due)
    BY <1>6, <1>8
  <2> QED
    BY <1>2, <1>3, <2>2, <2>3, <2>4 DEF Good
<1>9. ASSUME ev[1].what = "reply"
      PROVE  Good(Append(b, ev[1].msg), rq, rest, st, last, due, {})
  <2>1. Line(Append(b, ev[1].msg), rest, "reply") = Line(b, ev, "reply")
    BY <1>1, <1>9, LineShift
  <2>2. Append(b, ev[1].msg) \in Seq(Requests)
    BY <1>1, <1>5, <1>9
  <2> HIDE DEF rest
  <2>3. Once(Line(rq, rest, "request"), Sent(st) \ {})
    BY <1>7, <1>9
  <2>4. /\ Once(Line(Append(b, ev[1].msg), rest, "reply"), Answered(st))
        /\ Right(Line(Append(b, ev[1].msg), rest, "reply"), due)
    BY <1>1, <2>1
  <2> QED
    BY <1>2, <1>3, <2>2, <2>3, <2>4 DEF Good
<1>10. ASSUME ev[1].what \in {"ack", "ints"}
       PROVE  Good(b, rq, rest, st, last, due, {})
  <2>1. ev[1].what # "reply" /\ ev[1].what # "request"
    BY <1>10
  <2> HIDE DEF rest
  <2>2. /\ Once(Line(b, rest, "reply"), Answered(st)) /\ Right(Line(b, rest, "reply"), due)
        /\ Once(Line(rq, rest, "request"), Sent(st) \ {})
    BY <1>6, <1>7, <2>1
  <2> QED
    BY <1>2, <1>3, <2>2 DEF Good
<1> QED
  BY <1>5, <1>8, <1>9, <1>10

\* Time goes on.
LEMMA GoodTick ==
  ASSUME NEW b, NEW rq, NEW ev, NEW st, NEW last, NEW due,
         Good(b, rq, ev, st, last, due, {}),
         \A i \in DOMAIN ev : ev[i].left > 0
  PROVE  Good(b, rq, [i \in DOMAIN ev |-> Event(ev[i].left - 1, ev[i].what, ev[i].msg)], st,
              IF last > 0 THEN last - 1 ELSE 0, due, {})
<1> DEFINE new == [i \in DOMAIN ev |-> Event(ev[i].left - 1, ev[i].what, ev[i].msg)]
           rest == IF last > 0 THEN last - 1 ELSE 0
<1>1. /\ b \in Seq(Requests) /\ rq \in Seq(Requests) /\ ev \in Seq(IPCEvents) /\ Sorted(ev)
      /\ last \in Nat /\ InTime(ev, last)
  BY DEF Good
<1>2. DOMAIN ev = 1 .. Len(ev) /\ Len(ev) \in Nat
      /\ \A i \in DOMAIN ev : ev[i] \in IPCEvents /\ ev[i].left \in Nat
  BY <1>1, EventsFacts
<1>3. ASSUME NEW e \in IPCEvents, e.left > 0
      PROVE  LET d == Event(e.left - 1, e.what, e.msg)
             IN  d \in IPCEvents /\ d.left = e.left - 1 /\ d.what = e.what /\ d.msg = e.msg
  BY <1>3 DEF IPCEvents, Event
<1>4. DOMAIN new = DOMAIN ev /\ \A i \in DOMAIN ev :
        /\ new[i] \in IPCEvents /\ new[i].left = ev[i].left - 1
        /\ new[i].what = ev[i].what /\ new[i].msg = ev[i].msg
  <2> SUFFICES ASSUME NEW i \in DOMAIN ev
               PROVE  /\ new[i] \in IPCEvents /\ new[i].left = ev[i].left - 1
                      /\ new[i].what = ev[i].what /\ new[i].msg = ev[i].msg
    OBVIOUS
  <2>1. new[i] = Event(ev[i].left - 1, ev[i].what, ev[i].msg)
    OBVIOUS
  <2> HIDE DEF new
  <2> QED
    BY <1>2, <1>3, <2>1
<1>5. new \in Seq(IPCEvents)
  <2>1. new \in [1 .. Len(ev) -> IPCEvents]
    BY <1>2, <1>4
  <2> HIDE DEF new
  <2> QED
    BY <1>2, <2>1
<1>6. rest \in Nat /\ \A n \in Nat : n <= last /\ n > 0 => n - 1 <= rest
  BY <1>1
<1> HIDE DEF new, rest
<1>7. Sorted(new)
  BY <1>1, <1>2, <1>4 DEF Sorted
<1>8. InTime(new, rest)
  BY <1>1, <1>2, <1>4, <1>6 DEF InTime
<1>9. /\ Line(b, new, "reply") = Line(b, ev, "reply")
      /\ Line(rq, new, "request") = Line(rq, ev, "request")
  BY <1>1, <1>4, <1>5, LineSame
<1>10. Good(b, rq, new, st, rest, due, {})
  BY <1>1, <1>5, <1>6, <1>7, <1>8, <1>9 DEF Good
<1> QED
  BY <1>10 DEF new, rest

\* The kernel is a new one, and late are the replies of closing devices.
LEMMA GoodBoot ==
  ASSUME NEW ev \in Seq(IPCEvents), Sorted(ev), \A i \in DOMAIN ev : ev[i].what = "ints",
         NEW late \in Seq(Hooks), IsInjective(late)
  PROVE  Good(<<>>, <<>>, Insert(ev, 0, [i \in DOMAIN late |-> Event(0, "reply", late[i])]),
              [r \in Requests |-> IF r \in Range(late) THEN "orphan" ELSE "idle"], 0, <<>>, {})
<1> DEFINE batch == [i \in DOMAIN late |-> Event(0, "reply", late[i])]
           new == Insert(ev, 0, batch)
           now == [r \in Requests |-> IF r \in Range(late) THEN "orphan" ELSE "idle"]
           m == Len(batch)
           n == Place(ev, 0)
           none == <<>>
           h == Line(none, new, "reply")
           g == Line(none, new, "request")
<1>1. DOMAIN late = 1 .. Len(late) /\ Len(late) \in Nat
      /\ \A i \in DOMAIN late : late[i] \in Hooks /\ late[i] \in Requests
  BY DEF Requests
<1>2. \A i \in DOMAIN late : /\ batch[i] \in IPCEvents /\ batch[i].left = 0
                             /\ batch[i].what = "reply" /\ batch[i].msg = late[i]
  <2> SUFFICES ASSUME NEW i \in DOMAIN late
               PROVE  /\ batch[i] \in IPCEvents /\ batch[i].left = 0
                      /\ batch[i].what = "reply" /\ batch[i].msg = late[i]
    OBVIOUS
  <2>1. batch[i] = Event(0, "reply", late[i]) /\ 0 \in Nat /\ late[i] \in Requests
    BY <1>1
  <2> HIDE DEF batch
  <2> QED
    BY <2>1, EventTypes
<1>3. batch \in Seq(IPCEvents) /\ m = Len(late) /\ DOMAIN batch = DOMAIN late
  <2>1. batch \in [1 .. Len(late) -> IPCEvents]
    BY <1>1, <1>2
  <2>2. DOMAIN batch = DOMAIN late
    OBVIOUS
  <2> HIDE DEF batch
  <2> QED
    BY <1>1, <2>1, <2>2
<1> HIDE DEF batch
<1>4. /\ n \in 0 .. Len(ev) /\ new \in Seq(IPCEvents) /\ Len(new) = Len(ev) + m
      /\ \A i \in 1 .. m : new[n + i] = batch[i]
  <2>1. batch \in Seq(IPCEvents) /\ 0 \in Nat
    BY <1>3
  <2> QED
    BY <2>1, InsertFacts
<1>5. \A i \in 1 .. Len(ev) + m :
        \/ i \in 1 .. n /\ new[i] = ev[i]
        \/ i > n /\ i - n \in 1 .. m /\ new[i] = batch[i - n]
        \/ i - m \in n + 1 .. Len(ev) /\ new[i] = ev[i - m]
  BY <1>3, InsertCases
<1>6. Sorted(new)
  BY <1>2, <1>3, InsertSorts
<1> HIDE DEF new, n, m
<1>7. n \in Nat /\ m \in Nat /\ Len(ev) \in Nat /\ DOMAIN ev = 1 .. Len(ev)
      /\ DOMAIN new = 1 .. Len(ev) + m /\ Len(new) = Len(ev) + m
  BY <1>1, <1>3, <1>4
<1>8. ASSUME NEW i \in DOMAIN new, new[i].what # "ints"
      PROVE  /\ i > n /\ i - n \in DOMAIN late /\ new[i].what = "reply"
             /\ new[i].msg = late[i - n]
  <2>1. ~(i \in 1 .. n /\ new[i] = ev[i])
    BY <1>4, <1>7, <1>8
  <2>2. ~(i - m \in n + 1 .. Len(ev) /\ new[i] = ev[i - m])
    BY <1>7, <1>8
  <2>3. i > n /\ i - n \in 1 .. m /\ new[i] = batch[i - n]
    BY <1>5, <1>7, <2>1, <2>2
  <2> QED
    BY <1>1, <1>2, <1>3, <2>3
<1>9. none \in Seq(Requests) /\ Len(none) = 0 /\ none \in Seq(Commands) /\ DOMAIN none = {}
  OBVIOUS
<1> HIDE DEF none
<1>10. /\ DOMAIN h \subseteq Nat
       /\ \A i \in 1 .. Len(new) : new[i].what = "reply" => i \in DOMAIN h /\ h[i] = new[i].msg
       /\ \A p \in DOMAIN h : p \in 1 .. Len(new) /\ new[p].what = "reply"
  <2>1. new \in Seq(IPCEvents) /\ none \in Seq(Requests)
    BY <1>4, <1>9
  <2>2. /\ DOMAIN h \subseteq Nat
        /\ \A i \in 1 .. Len(new) : new[i].what = "reply" =>
             Len(none) + i \in DOMAIN h /\ h[Len(none) + i] = new[i].msg
        /\ \A p \in DOMAIN h :
             \/ p \in 1 .. Len(none)
             \/ p > Len(none) /\ p - Len(none) \in 1 .. Len(new) /\ new[p - Len(none)].what = "reply"
    BY <2>1, LineFacts
  <2> HIDE DEF h
  <2>3. \A p \in Nat : Len(none) + p = p /\ p - Len(none) = p /\ ~(p \in 1 .. Len(none))
    BY <1>9
  <2>4. \A i \in 1 .. Len(new) : i \in Nat
    BY <1>7
  <2> QED
    BY <2>2, <2>3, <2>4
<1>11. DOMAIN g = {}
  <2>1. new \in Seq(IPCEvents) /\ none \in Seq(Requests)
    BY <1>4, <1>9
  <2>2. /\ DOMAIN g \subseteq Nat
        /\ \A p \in DOMAIN g :
             \/ p \in 1 .. Len(none)
             \/ p > Len(none) /\ p - Len(none) \in 1 .. Len(new) /\ new[p - Len(none)].what = "request"
    BY <2>1, LineFacts
  <2> HIDE DEF g
  <2>3. \A p \in Nat : p - Len(none) = p /\ ~(p \in 1 .. Len(none))
    BY <1>9
  <2>4. \A p \in DOMAIN g : p \in DOMAIN new /\ new[p].what = "request"
    BY <1>7, <2>2, <2>3
  <2> QED
    BY <1>8, <2>4
<1> HIDE DEF h, g
<1>12. \A p \in DOMAIN h : p \in Nat /\ p > n /\ p - n \in DOMAIN late /\ h[p] = late[p - n]
  BY <1>7, <1>8, <1>10
<1>13. \A i \in DOMAIN late : n + i \in DOMAIN h /\ h[n + i] = late[i]
  <2> SUFFICES ASSUME NEW i \in DOMAIN late PROVE n + i \in DOMAIN h /\ h[n + i] = late[i]
    OBVIOUS
  <2>1. i \in 1 .. m /\ n + i \in 1 .. Len(new)
    BY <1>1, <1>3, <1>4, <1>7
  <2>2. new[n + i] = batch[i]
    BY <1>4, <2>1
  <2> QED
    BY <1>2, <1>10, <2>1, <2>2
<1>14. Range(h) = Range(late)
  BY <1>12, <1>13 DEF Range
<1>15. IsInjective(h)
  <2> SUFFICES ASSUME NEW p \in DOMAIN h, NEW q \in DOMAIN h, h[p] = h[q] PROVE p = q
    BY DEF IsInjective
  <2>1. p - n = q - n
    BY <1>12 DEF IsInjective
  <2> QED
    BY <1>7, <1>12, <2>1
<1>16. Range(late) \subseteq Requests /\ Range(late) \cap Commands = {}
  BY <1>1, IPCAssumption DEF Range
<1>17. /\ now \in [Requests -> States]
       /\ \A r \in Requests : now[r] = IF r \in Range(late) THEN "orphan" ELSE "idle"
  BY DEF States
<1> HIDE DEF now
<1>18. Answered(now) = Range(late) /\ Sent(now) \ {} = {}
  BY <1>16, <1>17 DEF Answered, Sent
<1>19. Once(h, Answered(now))
  BY <1>14, <1>15, <1>18 DEF Once
<1>20. Right(h, none)
  <2>1. IsInjective(none) /\ Range(none) = {}
    BY <1>9 DEF IsInjective, Range
  <2> QED
    BY <1>9, <1>14, <1>16, <2>1 DEF Right
<1>21. Once(g, Sent(now) \ {})
  BY <1>11, <1>18 DEF Once, IsInjective, Range
<1>22. InTime(new, 0)
  <2>1. \A i \in DOMAIN late : late[i] \notin Commands
    BY <1>16 DEF Range
  <2> QED
    BY <1>8, <2>1 DEF InTime
<1>23. Good(none, none, new, now, 0, none, {})
  BY <1>4, <1>6, <1>9, <1>17, <1>19, <1>20, <1>21, <1>22 DEF Good, h, g
<1> QED
  BY <1>23 DEF new, now, batch, none
-----------------------------------------------------------------------------
(***************************************************************************)
(* What the operators of the model do to a record.                         *)
(***************************************************************************)
LEMMA KernelTypes ==
  ASSUME NEW s \in Kernels
  PROVE  /\ s.y1 \in BOOLEAN /\ s.y2 \in BOOLEAN /\ s.iy \in BOOLEAN
         /\ s.flag \in BOOLEAN /\ s.mask \in BOOLEAN /\ s.pi \in BOOLEAN
         /\ s.arm \in Requests \cup {Dummy}
         /\ s.requests \in Seq(Requests) /\ s.replies \in Seq(Requests) /\ s.acks \in Seq({Dummy})
         /\ s.last \in Nat /\ s.events \in Seq(IPCEvents)
         /\ s.state \in [Requests -> States] /\ s.due \in Seq(Commands)
  BY DEF Kernels, States

\* The fields that the invariant is about.
SameLines(t, s) ==
  /\ t.y1 = s.y1 /\ (s.y1 => t.arm = s.arm) /\ t.replies = s.replies
  /\ t.requests = s.requests /\ t.events = s.events
  /\ t.state = s.state /\ t.last = s.last /\ t.due = s.due

\* What is about other fields keeps the invariant.
LEMMA InvSame ==
  ASSUME NEW s, NEW exec, Inv(s, exec), NEW t \in Kernels, SameLines(t, s)
  PROVE  Inv(t, exec)
<1>1. Behind(t) = Behind(s)
  BY DEF Behind, SameLines
<1> QED
  BY <1>1 DEF Inv, SameLines

\* Only the events differ.
LEMMA KernelEvents ==
  ASSUME NEW s \in Kernels, NEW events \in Seq(IPCEvents)
  PROVE  LET t == [s EXCEPT !.events = events]
         IN  /\ t \in Kernels /\ t.events = events
             /\ t.y1 = s.y1 /\ t.arm = s.arm /\ t.replies = s.replies /\ t.requests = s.requests
             /\ t.state = s.state /\ t.last = s.last /\ t.due = s.due
  BY DEF Kernels

\* A new event of interrupts, or a dummy acknowledgement.
LEMMA InvSchedule ==
  ASSUME NEW s, NEW exec, Inv(s, exec), NEW left \in Nat, NEW what \in {"ack", "ints"}
  PROVE  LET t == ScheduleEvent(s, left, what, Dummy)
         IN  Inv(t, exec) /\ t.y1 = s.y1 /\ t.state = s.state
<1> DEFINE e == Event(left, what, Dummy)
           new == Insert(s.events, e.left, <<e>>)
           t == ScheduleEvent(s, left, what, Dummy)
<1>1. s \in Kernels /\ s.events \in Seq(IPCEvents) /\ Sorted(s.events)
  BY DEF Inv, Good
<1>2. e \in IPCEvents /\ e.left = left /\ e.what = what
  BY EventTypes
<1> HIDE DEF e
<1>3. t = [s EXCEPT !.events = new]
  BY <1>2 DEF ScheduleEvent, e
<1>4. new \in Seq(IPCEvents)
  BY <1>1, <1>2, InsertOne
<1>5. Good(Behind(s), s.requests, new, s.state, s.last, s.due, exec)
  BY <1>2, GoodInsert DEF Inv
<1> HIDE DEF new, t
<1>6. /\ t \in Kernels /\ t.events = new
      /\ t.y1 = s.y1 /\ t.arm = s.arm /\ t.replies = s.replies /\ t.requests = s.requests
      /\ t.state = s.state /\ t.last = s.last /\ t.due = s.due
  BY <1>1, <1>3, <1>4, KernelEvents
<1>7. Behind(t) = Behind(s)
  BY <1>6 DEF Behind
<1>8. Inv(t, exec)
  BY <1>5, <1>6, <1>7 DEF Inv
<1> QED
  BY <1>6, <1>8 DEF t

LEMMA InvUpdateInterrupts ==
  ASSUME NEW s, NEW exec, Inv(s, exec)
  PROVE  Inv(UpdateInterrupts(s), exec)
<1> DEFINE t == UpdateInterrupts(s)
<1>1. s \in Kernels
  BY DEF Inv
<1>2. t \in Kernels /\ SameLines(t, s)
  BY <1>1 DEF UpdateInterrupts, Kernels, SameLines
<1> HIDE DEF t
<1>3. Inv(t, exec)
  BY <1>2, InvSame
<1> QED
  BY <1>3 DEF t

\* An acknowledgement overwrites no reply: the mailbox is free.
LEMMA InvGenerateAck ==
  ASSUME NEW s, NEW exec, Inv(s, exec), ~s.y1, NEW msg \in Requests \cup {Dummy}
  PROVE  LET t == GenerateAck(s, msg)
         IN  Inv(t, exec) /\ ~t.y1 /\ t.state = s.state
<1> DEFINE u == [s EXCEPT !.arm = msg, !.y2 = TRUE]
           t == ScheduleEvent(u, 1, "ints", Dummy)
<1>1. s \in Kernels
  BY DEF Inv
<1>2. u \in Kernels /\ SameLines(u, s)
  BY <1>1 DEF Kernels, SameLines
<1>3. u.y1 = s.y1 /\ u.state = s.state
  BY <1>2 DEF SameLines
<1> HIDE DEF u
<1>4. Inv(u, exec)
  BY <1>2, InvSame
<1>5. Inv(t, exec) /\ t.y1 = u.y1 /\ t.state = u.state
  BY <1>4, InvSchedule
<1>6. t = GenerateAck(s, msg)
  BY DEF GenerateAck, ScheduleInterrupts, u
<1> HIDE DEF t
<1> QED
  BY <1>3, <1>5, <1>6

\* A reply goes from the queue to the mailbox.
LEMMA InvGenerateReply ==
  ASSUME NEW s, NEW exec, Inv(s, exec), ~s.y1, s.replies # <<>>
  PROVE  Inv(GenerateReply([s EXCEPT !.replies = Tail(@)], s.replies[1]), exec)
<1> DEFINE msg == s.replies[1]
           rest == Tail(s.replies)
           u == [[s EXCEPT !.replies = Tail(@)] EXCEPT !.arm = msg, !.y1 = TRUE]
<1>1. s \in Kernels /\ s.replies \in Seq(Requests) /\ s.y1 = FALSE
  BY KernelTypes DEF Inv
<1>2. msg \in Requests /\ rest \in Seq(Requests) /\ <<msg>> \o rest = s.replies
  BY <1>1
<1>3. /\ u \in Kernels /\ u.y1 = TRUE /\ u.arm = msg /\ u.replies = rest
      /\ u.requests = s.requests /\ u.events = s.events
      /\ u.state = s.state /\ u.last = s.last /\ u.due = s.due
  <2> HIDE DEF msg
  <2>1. rest = Tail(s.replies)
    OBVIOUS
  <2> QED
    BY <1>1, <1>2, <2>1 DEF Kernels
<1> HIDE DEF msg, rest, u
<1>4. Behind(u) = s.replies /\ Behind(s) = s.replies
  BY <1>1, <1>2, <1>3 DEF Behind
<1>5. Inv(u, exec)
  BY <1>2, <1>3, <1>4 DEF Inv
<1>6. GenerateReply([s EXCEPT !.replies = Tail(@)], s.replies[1]) = UpdateInterrupts(u)
  BY DEF GenerateReply, u, msg
<1> QED
  BY <1>5, <1>6, InvUpdateInterrupts

\* A device answers a hook.
LEMMA InvDeviceReply ==
  ASSUME NEW s, Inv(s, {}), NEW r \in Hooks, s.state[r] = "open"
  PROVE  Inv(EnqueueIPCReply(s, r, 0), {})
<1> DEFINE e == Event(0, "reply", r)
           new == Insert(s.events, e.left, <<e>>)
           now == [s.state EXCEPT ![r] = "answered"]
           t == EnqueueIPCReply(s, r, 0)
<1>1. /\ s \in Kernels /\ s.events \in Seq(IPCEvents) /\ Sorted(s.events)
      /\ s.last \in Nat /\ s.state \in [Requests -> States]
  BY DEF Inv, Good
<1>2. r \in Requests /\ r \notin Commands
  BY IPCAssumption DEF Requests
<1>3. e \in IPCEvents /\ e.left = 0 /\ e.what = "reply" /\ e.msg = r
  BY <1>2, EventTypes
<1> HIDE DEF e
<1>4. t = [[s EXCEPT !.state[r] = "answered"] EXCEPT !.events = new]
  <2>1. new = Insert(s.events, 0, <<e>>)
    BY <1>3
  <2>2. [s EXCEPT !.state[r] = "answered"].events = s.events
    BY <1>1 DEF Kernels
  <2> HIDE DEF new
  <2> QED
    BY <2>1, <2>2 DEF EnqueueIPCReply, ScheduleEvent, e
<1>5. new \in Seq(IPCEvents)
  BY <1>1, <1>3, InsertOne
<1>6. Good(Behind(s), s.requests, new, now, s.last, s.due, {})
  <2>1. Good(Behind(s), s.requests, s.events, s.state, s.last, s.due, {})
    BY DEF Inv
  <2>2. s.state[e.msg] \notin {"answered", "orphan"} /\ s.state[e.msg] # "sent"
    BY <1>3
  <2>3. Good(Behind(s), s.requests, Insert(s.events, e.left, <<e>>),
             [s.state EXCEPT ![e.msg] = "answered"], s.last, s.due, {})
    BY <1>1, <1>2, <1>3, <2>1, <2>2, GoodReply
  <2> QED
    BY <1>3, <2>3
<1>7. now \in [Requests -> States]
  BY <1>1 DEF States
<1> HIDE DEF new, t
<1>8. /\ t \in Kernels /\ t.events = new /\ t.state = now
      /\ t.y1 = s.y1 /\ t.arm = s.arm /\ t.replies = s.replies /\ t.requests = s.requests
      /\ t.last = s.last /\ t.due = s.due
  BY <1>1, <1>4, <1>5, <1>7 DEF Kernels, States
<1>9. Behind(t) = Behind(s)
  BY <1>8 DEF Behind
<1>10. Inv(t, {})
  BY <1>6, <1>8, <1>9 DEF Inv
<1> QED
  BY <1>10 DEF t

\* The reply to the command that is being executed.
LEMMA InvReplyToCommand ==
  ASSUME NEW s, NEW r \in Commands, Inv(s, {r}), s.state[r] = "sent", NEW delay \in Nat
  PROVE  Inv(ReplyToCommand(s, r, delay), {})
<1> DEFINE left == s.last + delay
           e == Event(left, "reply", r)
           new == Insert(s.events, e.left, <<e>>)
           now == [s.state EXCEPT ![r] = "answered"]
           all == Append(s.due, r)
           t == ReplyToCommand(s, r, delay)
           u == [s EXCEPT !.last = @ + delay, !.due = Append(@, r)]
<1>1. /\ s \in Kernels /\ s.events \in Seq(IPCEvents) /\ Sorted(s.events)
      /\ s.last \in Nat /\ s.state \in [Requests -> States] /\ s.due \in Seq(Commands)
  BY KernelTypes DEF Inv, Good
<1>2. r \in Requests /\ left \in Nat /\ s.last <= left /\ all \in Seq(Commands)
  BY <1>1 DEF Requests
<1> HIDE DEF left, all
<1>3. e \in IPCEvents /\ e.left = left /\ e.what = "reply" /\ e.msg = r
  BY <1>2, EventTypes
<1> HIDE DEF e
<1>4. /\ u = [s EXCEPT !.last = left, !.due = all]
      /\ u.events = s.events
  BY <1>1 DEF Kernels, left, all
<1>5. t = [[u EXCEPT !.state[r] = "answered"] EXCEPT !.events = new]
  <2>1. new = Insert(s.events, left, <<e>>)
    BY <1>3
  <2>2. [u EXCEPT !.state[r] = "answered"].events = s.events
    BY <1>1, <1>4 DEF Kernels
  <2>3. t = EnqueueIPCReply(u, r, left)
    BY DEF ReplyToCommand, left
  <2> HIDE DEF new, t, u
  <2> QED
    BY <2>1, <2>2, <2>3 DEF EnqueueIPCReply, ScheduleEvent, e
<1>6. new \in Seq(IPCEvents)
  BY <1>1, <1>3, InsertOne
<1>7. Good(Behind(s), s.requests, new, now, left, all, {})
  <2>1. Good(Behind(s), s.requests, s.events, s.state, s.last, s.due, {r})
    BY DEF Inv
  <2>2. s.state[e.msg] \notin {"answered", "orphan"} /\ {r} = {e.msg}
        /\ e.msg \in Commands /\ e.left = left /\ all = Append(s.due, e.msg)
    BY <1>3 DEF all
  <2>3. Good(Behind(s), s.requests, Insert(s.events, e.left, <<e>>),
             [s.state EXCEPT ![e.msg] = "answered"], left, all, {})
    BY <1>1, <1>2, <1>3, <2>1, <2>2, GoodReply
  <2> QED
    BY <1>3, <2>3
<1>8. now \in [Requests -> States]
  BY <1>1 DEF States
<1> HIDE DEF new, t, u
<1>9. /\ t \in Kernels /\ t.events = new /\ t.state = now /\ t.last = left /\ t.due = all
      /\ t.y1 = s.y1 /\ t.arm = s.arm /\ t.replies = s.replies /\ t.requests = s.requests
  BY <1>1, <1>2, <1>4, <1>5, <1>6, <1>8 DEF Kernels, States
<1>10. Behind(t) = Behind(s)
  BY <1>9 DEF Behind
<1>11. Inv(t, {})
  BY <1>7, <1>9, <1>10 DEF Inv
<1> QED
  BY <1>11 DEF t

\* No line of the old kernel is left.
LEMMA InvBootIOS ==
  ASSUME NEW s, NEW exec, Inv(s, exec), ~s.y1, NEW late \in Seq(Hooks), IsInjective(late)
  PROVE  Inv(BootIOS(s, late), {})
<1> DEFINE kept == RemoveAllEvents(s.events)
           batch == [i \in DOMAIN late |-> Event(0, "reply", late[i])]
           new == Insert(kept, 0, batch)
           now == [r \in Requests |-> IF r \in Range(late) THEN "orphan" ELSE "idle"]
           fresh == NewKernel([s EXCEPT !.events = RemoveAllEvents(@)])
           t == LateReplies(fresh, late)
<1>1. s \in Kernels /\ s.events \in Seq(IPCEvents) /\ Sorted(s.events) /\ s.y1 = FALSE
  BY KernelTypes DEF Inv, Good
<1>2. /\ kept \in Seq(IPCEvents) /\ Sorted(kept)
      /\ \A i \in DOMAIN kept : kept[i].what = "ints"
  BY <1>1, RemoveAllFacts
<1> HIDE DEF kept
<1>3. Good(<<>>, <<>>, new, now, 0, <<>>, {})
  BY <1>2, GoodBoot
<1>4. new \in Seq(IPCEvents) /\ now \in [Requests -> States]
  BY <1>3 DEF Good
<1>5. fresh = [s EXCEPT !.events = kept, !.requests = <<>>, !.replies = <<>>, !.acks = <<>>,
                        !.last = 0, !.due = <<>>, !.state = [r \in Requests |-> "idle"]]
  BY <1>1 DEF NewKernel, Kernels, kept
<1>6. /\ fresh \in Kernels /\ fresh.events = kept /\ fresh.state = [r \in Requests |-> "idle"]
      /\ fresh.y1 = FALSE /\ fresh.replies = <<>> /\ fresh.requests = <<>>
      /\ fresh.last = 0 /\ fresh.due = <<>>
  <2>1. <<>> \in Seq(Requests) /\ <<>> \in Seq({Dummy}) /\ <<>> \in Seq(Commands) /\ 0 \in Nat
    OBVIOUS
  <2>2. [r \in Requests |-> "idle"] \in [Requests -> {"idle", "sent", "open", "answered", "orphan"}]
    OBVIOUS
  <2> HIDE DEF fresh
  <2> QED
    BY <1>1, <1>2, <1>5, <2>1, <2>2 DEF Kernels
<1> HIDE DEF fresh
<1>7. t = [fresh EXCEPT !.state = now, !.events = new]
  BY <1>6 DEF LateReplies
<1> HIDE DEF now, batch, new, t
<1>8. /\ t \in Kernels /\ t.events = new /\ t.state = now /\ t.y1 = FALSE
      /\ t.replies = <<>> /\ t.requests = <<>> /\ t.last = 0 /\ t.due = <<>>
  BY <1>4, <1>6, <1>7 DEF Kernels, States
<1>9. Behind(t) = <<>>
  BY <1>8 DEF Behind
<1>10. Inv(t, {})
  BY <1>3, <1>8, <1>9 DEF Inv
<1>11. BootIOS(s, late) = ScheduleEvent(t, 0, "ack", Dummy)
  BY DEF BootIOS, t, fresh
<1>12. Inv(ScheduleEvent(t, 0, "ack", Dummy), {})
  BY <1>10, InvSchedule
<1> QED
  BY <1>11, <1>12

\* What the devices do.
Outcome(o) == o.delay \in Nat /\ o.late \in Seq(Hooks) /\ IsInjective(o.late)

LEMMA OutcomeTypes ==
  ASSUME NEW s, NEW o \in Outcomes(s)
  PROVE  Outcome(o)
<1>1. o.delay \in Delays /\ o.late \in SeqOf(Open(s), Cardinality(Open(s))) /\ IsInjective(o.late)
  BY DEF Outcomes
<1>2. PICK m \in 0 .. Cardinality(Open(s)) : o.late \in [1 .. m -> Open(s)]
  BY <1>1 DEF SeqOf
<1>3. Open(s) \subseteq Hooks
  BY DEF Open
<1>4. o.late \in Seq(Hooks)
  BY <1>2, <1>3
<1> QED
  BY <1>1, <1>4, IPCAssumption DEF Outcome

\* The three kinds of requests.
LEMMA InvExecute ==
  ASSUME NEW s, NEW msg \in Requests, Inv(s, {msg}), s.state[msg] = "sent", ~s.y1,
         NEW o, Outcome(o)
  PROVE  Inv(ExecuteIPCCommand(s, msg, o), {})
<1>1. CASE msg \in Commands
  <2>1. ExecuteIPCCommand(s, msg, o) = ReplyToCommand(s, msg, o.delay)
    BY <1>1, IPCAssumption DEF ExecuteIPCCommand
  <2> QED
    BY <1>1, <2>1, InvReplyToCommand DEF Outcome
<1>2. CASE msg \in Hooks
  <2> DEFINE t == [s EXCEPT !.state[msg] = "open"]
             now == [s.state EXCEPT ![msg] = "open"]
  <2>1. ExecuteIPCCommand(s, msg, o) = t
    BY <1>2, IPCAssumption DEF ExecuteIPCCommand
  <2>2. s \in Kernels /\ s.state \in [Requests -> States]
    BY KernelTypes DEF Inv
  <2>3. Good(Behind(s), s.requests, s.events, now, s.last, s.due, {})
    BY GoodOpen DEF Inv
  <2>4. now \in [Requests -> States]
    BY <2>2 DEF States
  <2>5. /\ t \in Kernels /\ t.state = now /\ t.events = s.events
        /\ t.y1 = s.y1 /\ t.arm = s.arm /\ t.replies = s.replies /\ t.requests = s.requests
        /\ t.last = s.last /\ t.due = s.due
    BY <2>2, <2>4 DEF Kernels, States
  <2> HIDE DEF t, now
  <2>6. Behind(t) = Behind(s)
    BY <2>5 DEF Behind
  <2>7. Inv(t, {})
    BY <2>3, <2>5, <2>6 DEF Inv
  <2> QED
    BY <2>1, <2>7
<1>3. CASE msg \in Reloads
  <2>1. ExecuteIPCCommand(s, msg, o) = BootIOS(s, o.late)
    BY <1>3, IPCAssumption DEF ExecuteIPCCommand
  <2> QED
    BY <2>1, InvBootIOS DEF Outcome
<1> QED
  BY <1>1, <1>2, <1>3 DEF Requests

\* What UpdateIPC() moves, if the mailbox is free.
LEMMA InvUpdateIPC ==
  ASSUME NEW s, Inv(s, {}), NEW o, Outcome(o)
  PROVE  Inv(UpdateIPC(s, o), {})
<1>1. s \in Kernels
  BY DEF Inv
<1>2. CASE IsReady(s) /\ s.requests # <<>>
  <2> DEFINE msg == s.requests[1]
             u == [s EXCEPT !.requests = Tail(@)]
             t == GenerateAck(u, msg)
  <2>1. UpdateIPC(s, o) = ExecuteIPCCommand(t, msg, o)
    BY <1>2 DEF UpdateIPC
  <2>2. /\ Good(Behind(s), Tail(s.requests), s.events, s.state, s.last, s.due, {msg})
        /\ msg \in Requests /\ s.state[msg] = "sent"
    BY <1>2, GoodTakeRequest DEF Inv
  <2>3. Tail(s.requests) \in Seq(Requests)
    BY <2>2 DEF Good
  <2>4. /\ u \in Kernels /\ u.requests = Tail(s.requests) /\ u.events = s.events
        /\ u.y1 = s.y1 /\ u.arm = s.arm /\ u.replies = s.replies
        /\ u.state = s.state /\ u.last = s.last /\ u.due = s.due
    BY <1>1, <2>3 DEF Kernels
  <2> HIDE DEF u
  <2>5. Behind(u) = Behind(s)
    BY <2>4 DEF Behind
  <2> HIDE DEF msg
  <2>6. Inv(u, {msg})
    BY <2>2, <2>4, <2>5 DEF Inv
  <2>7. ~u.y1
    BY <1>2, <2>4 DEF IsReady
  <2>8. Inv(t, {msg}) /\ ~t.y1 /\ t.state = u.state
    BY <2>2, <2>6, <2>7, InvGenerateAck
  <2> HIDE DEF t
  <2>9. t.state[msg] = "sent"
    BY <2>2, <2>4, <2>8
  <2> QED
    BY <2>1, <2>2, <2>8, <2>9, InvExecute
<1>3. CASE IsReady(s) /\ s.requests = <<>> /\ s.replies # <<>>
  <2>1. UpdateIPC(s, o) = GenerateReply([s EXCEPT !.replies = Tail(@)], s.replies[1])
    BY <1>3 DEF UpdateIPC
  <2>2. ~s.y1 /\ s.replies # <<>>
    BY <1>3 DEF IsReady
  <2> QED
    BY <2>1, <2>2, InvGenerateReply
<1>4. CASE IsReady(s) /\ s.requests = <<>> /\ s.replies = <<>> /\ s.acks # <<>>
  <2> DEFINE u == [s EXCEPT !.acks = Tail(@)]
  <2>1. UpdateIPC(s, o) = GenerateAck(u, s.acks[1])
    BY <1>4 DEF UpdateIPC
  <2>2. s.acks \in Seq({Dummy}) /\ s.acks[1] \in Requests \cup {Dummy}
    BY <1>1, <1>4, KernelTypes
  <2>3. Tail(s.acks) \in Seq({Dummy})
    BY <1>4, <2>2
  <2>4. u \in Kernels /\ SameLines(u, s)
    BY <1>1, <2>3 DEF Kernels, SameLines
  <2> HIDE DEF u
  <2>5. Inv(u, {}) /\ ~u.y1
    BY <1>4, <2>4, InvSame DEF SameLines, IsReady
  <2> QED
    BY <2>1, <2>2, <2>5, InvGenerateAck
<1>5. CASE ~IsReady(s) \/ (s.requests = <<>> /\ s.replies = <<>> /\ s.acks = <<>>)
  <2>1. UpdateIPC(s, o) = s
    BY <1>5 DEF UpdateIPC
  <2> QED
    BY <2>1
<1> QED
  BY <1>2, <1>3, <1>4, <1>5

\* The first event: its message goes from the events to its queue.
LEMMA InvRunEvent ==
  ASSUME NEW s, Inv(s, {}), s.events # <<>>, NEW o, Outcome(o)
  PROVE  LET e == s.events[1]
             u == [s EXCEPT !.events = Tail(@)]
         IN  IF e.what = "ints" THEN Inv(UpdateInterrupts(u), {})
             ELSE Inv(HandleIPCEvent(u, e, o), {})
<1> DEFINE e == s.events[1]
           rest == Tail(s.events)
           u == [s EXCEPT !.events = Tail(@)]
<1>1. s \in Kernels /\ s.events \in Seq(IPCEvents) /\ s.y1 \in BOOLEAN
      /\ s.replies \in Seq(Requests) /\ s.requests \in Seq(Requests) /\ s.acks \in Seq({Dummy})
  BY KernelTypes DEF Inv
<1>2. rest \in Seq(IPCEvents)
  BY <1>1
<1>3. /\ e \in IPCEvents
      /\ e.what = "request" =>
           Good(Behind(s), Append(s.requests, e.msg), rest, s.state, s.last, s.due, {})
      /\ e.what = "reply" =>
           Good(Append(Behind(s), e.msg), s.requests, rest, s.state, s.last, s.due, {})
      /\ e.what \in {"ack", "ints"} =>
           Good(Behind(s), s.requests, rest, s.state, s.last, s.due, {})
  BY GoodRun DEF Inv
<1>4. /\ u \in Kernels /\ u.events = rest
      /\ u.y1 = s.y1 /\ u.arm = s.arm /\ u.replies = s.replies /\ u.requests = s.requests
      /\ u.state = s.state /\ u.last = s.last /\ u.due = s.due
  BY <1>1, <1>2, KernelEvents
<1>5. /\ e.what \in {"request", "reply", "ack", "ints"}
      /\ e.what \in {"request", "reply"} => e.msg \in Requests
      /\ e.what \in {"ack", "ints"} => e.msg = Dummy
  BY <1>3, EventFacts
<1>6. u.acks \in Seq({Dummy}) /\ u.replies \in Seq(Requests) /\ u.requests \in Seq(Requests)
  BY <1>4, KernelTypes
<1> HIDE DEF u, rest, e
<1>7. ASSUME e.what \in {"ack", "ints"} PROVE Inv(u, {})
  <2>1. Behind(u) = Behind(s)
    BY <1>4 DEF Behind
  <2> QED
    BY <1>3, <1>4, <1>7, <2>1 DEF Inv
<1>8. CASE e.what = "ints"
  <2>1. Inv(UpdateInterrupts(u), {})
    BY <1>7, <1>8, InvUpdateInterrupts
  <2> QED
    BY <1>8, <2>1 DEF u, e
<1>9. CASE e.what = "request"
  <2> DEFINE t == [u EXCEPT !.requests = Append(@, e.msg)]
  <2>1. Append(u.requests, e.msg) \in Seq(Requests)
    BY <1>5, <1>6, <1>9
  <2>2. /\ t \in Kernels /\ t.events = rest /\ t.requests = Append(s.requests, e.msg)
        /\ t.y1 = s.y1 /\ t.arm = s.arm /\ t.replies = s.replies
        /\ t.state = s.state /\ t.last = s.last /\ t.due = s.due
    BY <1>4, <2>1 DEF Kernels
  <2>3. HandleIPCEvent(u, e, o) = UpdateIPC(t, o)
    BY <1>9 DEF HandleIPCEvent
  <2> HIDE DEF t
  <2>4. Behind(t) = Behind(s)
    BY <2>2 DEF Behind
  <2>5. Inv(t, {})
    BY <1>3, <1>9, <2>2, <2>4 DEF Inv
  <2>6. Inv(HandleIPCEvent(u, e, o), {})
    BY <2>3, <2>5, InvUpdateIPC
  <2> QED
    BY <1>9, <2>6 DEF u, e
<1>10. CASE e.what = "reply"
  <2> DEFINE t == [u EXCEPT !.replies = Append(@, e.msg)]
  <2>1. Append(u.replies, e.msg) \in Seq(Requests)
    BY <1>5, <1>6, <1>10
  <2>2. /\ t \in Kernels /\ t.events = rest /\ t.replies = Append(s.replies, e.msg)
        /\ t.y1 = s.y1 /\ t.arm = s.arm /\ t.requests = s.requests
        /\ t.state = s.state /\ t.last = s.last /\ t.due = s.due
    BY <1>4, <2>1 DEF Kernels
  <2>3. HandleIPCEvent(u, e, o) = UpdateIPC(t, o)
    BY <1>10 DEF HandleIPCEvent
  <2> HIDE DEF t
  <2>4. Behind(t) = Append(Behind(s), e.msg)
    <3>1. CASE s.y1
      <4>1. s.arm \in Requests /\ e.msg \in Requests
        BY <1>5, <1>10, <3>1 DEF Inv
      <4>2. <<s.arm>> \o Append(s.replies, e.msg) = Append(<<s.arm>> \o s.replies, e.msg)
        BY <1>1, <4>1
      <4> QED
        BY <2>2, <3>1, <4>2 DEF Behind
    <3>2. CASE ~s.y1
      BY <2>2, <3>2 DEF Behind
    <3> QED
      BY <3>1, <3>2
  <2>5. Inv(t, {})
    BY <1>3, <1>10, <2>2, <2>4 DEF Inv
  <2>6. Inv(HandleIPCEvent(u, e, o), {})
    BY <2>3, <2>5, InvUpdateIPC
  <2> QED
    BY <1>10, <2>6 DEF u, e
<1>11. CASE e.what = "ack"
  <2> DEFINE t == [u EXCEPT !.acks = Append(@, e.msg)]
  <2>1. Append(u.acks, e.msg) \in Seq({Dummy})
    BY <1>5, <1>6, <1>11
  <2>2. t \in Kernels /\ SameLines(t, u)
    BY <1>4, <2>1 DEF Kernels, SameLines
  <2>3. HandleIPCEvent(u, e, o) = UpdateIPC(t, o)
    BY <1>11 DEF HandleIPCEvent
  <2> HIDE DEF t
  <2>4. Inv(t, {})
    BY <1>7, <1>11, <2>2, InvSame
  <2>5. Inv(HandleIPCEvent(u, e, o), {})
    BY <2>3, <2>4, InvUpdateIPC
  <2> QED
    BY <1>11, <2>5 DEF u, e
<1> QED
  BY <1>5, <1>8, <1>9, <1>10, <1>11
-----------------------------------------------------------------------------
(***************************************************************************)
(* The steps.                                                              *)
(***************************************************************************)
LEMMA InvInit ==
  Init => IInv
<1> SUFFICES ASSUME Init PROVE IInv
  OBVIOUS
<1> DEFINE none == <<>>
           ack == Event(0, "ack", Dummy)
           ev == <<ack>>
           st == [r \in Requests |-> "idle"]
<1>1. none \in Seq(Requests) /\ none \in Seq(Hooks) /\ none \in Seq(IPCEvents)
      /\ none \in Seq({Dummy}) /\ none \in Seq(Commands) /\ DOMAIN none = {}
  OBVIOUS
<1>2. ack \in IPCEvents /\ ack.left = 0 /\ ack.what = "ack"
  BY EventTypes
<1> HIDE DEF ack
<1>3. ev \in Seq(IPCEvents) /\ DOMAIN ev = {1} /\ ev[1] = ack /\ Len(ev) = 1
  BY <1>2
<1> HIDE DEF none, ev
<1>4. ASSUME NEW what, what # "ack" PROVE DOMAIN Line(none, ev, what) = {}
  <2>1. \A i \in DOMAIN ev : ev[i].what # what
    BY <1>2, <1>3, <1>4
  <2> QED
    BY <1>1, <2>1 DEF Line
<1>5. st \in [Requests -> States] /\ Answered(st) = {} /\ Sent(st) \ {} = {}
  BY DEF States, Answered, Sent
<1>6. Sorted(ev) /\ InTime(ev, 0)
  BY <1>2, <1>3 DEF Sorted, InTime
<1>7. /\ Once(Line(none, ev, "reply"), Answered(st))
      /\ Once(Line(none, ev, "request"), Sent(st) \ {})
  BY <1>4, <1>5 DEF Once, IsInjective, Range
<1>8. Right(Line(none, ev, "reply"), none)
  BY <1>1, <1>4 DEF Right, IsInjective, Range
<1>9. Good(none, none, ev, st, 0, none, {})
  BY <1>1, <1>3, <1>5, <1>6, <1>7, <1>8 DEF Good
<1>10. k = [y1 |-> FALSE, y2 |-> FALSE, iy |-> FALSE, arm |-> Dummy,
            flag |-> FALSE, mask |-> TRUE, pi |-> FALSE,
            requests |-> none, replies |-> none, acks |-> none, last |-> 0,
            events |-> ev, state |-> st, due |-> none]
  BY DEF Init, none, ev, ack, Event
<1> HIDE DEF st
<1>11. k \in Kernels
  BY <1>1, <1>3, <1>5, <1>10 DEF Kernels, States
<1>12. /\ k.y1 = FALSE /\ k.replies = none /\ k.requests = none /\ k.events = ev
       /\ k.state = st /\ k.last = 0 /\ k.due = none
  BY <1>10
<1>13. Behind(k) = none
  BY <1>12 DEF Behind
<1> QED
  BY <1>9, <1>11, <1>12, <1>13 DEF IInv, Inv

\* What every write ends with.
LEMMA InvWrote ==
  ASSUME NEW s, Inv(s, {}), Wrote(s)
  PROVE  Inv(k', {})
<1>1. PICK o \in Outcomes(s) : k' = ScheduleInterrupts(UpdateIPC(s, o), 0)
  BY DEF Wrote
<1>2. Inv(UpdateIPC(s, o), {})
  BY OutcomeTypes, InvUpdateIPC
<1>3. k' = ScheduleEvent(UpdateIPC(s, o), 0, "ints", Dummy)
  BY <1>1 DEF ScheduleInterrupts
<1> QED
  BY <1>2, <1>3, InvSchedule

\* A write to a register that no line depends on.
LEMMA InvWroteSame ==
  ASSUME NEW s, NEW t \in Kernels, Inv(s, {}), SameLines(t, s), Wrote(t)
  PROVE  Inv(k', {})
  BY InvSame, InvWrote

\* A request is not idle while its reply is in the mailbox.
LEMMA MailboxUsed ==
  ASSUME IInv, \A r \in Requests : k.state[r] = "idle"
  PROVE  k.y1 = FALSE
<1>1. k \in Kernels /\ k.y1 \in BOOLEAN /\ k.replies \in Seq(Requests)
  BY KernelTypes DEF IInv, Inv
<1>2. ASSUME k.y1 PROVE FALSE
  <2> DEFINE b == Behind(k)
             g == Line(b, k.events, "reply")
  <2>1. b = <<k.arm>> \o k.replies /\ k.arm \in Requests
    BY <1>2 DEF Behind, IInv, Inv
  <2>2. b # <<>>
    BY <1>1, <2>1
  <2>3. b \in Seq(Requests) /\ k.events \in Seq(IPCEvents) /\ Once(g, Answered(k.state))
    BY DEF IInv, Inv, Good
  <2> HIDE DEF b
  <2>4. 1 \in DOMAIN g
    BY <2>2, <2>3, LinePop
  <2>5. g[1] \in Answered(k.state)
    BY <2>3, <2>4 DEF Once, Range
  <2> QED
    BY <2>5 DEF Answered
<1> QED
  BY <1>1, <1>2

LEMMA InvSend ==
  ASSUME IInv, NEW r \in Requests, Send(r)
  PROVE  Inv(k', {})
<1> DEFINE e == Event(1, "request", r)
           new == Insert(k.events, e.left, <<e>>)
           now == [k.state EXCEPT ![r] = "sent"]
           t == ScheduleEvent([k EXCEPT !.state[r] = "sent"], 1, "request", r)
<1>1. /\ k \in Kernels /\ k.events \in Seq(IPCEvents) /\ Sorted(k.events)
      /\ k.state \in [Requests -> States]
  BY DEF IInv, Inv, Good
<1>2. e \in IPCEvents /\ e.left = 1 /\ e.what = "request" /\ e.msg = r
  BY EventTypes
<1> HIDE DEF e
<1>3. t = [[k EXCEPT !.state[r] = "sent"] EXCEPT !.events = new]
  <2>1. new = Insert(k.events, 1, <<e>>)
    BY <1>2
  <2>2. [k EXCEPT !.state[r] = "sent"].events = k.events
    BY <1>1 DEF Kernels
  <2> HIDE DEF new
  <2> QED
    BY <2>1, <2>2 DEF ScheduleEvent, e
<1>4. new \in Seq(IPCEvents)
  BY <1>1, <1>2, InsertOne
<1>5. Good(Behind(k), k.requests, new, now, k.last, k.due, {})
  <2>1. Good(Behind(k), k.requests, k.events, k.state, k.last, k.due, {})
    BY DEF IInv, Inv
  <2>2. k.state[e.msg] = "idle"
    BY <1>2 DEF Send
  <2>3. Good(Behind(k), k.requests, Insert(k.events, e.left, <<e>>),
             [k.state EXCEPT ![e.msg] = "sent"], k.last, k.due, {})
    BY <1>2, <2>1, <2>2, GoodSend
  <2> QED
    BY <1>2, <2>3
<1>6. now \in [Requests -> States]
  BY <1>1 DEF States
<1>7. Wrote(t)
  BY DEF Send
<1> HIDE DEF new, t
<1>8. /\ t \in Kernels /\ t.events = new /\ t.state = now
      /\ t.y1 = k.y1 /\ t.arm = k.arm /\ t.replies = k.replies /\ t.requests = k.requests
      /\ t.last = k.last /\ t.due = k.due
  BY <1>1, <1>3, <1>4, <1>6 DEF Kernels, States
<1>9. Behind(t) = Behind(k)
  BY <1>8 DEF Behind
<1>10. k.y1 => k.arm \in Requests
  BY DEF IInv, Inv
<1>11. Inv(t, {})
  BY <1>5, <1>8, <1>9, <1>10 DEF Inv
<1> QED
  BY <1>7, <1>11, InvWrote

LEMMA InvTakeReply ==
  ASSUME IInv, TakeReply
  PROVE  Inv(k', {})
<1> DEFINE r == k.arm
           b == Behind(k)
           now == [k.state EXCEPT ![r] = "idle"]
           left == IF k.due # <<>> /\ k.due[1] = r THEN Tail(k.due) ELSE k.due
           t == [k EXCEPT !.y1 = FALSE, !.state[k.arm] = "idle",
                          !.due = IF @ # <<>> /\ @[1] = k.arm THEN Tail(@) ELSE @]
<1>1. /\ k \in Kernels /\ k.replies \in Seq(Requests) /\ k.state \in [Requests -> States]
      /\ k.due \in Seq(Commands)
  BY KernelTypes DEF IInv, Inv
<1>2. k.y1 /\ r \in Requests /\ b = <<r>> \o k.replies
  BY DEF TakeReply, IInv, Inv, Behind
<1>3. b # <<>> /\ b[1] = r /\ Tail(b) = k.replies
  BY <1>1, <1>2
<1>4. Good(Tail(b), k.requests, k.events, [k.state EXCEPT ![b[1]] = "idle"], k.last,
           IF k.due # <<>> /\ k.due[1] = b[1] THEN Tail(k.due) ELSE k.due, {})
  <2>1. Good(b, k.requests, k.events, k.state, k.last, k.due, {})
    BY DEF IInv, Inv
  <2> HIDE DEF b
  <2> QED
    BY <1>3, <2>1, GoodTakeReply
<1>5. Good(k.replies, k.requests, k.events, now, k.last, left, {})
  <2> HIDE DEF b
  <2> QED
    BY <1>3, <1>4
<1>6. now \in [Requests -> States] /\ left \in Seq(Commands)
  BY <1>5 DEF Good, Right
<1>7. Wrote(t)
  BY DEF TakeReply
<1>8. t = [k EXCEPT !.y1 = FALSE, !.state = now, !.due = left]
  BY <1>1 DEF Kernels
<1> HIDE DEF t, now, left
<1>9. /\ t \in Kernels /\ t.y1 = FALSE /\ t.state = now /\ t.due = left
      /\ t.events = k.events /\ t.replies = k.replies /\ t.requests = k.requests
      /\ t.last = k.last
  BY <1>1, <1>6, <1>8 DEF Kernels, States
<1>10. Behind(t) = k.replies
  BY <1>9 DEF Behind
<1>11. Inv(t, {})
  BY <1>5, <1>9, <1>10 DEF Inv
<1> QED
  BY <1>7, <1>11, InvWrote

LEMMA InvTick ==
  ASSUME IInv, Tick
  PROVE  Inv(k', {})
<1> DEFINE new == [i \in DOMAIN k.events |->
                    Event(k.events[i].left - 1, k.events[i].what, k.events[i].msg)]
           rest == IF k.last > 0 THEN k.last - 1 ELSE 0
<1>1. k \in Kernels
  BY DEF IInv, Inv
<1>2. Good(Behind(k), k.requests, new, k.state, rest, k.due, {})
  BY GoodTick DEF IInv, Inv, Tick
<1>3. new \in Seq(IPCEvents) /\ rest \in Nat
  BY <1>2 DEF Good
<1>4. k' = [k EXCEPT !.events = new, !.last = rest]
  BY DEF Tick
<1> HIDE DEF new, rest
<1> DEFINE t == k'
<1>5. t = [k EXCEPT !.events = new, !.last = rest]
  BY <1>4
<1> HIDE DEF t
<1>6. /\ t \in Kernels /\ t.events = new /\ t.last = rest
      /\ t.y1 = k.y1 /\ t.arm = k.arm /\ t.replies = k.replies /\ t.requests = k.requests
      /\ t.state = k.state /\ t.due = k.due
  BY <1>1, <1>3, <1>5 DEF Kernels
<1>7. Behind(t) = Behind(k)
  BY <1>6 DEF Behind
<1>8. k.y1 => k.arm \in Requests
  BY DEF IInv, Inv
<1>9. Inv(t, {})
  BY <1>2, <1>6, <1>7, <1>8 DEF Inv
<1> QED
  BY <1>9 DEF t

\* Every step keeps the invariant.
LEMMA InvStep ==
  IInv /\ [Next]_k => IInv'
<1> SUFFICES ASSUME IInv, [Next]_k PROVE Inv(k', {})
  BY DEF IInv
<1>1. k \in Kernels /\ Inv(k, {})
  BY DEF IInv, Inv
<1>2. ASSUME NEW on \in BOOLEAN, WriteIRQMask(on) PROVE Inv(k', {})
  <2>1. k.y1 = FALSE
    BY <1>2, MailboxUsed DEF WriteIRQMask
  <2>2. CASE on
    <3>1. InitState(k) \in Kernels /\ SameLines(InitState(k), k)
      BY <1>1, <2>1 DEF InitState, Kernels, SameLines
    <3>2. Wrote(InitState(k))
      BY <1>2, <2>2 DEF WriteIRQMask
    <3> QED
      BY <1>1, <3>1, <3>2, InvWroteSame
  <2>3. CASE ~on
    <3> DEFINE t == [k EXCEPT !.mask = FALSE]
    <3>1. t \in Kernels /\ SameLines(t, k)
      BY <1>1 DEF Kernels, SameLines
    <3>2. Wrote(t)
      BY <1>2, <2>3 DEF WriteIRQMask
    <3> HIDE DEF t
    <3> QED
      BY <1>1, <3>1, <3>2, InvWroteSame
  <2> QED
    BY <2>2, <2>3
<1>3. ASSUME EnableInterrupts PROVE Inv(k', {})
  <2> DEFINE t == [k EXCEPT !.iy = TRUE]
  <2>1. t \in Kernels /\ SameLines(t, k)
    BY <1>1 DEF Kernels, SameLines
  <2>2. Wrote(t)
    BY <1>3 DEF EnableInterrupts
  <2> HIDE DEF t
  <2> QED
    BY <1>1, <2>1, <2>2, InvWroteSame
<1>4. ASSUME NEW r \in Requests, Send(r) PROVE Inv(k', {})
  BY <1>4, InvSend
<1>5. ASSUME TakeReply PROVE Inv(k', {})
  BY <1>5, InvTakeReply
<1>6. ASSUME TakeAck PROVE Inv(k', {})
  <2> DEFINE t == [k EXCEPT !.y2 = FALSE]
  <2>1. t \in Kernels /\ SameLines(t, k)
    BY <1>1 DEF Kernels, SameLines
  <2>2. Wrote(t)
    BY <1>6 DEF TakeAck
  <2> HIDE DEF t
  <2> QED
    BY <1>1, <2>1, <2>2, InvWroteSame
<1>7. ASSUME WriteIRQFlag PROVE Inv(k', {})
  <2> DEFINE t == [k EXCEPT !.flag = FALSE]
  <2>1. t \in Kernels /\ SameLines(t, k)
    BY <1>1 DEF Kernels, SameLines
  <2>2. Wrote(t)
    BY <1>7 DEF WriteIRQFlag
  <2> HIDE DEF t
  <2> QED
    BY <1>1, <2>1, <2>2, InvWroteSame
<1>8. ASSUME RunEvent PROVE Inv(k', {})
  <2> DEFINE e == k.events[1]
             u == [k EXCEPT !.events = Tail(@)]
  <2>1. k.events # <<>>
    BY <1>8 DEF RunEvent
  <2>2. CASE e.what = "ints"
    <3>1. PICK o : Outcome(o)
      <4> DEFINE d == [delay |-> 0, late |-> <<>>]
      <4>1. d.delay \in Nat /\ d.late \in Seq(Hooks) /\ IsInjective(d.late)
        BY DEF IsInjective
      <4> QED
        BY <4>1 DEF Outcome
    <3>2. Inv(UpdateInterrupts(u), {})
      BY <1>1, <2>1, <2>2, <3>1, InvRunEvent
    <3>3. k' = UpdateInterrupts(u)
      BY <1>8, <2>2 DEF RunEvent
    <3> QED
      BY <3>2, <3>3
  <2>3. CASE e.what # "ints"
    <3>1. PICK o \in Outcomes(u) : k' = HandleIPCEvent(u, e, o)
      BY <1>8, <2>3 DEF RunEvent
    <3>2. Outcome(o)
      BY OutcomeTypes
    <3>3. Inv(HandleIPCEvent(u, e, o), {})
      BY <1>1, <2>1, <2>3, <3>2, InvRunEvent
    <3> QED
      BY <3>1, <3>3
  <2> QED
    BY <2>2, <2>3
<1>9. ASSUME NEW r \in Hooks, DeviceReply(r) PROVE Inv(k', {})
  BY <1>1, <1>9, InvDeviceReply DEF DeviceReply
<1>10. ASSUME Tick PROVE Inv(k', {})
  BY <1>10, InvTick
<1>11. CASE UNCHANGED k
  BY <1>1, <1>11
<1> QED
  BY <1>2, <1>3, <1>4, <1>5, <1>6, <1>7, <1>8, <1>9, <1>10, <1>11 DEF Next, Handler
-----------------------------------------------------------------------------
\* The lines of replies and requests, after any steps of the game, the kernel
\* and the devices.
THEOREM Invariance == Spec => []IInv
  BY InvInit, InvStep, PTL DEF Spec

\* What the registers, the queues and the events of the kernel hold.
THEOREM TypeCorrect == Spec => []TypeOK
<1>1. IInv => TypeOK
  BY DEF IInv, Inv, TypeOK
<1> QED
  BY <1>1, Invariance, PTL

\* Whatever the game sends and however devices answer, a reply is in the
\* mailbox, in the queue or in an event, once, until the game has read it.
THEOREM RepliesComeOnce == Spec => []EachReplyOnce
<1>1. IInv => EachReplyOnce
  BY DEF IInv, Inv, Good, Once, Answered, EachReplyOnce, Replies, Behind
<1> QED
  BY <1>1, Invariance, PTL

\* With any delays, the replies to commands come in the order of execution.
THEOREM ReplyOrderIsKept == Spec => []RepliesInOrder
<1>1. IInv => RepliesInOrder
  BY DEF IInv, Inv, Good, Right, RepliesInOrder, Replies, Behind
<1> QED
  BY <1>1, Invariance, PTL
=============================================================================
