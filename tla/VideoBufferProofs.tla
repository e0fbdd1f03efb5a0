-------------------------- MODULE VideoBufferProofs -------------------------
(***************************************************************************)
(* For buffers of any size: the two threads of the deterministic mode, and *)
(* the GPU thread of the normal mode, agree on what s_video_buffer holds,  *)
(* as long as the console is only locked while it runs, a payload that     *)
(* polls has ended by then, and no CPU::Break() stops the console in the   *)
(* deterministic mode (~LockPaused, ~SlowGpu and ~Breaks).                 *)
(*                                                                         *)
(* The inductive invariant IInv has three themes.  Asleep is the protocol  *)
(* of seen_ptr: a loop that says "done" has seen write_ptr, wherever its   *)
(* payload is, unless the CPU thread is on its way to Wakeup() or the      *)
(* console is paused; so SyncGPU() waits for what it needs.  Preprocessed  *)
(* is what the pointers mean while both threads run: which chunks the      *)
(* buffer holds, which of them are heads of a command, and that the aux    *)
(* data is exactly that of the lists not yet decoded.  Rest is what is     *)
(* left once the loop has decoded all it can: the head of one command,     *)
(* which is what SyncGPU() moves, what a savestate holds and what the      *)
(* normal mode keeps from one chunk to the next.                           *)
(***************************************************************************)
EXTENDS VideoBuffer, WellFoundedInduction, TLAPS

\* The console is not stopped in the deterministic mode before the CPU thread
\* is, PauseAndLock() finds it running, and the payload has ended when
\* it returns.
Orderly == ~LockPaused /\ ~SlowGpu /\ ~Breaks

\* Where the CPU thread shares the buffer with the GPU thread, where it has
\* it to itself, and where it is in the middle of changing it.
Free == {"guest", "run_gpu", "sync_wait", "read", "copy", "push", "publish", "wake", "paused"}
Still == {"move_aux", "move_data", "store_seen", "reset", "pause", "pause_wait", "locked", "unlock"}
Moving == {"store_write", "store_read", "reset_seen", "load_read"}

InSync == {"sync_wait", "move_aux", "move_data", "store_write", "store_read", "store_seen"}
InCallback == {"read", "copy", "push", "publish", "wake"}
Locked == {"locked", "load_read", "unlock"}
Stopped == Locked \cup {"paused", "pause_wait"}
Waited == {"move_aux", "move_data", "store_write", "store_read", "store_seen", "reset",
           "reset_seen", "pause", "pause_wait"}

\* The places of the two threads, the loop and the mode agree.
Places ==
  /\ cpu \in Free \cup Still \cup Moving
  /\ gpu \in {"idle", "test", "normal", "load_seen", "load_write", "decode", "decoded", "end"}
  /\ det => gpu # "normal"
  /\ ~det => gpu \in {"idle", "test", "normal", "end"}
  /\ cpu \in Locked => gpu \in {"idle", "test", "end"}
  /\ run = "payload" <=> gpu # "idle"
  /\ cpu \in Stopped => ~running
  /\ det /\ cpu \notin Stopped => running
  /\ waking => ~det /\ running /\ cpu # "pause"
  /\ cpu \in InSync \cup InCallback => det
  /\ cpu \in InSync => why \in {"wrap", "aux", "game", "reset", "lock"}
  /\ cpu \notin InSync => why = "none"
  /\ why = "aux" => cpu \in {"sync_wait", "move_aux"}

\* What the CPU thread knows of the chunk it copies, or of the reset.
Knows ==
  /\ cpu \in {"copy", "push", "publish"} \/ why \in {"wrap", "aux"} => taken < Len(stream)
  /\ cpu \in {"reset", "reset_seen"} \/ why = "reset" => taken = Len(stream)
  /\ cpu \in {"copy", "push", "publish"} \/ why = "aux" => write < BufSize
  /\ cpu \in {"push", "publish"} \/ why = "aux" => buf[write] = taken + 1

\* No command is as long as the buffer.
Bounded(s) ==
  /\ s \in Seq(Kinds) /\ Len(s) <= MaxChunks
  /\ \A n \in 0 .. Len(s) : \E i \in n - BufSize + 1 .. n : i >= 1 => s[i] # "head"

\* Of the t chunks taken, those after the first d are the head of a command
\* and are in b between r and w.
Rest(s, t, b, r, w, d) ==
  /\ r <= w /\ d = t - w + r
  /\ \A p \in r .. w - 1 : b[p] = t - w + p + 1
  /\ \A i \in d + 1 .. t : s[i] = "head"

SavedOK ==
  saved # <<>> =>
    /\ Bounded(saved[1].stream)
    /\ saved[1].buf \in [0 .. BufSize - 1 -> 0 .. MaxChunks]
    /\ saved[1].read \in Positions /\ saved[1].write \in Positions
    /\ saved[1].suspended \in BOOLEAN
    /\ saved[1].taken \in 0 .. Len(saved[1].stream) /\ saved[1].done \in 0 .. saved[1].taken
    /\ Rest(saved[1].stream, saved[1].taken, saved[1].buf, saved[1].read, saved[1].write,
            saved[1].done)

Decoding == gpu \in {"decode", "decoded"}

\* The payload finds nothing to decode.
NothingNew ==
  /\ write <= seen /\ ~Decoding
  /\ gpu = "load_write" => write <= gseen

\* The payload will have seen all there is.
SeesAll ==
  /\ gpu = "load_write" => gseen = seen
  /\ Decoding => gwrite = write
  /\ gpu = "end" => write <= seen

Quiet == det /\ running /\ cpu \notin {"wake", "run_gpu"}

Asleep ==
  /\ Quiet /\ level = "done" => NothingNew
  /\ Quiet /\ level = "last" => SeesAll
  /\ det /\ cpu \in Waited => level = "done" /\ NothingNew

\* The chunk numbers in a are those of the lists after the first d chunks, up
\* to number e.
AuxOf(a, s, d, e) ==
  /\ \A i, j \in 1 .. Len(a) : i < j => a[i] < a[j]
  /\ \A i \in 1 .. Len(a) : a[i] \in d + 1 .. e /\ s[a[i]] = "list"
  /\ \A n \in d + 1 .. e : s[n] = "list" => \E i \in 1 .. Len(a) : a[i] = n

\* Up to where the GPU thread has decoded.
Front == IF Decoding THEN gread ELSE read

\* The meaning of the pointers, with extra chunks past write_ptr.
Preprocessed(extra) ==
  LET o == taken - write IN
  /\ done = o + Front
  /\ Front <= pp /\ Front <= write /\ pp <= write + extra /\ seen <= write
  /\ \A p \in Front .. write - 1 : buf[p] = o + p + 1
  /\ \A i \in o + pp + 1 .. taken + extra : stream[i] = "head"
  /\ Front < pp => stream[o + pp] # "head"
  /\ AuxOf(aux, stream, done, o + pp)

\* What the GPU thread has looked at and not decoded is the head of a command.
Looked ==
  LET o == taken - write IN
  /\ Decoding => gread <= gwrite /\ gwrite <= write
  /\ gpu = "decoded" => read = gread /\ \A i \in done + 1 .. o + gwrite : stream[i] = "head"
  /\ ~Decoding => \A i \in done + 1 .. o + seen : stream[i] = "head"

DataFree ==
  det /\ cpu \in Free =>
    /\ cpu = "publish" => Preprocessed(1)
    /\ cpu # "publish" => Preprocessed(0)
    /\ Looked

DataStill ==
  cpu \in Still \/ (~det /\ cpu \in Free) =>
    /\ Rest(stream, taken, buf, read, write, done) /\ aux = <<>>
    /\ det => pp = read /\ (cpu # "store_seen" => seen <= write)
    /\ cpu = "store_seen" => read = 0

DataMoving ==
  /\ cpu \in Moving => aux = <<>>
  /\ cpu = "store_write" => pp <= write /\ Rest(stream, taken, buf, 0, write - pp, done)
  /\ cpu = "store_read" => Rest(stream, taken, buf, 0, write, done)
  /\ cpu = "reset_seen" => read = 0 /\ write = 0
  /\ cpu = "load_read" =>
       /\ saved # <<>>
       /\ stream = saved[1].stream /\ taken = saved[1].taken /\ done = saved[1].done
       /\ buf = saved[1].buf /\ write = saved[1].write

IInv ==
  /\ TypeOK /\ Places /\ Knows /\ Bounded(stream) /\ SavedOK
  /\ Asleep /\ DataFree /\ DataStill /\ DataMoving
-----------------------------------------------------------------------------
\* Appending to a sequence, and taking its first element away.
LEMMA AppendIs ==
  ASSUME NEW S, NEW s \in Seq(S), NEW e \in S
  PROVE  /\ Append(s, e) \in Seq(S) /\ Len(Append(s, e)) = Len(s) + 1 /\ Len(s) \in Nat
         /\ \A i \in 1 .. Len(s) : Append(s, e)[i] = s[i]
         /\ Append(s, e)[Len(s) + 1] = e
OBVIOUS

LEMMA TailIs ==
  ASSUME NEW S, NEW s \in Seq(S), s # <<>>
  PROVE  /\ Tail(s) \in Seq(S) /\ Len(s) \in Nat \ {0} /\ Len(Tail(s)) = Len(s) - 1
         /\ \A i \in 1 .. Len(s) - 1 : Tail(s)[i] = s[i + 1]
OBVIOUS

\* Every set of numbers has a least one.
LEMMA LeastNatural ==
  ASSUME NEW T, T \subseteq Nat, T # {}
  PROVE  \E x \in T : \A y \in T : x <= y
<1>1. PICK x \in T : \A y \in T : ~ (<<y, x>> \in OpToRel(<, Nat))
  BY WFMin, NatLessThanWellFounded
<1>2. ASSUME NEW y \in T, y < x PROVE <<y, x>> \in OpToRel(<, Nat)
  BY <1>2 DEF OpToRel
<1>3. \A y \in T : ~(y < x)
  BY <1>1, <1>2, Zenon
<1>4. \A y \in T : x <= y
  BY <1>3
<1> QED
  BY <1>4

\* OpcodeDecoder::Run() on the head of a command and one more chunk.
LEMMA DecodedOneMore ==
  ASSUME NEW b, NEW from \in Nat, NEW to \in Nat, from <= to,
         \A p \in from .. to - 1 : Kind(b[p]) = "head"
  PROVE  Decoded(b, from, to + 1) = IF Kind(b[to]) = "head" THEN from ELSE to + 1
<1> DEFINE S == Ends(b, from, to + 1) \cup {from}
<1>1. \A p \in from + 1 .. to + 1 : p - 1 \in from .. to - 1 \/ p = to + 1
  OBVIOUS
<1>2. Kind(b[to]) # "head" => S = {from, to + 1}
  <2> SUFFICES ASSUME Kind(b[to]) # "head" PROVE S = {from, to + 1}
    OBVIOUS
  <2>1. (to + 1) - 1 = to
    OBVIOUS
  <2>2. to + 1 \in Ends(b, from, to + 1)
    BY <2>1 DEF Ends
  <2>3. \A p \in Ends(b, from, to + 1) : p = to + 1
    BY <1>1 DEF Ends
  <2> QED
    BY <2>2, <2>3
<1>3. Kind(b[to]) = "head" => S = {from}
  <2> SUFFICES ASSUME Kind(b[to]) = "head" PROVE S = {from}
    OBVIOUS
  <2>1. (to + 1) - 1 = to
    OBVIOUS
  <2>2. Ends(b, from, to + 1) = {}
    BY <1>1, <2>1 DEF Ends
  <2> QED
    BY <2>2
<1>4. Largest({from, to + 1}) = to + 1
  BY DEF Largest
<1>5. Largest({from}) = from
  BY DEF Largest
<1>6. Decoded(b, from, to + 1) = Largest(S)
  BY DEF Decoded
<1> QED
  BY <1>2, <1>3, <1>4, <1>5, <1>6

\* The first command that is complete.
LEMMA FirstEnd ==
  ASSUME NEW b, NEW from \in Nat, NEW to \in Nat, Ends(b, from, to) # {}
  PROVE  LET end == Smallest(Ends(b, from, to))
         IN  /\ end \in from + 1 .. to /\ Kind(b[end - 1]) # "head"
             /\ \A p \in from .. end - 2 : Kind(b[p]) = "head"
<1> DEFINE S == Ends(b, from, to)
           end == Smallest(S)
<1>1. S \subseteq Nat
  BY DEF Ends
<1>2. \E x \in S : \A y \in S : x <= y
  BY <1>1, LeastNatural
<1>3. end \in S /\ \A y \in S : end <= y
  BY <1>2 DEF Smallest
<1>4. end \in from + 1 .. to /\ Kind(b[end - 1]) # "head"
  BY <1>3 DEF Ends
<1>5. ASSUME NEW p \in from .. end - 2 PROVE Kind(b[p]) = "head"
  <2>1. p + 1 \notin S
    BY <1>3, <1>4
  <2>2. p + 1 \in from + 1 .. to /\ (p + 1) - 1 = p
    BY <1>4
  <2> QED
    BY <2>1, <2>2 DEF Ends
<1> QED
  BY <1>4, <1>5

\* What is left of a command is shorter than the buffer: there is room for
\* the next chunk once it was moved.
LEMMA RestIsShort ==
  ASSUME NEW s, Bounded(s), NEW t \in 0 .. Len(s), NEW d \in 0 .. t,
         \A i \in d + 1 .. t : s[i] = "head"
  PROVE  t - d < BufSize
<1>1. PICK i \in t - BufSize + 1 .. t : i >= 1 => s[i] # "head"
  BY DEF Bounded
<1>2. BufSize \in Nat /\ Len(s) \in Nat
  BY BufferAssumption DEF Bounded
<1>3. ~ (t - d >= BufSize)
  <2> SUFFICES ASSUME t - d >= BufSize PROVE FALSE
    OBVIOUS
  <2>1. i \in d + 1 .. t /\ i >= 1
    BY <1>2
  <2> QED
    BY <1>1, <2>1
<1> QED
  BY <1>2, <1>3

\* Kind() of a chunk that the game has sent.
LEMMA KindIs ==
  ASSUME TypeOK, NEW i \in 1 .. Len(stream)
  PROVE  Kind(i) = stream[i] /\ stream[i] \in Kinds
BY DEF Kind, TypeOK

\* The chunk that OpcodeDecoder::Run<true>() preprocesses is the only one
\* that may end a command.
LEMMA PushIs ==
  ASSUME IInv, Push, cpu' = "publish"
  PROVE  /\ pp' = IF stream[taken + 1] = "head" THEN pp ELSE write + 1
         /\ aux' = IF stream[taken + 1] = "list" THEN Append(aux, taken + 1) ELSE aux
         /\ auxWrite' = IF stream[taken + 1] = "list" THEN auxWrite + 1 ELSE auxWrite
         /\ stream[taken + 1] = "list" => auxWrite # AuxSize
         /\ cpu = "push" /\ det /\ Preprocessed(0) /\ taken < Len(stream) /\ write < BufSize
         /\ buf[write] = taken + 1 /\ stream[taken + 1] \in Kinds
<1>1. cpu = "push" /\ det /\ Preprocessed(0)
  BY DEF IInv, Push, SyncGPU, CpuGoto, Places, DataFree, InCallback, Free
<1>2. /\ taken < Len(stream) /\ write < BufSize /\ buf[write] = taken + 1
      /\ taken \in 0 .. Len(stream) /\ Len(stream) \in Nat
      /\ write \in Nat /\ pp \in Nat /\ read \in Nat /\ gread \in Nat /\ done \in Nat
  BY <1>1, BufferAssumption DEF IInv, Knows, TypeOK, Positions
<1>3. taken + 1 \in 1 .. Len(stream)
  BY <1>2
<1>4. Kind(taken + 1) = stream[taken + 1] /\ stream[taken + 1] \in Kinds
  BY <1>3, KindIs DEF IInv
<1>5. Decoded(buf, pp, write + 1) = IF stream[taken + 1] = "head" THEN pp ELSE write + 1
  <2>1. pp <= write
    BY <1>1, <1>2 DEF Preprocessed
  <2>2. ASSUME NEW p \in pp .. write - 1 PROVE Kind(buf[p]) = "head"
    <3>1. buf[p] = (taken - write) + p + 1
      BY <1>1, <1>2 DEF Preprocessed, Front
    <3>2. (taken - write) + p + 1 \in (taken - write) + pp + 1 .. taken + 0
      BY <1>2
    <3>3. stream[buf[p]] = "head"
      BY <1>1, <3>1, <3>2 DEF Preprocessed
    <3>4. buf[p] \in 1 .. Len(stream)
      BY <1>1, <1>2, <3>1, <3>2 DEF Preprocessed, Front
    <3> QED
      BY <3>3, <3>4, KindIs DEF IInv
  <2>3. Decoded(buf, pp, write + 1) = IF Kind(buf[write]) = "head" THEN pp ELSE write + 1
    BY <1>2, <2>1, <2>2, DecodedOneMore
  <2> QED
    BY <1>2, <1>4, <2>3
<1> QED
  BY <1>1, <1>2, <1>4, <1>5 DEF Push, SyncGPU, CpuGoto, auxs

\* The GPU thread decodes one command, with the aux data that is next.
LEMMA DecodeIs ==
  ASSUME IInv, Decode
  PROVE  /\ det /\ cpu \in Free /\ gpu = "decode"
         /\ gread' \in gread + 1 .. gwrite /\ gread' <= pp
         /\ done' = done + (gread' - gread) /\ done' \in 1 .. taken
         /\ done' = (taken - write) + gread' /\ done' \in Nat /\ done <= done'
         /\ \A i \in done + 1 .. done' : i = done' \/ stream[i] = "head"
         /\ stream[done'] # "head"
         /\ stream[done'] = "list" => aux # <<>> /\ aux[1] = done' /\ aux' = Tail(aux)
         /\ stream[done'] # "list" => aux' = aux
<1> DEFINE o == taken - write
           extra == IF cpu = "publish" THEN 1 ELSE 0
           end == Smallest(Ends(buf, gread, gwrite))
<1>1. gpu = "decode" /\ det /\ cpu \in Free
  BY DEF IInv, Decode, Places, Asleep, NothingNew, Decoding, Waited, Free, Still, Moving, Locked
<1>2. Preprocessed(extra) /\ Looked /\ Front = gread /\ extra \in {0, 1}
  BY <1>1 DEF IInv, DataFree, Front, Decoding
<1>3. /\ taken \in 0 .. Len(stream) /\ Len(stream) \in Nat /\ done \in Nat
      /\ write \in Nat /\ pp \in Nat /\ gread \in Nat /\ gwrite \in Nat
      /\ aux \in Seq(1 .. MaxChunks)
  BY BufferAssumption DEF IInv, TypeOK, Positions
<1>4. /\ done = o + gread /\ gread <= gwrite /\ gwrite <= write
      /\ gread <= pp /\ pp <= write + extra
      /\ \A p \in gread .. write - 1 : buf[p] = o + p + 1
      /\ \A i \in o + pp + 1 .. taken + extra : stream[i] = "head"
      /\ AuxOf(aux, stream, done, o + pp)
  BY <1>1, <1>2 DEF Preprocessed, Looked, Decoding
<1>5. /\ gread' = end /\ done' = done + (end - gread)
      /\ aux' = IF Kind(buf[end - 1]) = "list" /\ aux # <<>> THEN Tail(aux) ELSE aux
      /\ Ends(buf, gread, gwrite) # {}
  BY DEF Decode
<1>6. /\ end \in gread + 1 .. gwrite /\ Kind(buf[end - 1]) # "head"
      /\ \A p \in gread .. end - 2 : Kind(buf[p]) = "head"
  BY <1>3, <1>5, FirstEnd
<1> HIDE DEF end
<1>7. ASSUME NEW p \in gread .. end - 1
      PROVE  Kind(buf[p]) = stream[o + p + 1] /\ stream[o + p + 1] \in Kinds
  <2>1. buf[p] = o + p + 1 /\ o + p + 1 \in 1 .. Len(stream)
    BY <1>3, <1>4, <1>6
  <2> QED
    BY <2>1, KindIs DEF IInv
<1>8. /\ done' = o + end /\ done' \in 1 .. taken /\ done' \in done + 1 .. taken
      /\ done' \in Nat /\ done <= done'
  BY <1>3, <1>4, <1>5, <1>6
<1>9. stream[done'] # "head" /\ Kind(buf[end - 1]) = stream[done']
  <2>1. end - 1 \in gread .. end - 1 /\ o + (end - 1) + 1 = done'
    BY <1>3, <1>4, <1>6, <1>8
  <2> QED
    BY <1>6, <1>7, <2>1
<1>10. ASSUME NEW i \in done + 1 .. done' - 1 PROVE stream[i] = "head"
  <2>1. i - o - 1 \in gread .. end - 2 /\ i - o - 1 \in gread .. end - 1 /\ o + (i - o - 1) + 1 = i
    BY <1>3, <1>4, <1>6, <1>8
  <2> QED
    BY <1>6, <1>7, <2>1
<1>11. end <= pp
  <2> SUFFICES ASSUME end > pp PROVE FALSE
    BY <1>3, <1>6
  <2>1. done' \in o + pp + 1 .. taken + extra
    BY <1>2, <1>3, <1>4, <1>6, <1>8
  <2> QED
    BY <1>4, <1>9, <2>1
<1>12. stream[done'] = "list" => aux # <<>> /\ aux[1] = done'
  <2> SUFFICES ASSUME stream[done'] = "list" PROVE aux # <<>> /\ aux[1] = done'
    OBVIOUS
  <2>1. done' \in done + 1 .. o + pp
    BY <1>3, <1>4, <1>6, <1>8, <1>11
  <2>2. PICK k \in 1 .. Len(aux) : aux[k] = done'
    BY <1>4, <2>1 DEF AuxOf
  <2>3. k = 1
    <3> SUFFICES ASSUME k # 1 PROVE FALSE
      OBVIOUS
    <3>1. 1 \in 1 .. Len(aux) /\ 1 < k
      BY <1>3
    <3>2. aux[1] < aux[k] /\ aux[1] \in done + 1 .. o + pp /\ stream[aux[1]] = "list"
      BY <1>4, <3>1 DEF AuxOf
    <3>3. aux[1] \in done + 1 .. done' - 1
      BY <1>3, <1>4, <1>8, <2>2, <3>2
    <3> QED
      BY <1>10, <3>2, <3>3
  <2> QED
    BY <1>3, <2>2, <2>3
<1>13. ASSUME NEW i \in done + 1 .. done' PROVE i = done' \/ stream[i] = "head"
  <2>1. i = done' \/ i \in done + 1 .. done' - 1
    BY <1>3, <1>8
  <2> QED
    BY <1>10, <2>1
<1> QED
  BY <1>1, <1>5, <1>6, <1>8, <1>9, <1>11, <1>12, <1>13

\* memmove() keeps what it moves, and the buffer.
LEMMA MovedIs ==
  ASSUME NEW b \in [0 .. BufSize - 1 -> 0 .. MaxChunks],
         NEW from \in Positions, NEW to \in Positions, from <= to
  PROVE  /\ Moved(b, from, to) \in [0 .. BufSize - 1 -> 0 .. MaxChunks]
         /\ \A p \in 0 .. to - from - 1 : Moved(b, from, to)[p] = b[from + p]
<1> USE BufferAssumption DEF Positions
<1>1. ASSUME NEW p \in 0 .. to - from - 1
      PROVE  p \in 0 .. BufSize - 1 /\ from + p \in 0 .. BufSize - 1
  OBVIOUS
<1>2. \A p \in DOMAIN b : p < to - from => p \in 0 .. to - from - 1
  OBVIOUS
<1>3. \A p \in 0 .. BufSize - 1 :
        (IF p < to - from THEN b[from + p] ELSE b[p]) \in 0 .. MaxChunks
  BY <1>1, <1>2
<1>4. DOMAIN b = 0 .. BufSize - 1
  OBVIOUS
<1>5. Moved(b, from, to) \in [0 .. BufSize - 1 -> 0 .. MaxChunks]
  BY <1>3, <1>4 DEF Moved
<1>6. ASSUME NEW p \in 0 .. to - from - 1 PROVE Moved(b, from, to)[p] = b[from + p]
  <2>1. p < to - from /\ p \in DOMAIN b
    BY <1>1
  <2> QED
    BY <2>1 DEF Moved
<1> QED
  BY <1>5, <1>6

\* What is left of a command, moved to the front.
LEMMA RestMoves ==
  ASSUME NEW s, NEW t \in Nat, NEW b \in [0 .. BufSize - 1 -> 0 .. MaxChunks],
         NEW r \in Positions, NEW w \in Positions, NEW d \in Nat, Rest(s, t, b, r, w, d)
  PROVE  Rest(s, t, Moved(b, r, w), 0, w - r, d)
<1>1. r \in Nat /\ w \in Nat /\ r <= w /\ d = t - w + r
  BY BufferAssumption DEF Rest, Positions
<1>2. ASSUME NEW p \in 0 .. w - r - 1 PROVE Moved(b, r, w)[p] = t - (w - r) + p + 1
  <2>1. Moved(b, r, w)[p] = b[r + p]
    BY <1>1, MovedIs
  <2>2. r + p \in r .. w - 1 /\ t - w + (r + p) + 1 = t - (w - r) + p + 1
    BY <1>1
  <2>3. b[r + p] = t - w + (r + p) + 1
    BY <2>2 DEF Rest
  <2> QED
    BY <2>1, <2>2, <2>3
<1>3. 0 <= w - r /\ d = t - (w - r) + 0
  BY <1>1
<1> QED
  BY <1>2, <1>3 DEF Rest

\* One chunk more, up to which there is a command or not.
LEMMA RestGrows ==
  ASSUME NEW s, NEW t \in Nat, NEW d \in 0 .. t, NEW b, NEW c, NEW r \in Nat, NEW w \in Nat,
         Rest(s, t, b, r, w, d), c[w] = t + 1, \A p \in r .. w - 1 : c[p] = b[p],
         NEW end, end = IF s[t + 1] = "head" THEN r ELSE w + 1
  PROVE  /\ end \in r .. w + 1 /\ d + (end - r) \in 0 .. t + 1
         /\ Rest(s, t + 1, c, end, w + 1, d + (end - r))
<1>1. r <= w /\ d = t - w + r
  BY DEF Rest
<1>2. \A p \in r .. w - 1 : b[p] = t - w + p + 1
  BY DEF Rest
<1>3. \A i \in d + 1 .. t : s[i] = "head"
  BY DEF Rest
<1>4. \A p \in r .. w : c[p] = (t + 1) - (w + 1) + p + 1
  BY <1>1, <1>2
<1>5. CASE s[t + 1] = "head"
  <2>1. end = r /\ d + (end - r) = d /\ d + (end - r) = (t + 1) - (w + 1) + end
    BY <1>1, <1>5
  <2>2. \A i \in d + 1 .. t + 1 : s[i] = "head"
    BY <1>3, <1>5
  <2>3. \A p \in end .. (w + 1) - 1 : c[p] = (t + 1) - (w + 1) + p + 1
    BY <1>4, <2>1
  <2>4. \A i \in d + (end - r) + 1 .. t + 1 : s[i] = "head"
    BY <2>1, <2>2
  <2>5. end \in r .. w + 1 /\ end <= w + 1 /\ d + (end - r) \in 0 .. t + 1
    BY <1>1, <2>1
  <2> QED
    BY <2>1, <2>3, <2>4, <2>5 DEF Rest
<1>6. CASE s[t + 1] # "head"
  <2>1. end = w + 1 /\ d + (end - r) = t + 1 /\ d + (end - r) = (t + 1) - (w + 1) + end
    BY <1>1, <1>6
  <2>2. \A p \in end .. (w + 1) - 1 : c[p] = (t + 1) - (w + 1) + p + 1
    BY <2>1
  <2>3. \A i \in d + (end - r) + 1 .. t + 1 : s[i] = "head"
    BY <2>1
  <2>4. end \in r .. w + 1 /\ end <= w + 1 /\ d + (end - r) \in 0 .. t + 1
    BY <1>1, <2>1
  <2> QED
    BY <2>1, <2>2, <2>3, <2>4 DEF Rest
<1> QED
  BY <1>5, <1>6

\* Normal mode: one round of RunGpuLoop().
LEMMA NormalIs ==
  ASSUME IInv, NormalChunk
  PROVE  /\ ~det /\ cpu \in Free \cup Still /\ cpu # "store_seen" /\ gpu = "normal"
         /\ taken' = taken + 1 /\ taken < Len(stream)
         /\ write' \in Positions /\ read' \in Positions /\ done' \in 0 .. taken'
         /\ buf' \in [0 .. BufSize - 1 -> 0 .. MaxChunks]
         /\ Rest(stream, taken', buf', read', write', done')
<1> DEFINE full == write = BufSize
           from == IF full THEN 0 ELSE read
           to == IF full THEN write - read ELSE write
           old == IF full THEN Moved(buf, read, write) ELSE buf
           new == [old EXCEPT ![to] = taken + 1]
           end == Decoded(new, from, to + 1)
<1>1. gpu = "normal" /\ ~det /\ taken < Len(stream)
  BY DEF NormalChunk, IInv, Places
<1>2. cpu \in Free \cup Still /\ cpu # "store_seen"
  BY <1>1 DEF IInv, Places, Knows, TypeOK, Free, Still, Moving, InSync, Locked
<1>3. Rest(stream, taken, buf, read, write, done) /\ Bounded(stream)
  BY <1>1, <1>2 DEF IInv, DataStill
<1>4. /\ taken \in 0 .. Len(stream) /\ taken \in Nat /\ Len(stream) \in Nat /\ done \in 0 .. taken
      /\ done \in Nat /\ read \in Positions /\ write \in Positions
      /\ buf \in [0 .. BufSize - 1 -> 0 .. MaxChunks]
      /\ BufSize \in Nat \ {0} /\ MaxChunks \in Nat /\ Len(stream) <= MaxChunks
  BY BufferAssumption, <1>3 DEF IInv, TypeOK, Bounded, Positions
<1>5. read <= write /\ taken - done = write - read
  BY <1>3, <1>4 DEF Rest, Positions
<1>6. taken - done < BufSize
  BY <1>3, <1>4, RestIsShort DEF Rest
<1>7. from \in Nat /\ to \in Nat /\ from <= to /\ to < BufSize
  BY <1>4, <1>5, <1>6 DEF Positions
<1>8. old \in [0 .. BufSize - 1 -> 0 .. MaxChunks]
  BY <1>4, <1>5, MovedIs
<1>9. Rest(stream, taken, old, from, to, done)
  BY <1>3, <1>4, RestMoves
<1>10. /\ buf' = new /\ write' = to + 1 /\ read' = end /\ taken' = taken + 1
       /\ done' = done + (end - from)
  BY DEF NormalChunk
<1> HIDE DEF full, from, to, old, new, end
<1>11. /\ new \in [0 .. BufSize - 1 -> 0 .. MaxChunks] /\ new[to] = taken + 1
       /\ \A p \in from .. to - 1 : new[p] = old[p]
  <2>1. to \in 0 .. BufSize - 1 /\ taken + 1 \in 0 .. MaxChunks
    BY <1>1, <1>4, <1>7
  <2>2. \A p \in from .. to - 1 : p \in 0 .. BufSize - 1 /\ p # to
    BY <1>4, <1>7
  <2> QED
    BY <1>8, <2>1, <2>2 DEF new
<1>12. /\ end \in from .. to + 1 /\ done + (end - from) \in 0 .. taken + 1
       /\ Rest(stream, taken + 1, new, end, to + 1, done + (end - from))
  <2>1. ASSUME NEW p \in from .. to - 1 PROVE Kind(new[p]) = "head"
    <3>1. new[p] = taken - to + p + 1 /\ done = taken - to + from
      BY <1>9, <1>11 DEF Rest
    <3>2. taken - to + p + 1 \in done + 1 .. taken
      BY <1>4, <1>7, <3>1
    <3>3. stream[new[p]] = "head" /\ new[p] \in done + 1 .. taken
      BY <1>9, <3>1, <3>2 DEF Rest
    <3>4. new[p] \in 1 .. Len(stream)
      BY <1>4, <3>3
    <3> QED
      BY <3>3, <3>4, KindIs DEF IInv
  <2>2. taken + 1 \in 1 .. Len(stream)
    BY <1>1, <1>4
  <2>3. Kind(new[to]) = stream[taken + 1]
    BY <1>11, <2>2, KindIs DEF IInv
  <2>4. end = IF Kind(new[to]) = "head" THEN from ELSE to + 1
    BY <1>7, <2>1, DecodedOneMore DEF end
  <2>5. end = IF stream[taken + 1] = "head" THEN from ELSE to + 1
    BY <2>3, <2>4
  <2>6. taken \in Nat /\ done \in 0 .. taken /\ from \in Nat /\ to \in Nat
    BY <1>4, <1>7
  <2>7. new[to] = taken + 1 /\ \A p \in from .. to - 1 : new[p] = old[p]
    BY <1>11
  <2> HIDE DEF end
  <2> QED
    BY <1>9, <2>5, <2>6, <2>7, RestGrows
<1>13. end \in Positions /\ to + 1 \in Positions
  BY <1>4, <1>7, <1>12 DEF Positions
<1> QED
  BY <1>1, <1>2, <1>10, <1>11, <1>12, <1>13

\* Without lists there is no aux data.
LEMMA NoneLeft ==
  ASSUME NEW a \in Seq(1 .. MaxChunks), NEW s, NEW d \in Nat, AuxOf(a, s, d, d)
  PROVE  a = <<>>
<1>1. \A i \in 1 .. Len(a) : a[i] \in d + 1 .. d
  BY DEF AuxOf
<1>2. Len(a) \in Nat
  OBVIOUS
<1>3. Len(a) = 0
  BY <1>1, <1>2
<1> QED
  BY <1>3

\* When the loop is done while the CPU thread waits in SyncGPU(), the GPU
\* thread has decoded what was preprocessed.
LEMMA SyncIs ==
  ASSUME IInv, SyncWait
  PROVE  /\ Rest(stream, taken, buf, read, write, done) /\ aux = <<>>
         /\ pp = read /\ seen <= write /\ det
<1>1. cpu = "sync_wait" /\ level = "done" /\ det /\ running
  BY DEF IInv, SyncWait, CpuGoto, Loop!IsDone, TypeOK, Places, InSync, Locked, Stopped
<1>2. write <= seen /\ ~Decoding
  BY <1>1 DEF IInv, Asleep, Quiet, NothingNew
<1>3. Preprocessed(0) /\ Looked /\ Front = read
  BY <1>1, <1>2 DEF IInv, DataFree, Free, Front
<1>4. /\ taken \in 0 .. Len(stream) /\ Len(stream) \in Nat /\ done \in 0 .. taken
      /\ write \in Nat /\ pp \in Nat /\ read \in Nat /\ seen \in Nat
      /\ aux \in Seq(1 .. MaxChunks)
  BY BufferAssumption DEF IInv, TypeOK, Positions
<1> DEFINE o == taken - write
<1>5. /\ done = o + read /\ read <= pp /\ read <= write /\ pp <= write /\ seen <= write
      /\ read < pp => stream[o + pp] # "head"
  BY <1>3, <1>4 DEF Preprocessed
<1>6. \A p \in read .. write - 1 : buf[p] = o + p + 1
  BY <1>3 DEF Preprocessed
<1>7. \A i \in done + 1 .. taken : stream[i] = "head"
  <2>1. \A i \in done + 1 .. o + seen : stream[i] = "head"
    BY <1>2, <1>3 DEF Looked
  <2>2. o + seen = taken
    BY <1>2, <1>4, <1>5
  <2> QED
    BY <2>1, <2>2
<1>8. pp = read
  <2> SUFFICES ASSUME read < pp PROVE FALSE
    BY <1>4, <1>5
  <2>1. o + pp \in done + 1 .. taken
    BY <1>4, <1>5
  <2> QED
    BY <1>5, <1>7, <2>1
<1>9. aux = <<>>
  <2>1. AuxOf(aux, stream, done, o + pp)
    BY <1>3 DEF Preprocessed
  <2>2. o + pp = done /\ done \in Nat
    BY <1>4, <1>5, <1>8
  <2> QED
    BY <1>4, <2>1, <2>2, NoneLeft
<1> QED
  BY <1>1, <1>5, <1>6, <1>7, <1>8, <1>9 DEF Rest

\* The aux data of a list is pushed, or there is nothing to push.
LEMMA AuxGrows ==
  ASSUME NEW a \in Seq(1 .. MaxChunks), NEW s, NEW d \in Nat, NEW e \in Nat, NEW t \in Nat,
         d <= e, e <= t, t + 1 <= MaxChunks,
         AuxOf(a, s, d, e), \A i \in e + 1 .. t : s[i] = "head", s[t + 1] = "list"
  PROVE  AuxOf(Append(a, t + 1), s, d, t + 1)
<1> DEFINE b == Append(a, t + 1)
           n == Len(a)
<1>1. /\ Len(b) = n + 1 /\ n \in Nat /\ b[n + 1] = t + 1
      /\ \A i \in 1 .. n : b[i] = a[i]
  <2>1. MaxChunks \in Nat /\ t + 1 \in 1 .. MaxChunks
    BY BufferAssumption
  <2> QED
    BY <2>1, AppendIs
<1> HIDE DEF b, n
<1>2. \A i \in 1 .. n : a[i] \in d + 1 .. e /\ s[a[i]] = "list"
  BY DEF AuxOf, n
<1>3. \A i, j \in 1 .. n : i < j => a[i] < a[j]
  BY DEF AuxOf, n
<1>4. \A m \in d + 1 .. e : s[m] = "list" => \E i \in 1 .. n : a[i] = m
  BY DEF AuxOf, n
<1>5. \A i \in 1 .. n + 1 : \/ i \in 1 .. n /\ b[i] = a[i] /\ a[i] \in d + 1 .. e
                            \/ i = n + 1 /\ b[i] = t + 1
  BY <1>1, <1>2
<1>6. \A i, j \in 1 .. n + 1 : i < j => b[i] < b[j]
  BY <1>1, <1>3, <1>5
<1>7. \A i \in 1 .. n + 1 : b[i] \in d + 1 .. t + 1 /\ s[b[i]] = "list"
  BY <1>1, <1>2, <1>5
<1>8. ASSUME NEW m \in d + 1 .. t + 1, s[m] = "list" PROVE \E i \in 1 .. n + 1 : b[i] = m
  <2>1. m \in d + 1 .. e \/ m = t + 1
    BY <1>8
  <2>2. CASE m = t + 1
    BY <1>1, <2>2
  <2>3. CASE m \in d + 1 .. e
    <3>1. PICK i \in 1 .. n : a[i] = m
      BY <1>4, <1>8, <2>3
    <3>2. i \in 1 .. n + 1 /\ b[i] = m
      BY <1>1, <3>1
    <3> QED
      BY <3>2
  <2> QED
    BY <2>1, <2>2, <2>3
<1> QED
  BY <1>1, <1>6, <1>7, <1>8 DEF AuxOf, b

LEMMA AuxSkips ==
  ASSUME NEW a \in Seq(1 .. MaxChunks), NEW s, NEW d \in Nat, NEW e \in Nat, NEW f \in Nat,
         e <= f, AuxOf(a, s, d, e), \A i \in e + 1 .. f : s[i] # "list"
  PROVE  AuxOf(a, s, d, f)
<1>1. \A i \in 1 .. Len(a) : a[i] \in d + 1 .. f /\ s[a[i]] = "list"
  BY DEF AuxOf
<1>2. \A m \in d + 1 .. f : s[m] = "list" => m \in d + 1 .. e
  OBVIOUS
<1>3. \A m \in d + 1 .. f : s[m] = "list" => \E i \in 1 .. Len(a) : a[i] = m
  BY <1>2 DEF AuxOf
<1> QED
  BY <1>1, <1>3 DEF AuxOf

\* A command without aux data is decoded, or one with.
LEMMA AuxStays ==
  ASSUME NEW a \in Seq(1 .. MaxChunks), NEW s, NEW d \in Nat, NEW e \in Nat, NEW c \in Nat,
         d <= c, AuxOf(a, s, d, e), \A i \in d + 1 .. c : s[i] # "list"
  PROVE  AuxOf(a, s, c, e)
<1>1. ASSUME NEW i \in 1 .. Len(a) PROVE a[i] \in c + 1 .. e /\ s[a[i]] = "list"
  <2>1. a[i] \in d + 1 .. e /\ s[a[i]] = "list"
    BY DEF AuxOf
  <2>2. a[i] \notin d + 1 .. c
    BY <2>1
  <2> QED
    BY <2>1, <2>2
<1>2. \A m \in c + 1 .. e : m \in d + 1 .. e
  OBVIOUS
<1> QED
  BY <1>1, <1>2 DEF AuxOf

LEMMA AuxPops ==
  ASSUME NEW a \in Seq(1 .. MaxChunks), NEW s, NEW d \in Nat, NEW e \in Nat, NEW c \in Nat,
         d <= c, AuxOf(a, s, d, e), a # <<>>, a[1] = c
  PROVE  AuxOf(Tail(a), s, c, e)
<1> DEFINE b == Tail(a)
           n == Len(a)
<1>1. /\ Len(b) = n - 1 /\ n \in Nat \ {0} /\ \A i \in 1 .. n - 1 : b[i] = a[i + 1]
  BY TailIs
<1> HIDE DEF b, n
<1>2. \A i \in 1 .. n : a[i] \in d + 1 .. e /\ s[a[i]] = "list"
  BY DEF AuxOf, n
<1>3. \A i, j \in 1 .. n : i < j => a[i] < a[j]
  BY DEF AuxOf, n
<1>4. \A m \in d + 1 .. e : s[m] = "list" => \E i \in 1 .. n : a[i] = m
  BY DEF AuxOf, n
<1>5. ASSUME NEW i \in 1 .. n - 1 PROVE b[i] \in c + 1 .. e /\ s[b[i]] = "list"
  <2>1. i + 1 \in 1 .. n /\ 1 \in 1 .. n /\ 1 < i + 1
    BY <1>1
  <2>2. a[1] < a[i + 1] /\ a[i + 1] \in d + 1 .. e /\ s[a[i + 1]] = "list"
    BY <1>2, <1>3, <2>1
  <2> QED
    BY <1>1, <2>2
<1>6. ASSUME NEW i \in 1 .. n - 1, NEW j \in 1 .. n - 1, i < j PROVE b[i] < b[j]
  <2>1. i + 1 \in 1 .. n /\ j + 1 \in 1 .. n /\ i + 1 < j + 1
    BY <1>1, <1>6
  <2> QED
    BY <1>1, <1>3, <2>1
<1>7. ASSUME NEW m \in c + 1 .. e, s[m] = "list" PROVE \E i \in 1 .. n - 1 : b[i] = m
  <2>1. PICK i \in 1 .. n : a[i] = m
    BY <1>4, <1>7
  <2>2. i # 1
    BY <2>1
  <2>3. i - 1 \in 1 .. n - 1 /\ (i - 1) + 1 = i
    BY <1>1, <2>2
  <2>4. b[i - 1] = m
    BY <1>1, <2>1, <2>3
  <2> QED
    BY <2>3, <2>4
<1> QED
  BY <1>1, <1>5, <1>6, <1>7 DEF AuxOf, b

\* What both threads rely on does not depend on where they are.
LEMMA FrameIs ==
  ASSUME NEW extra, Preprocessed(extra), Looked,
         UNCHANGED <<stream, taken, buf, read, write, seen, pp, aux, done>>,
         Decoding => UNCHANGED <<gwrite, gread>>,
         Decoding' <=> Decoding, gpu' = "decoded" <=> gpu = "decoded"
  PROVE  Preprocessed(extra)' /\ Looked'
<1>1. Front' = Front
  BY DEF Front
<1>2. Preprocessed(extra)'
  BY <1>1 DEF Preprocessed
<1>3. Looked'
  BY DEF Looked, Decoding
<1> QED
  BY <1>2, <1>3

\* The CPU thread gives the buffer back.
LEMMA RestIsFree ==
  TypeOK /\ ~Decoding /\ Rest(stream, taken, buf, read, write, done) /\ aux = <<>>
    /\ pp = read /\ seen <= write
  => Preprocessed(0) /\ Looked
<1> SUFFICES ASSUME TypeOK, ~Decoding, Rest(stream, taken, buf, read, write, done), aux = <<>>,
                    pp = read, seen <= write
             PROVE  Preprocessed(0) /\ Looked
  OBVIOUS
<1>1. /\ taken \in 0 .. Len(stream) /\ Len(stream) \in Nat /\ done \in 0 .. taken
      /\ write \in Nat /\ read \in Nat /\ seen \in Nat
  BY BufferAssumption DEF TypeOK, Positions
<1> DEFINE o == taken - write
<1>2. read <= write /\ done = o + read
  BY DEF Rest
<1>3. \A p \in read .. write - 1 : buf[p] = o + p + 1
  BY DEF Rest
<1>4. \A i \in done + 1 .. taken : stream[i] = "head"
  BY DEF Rest
<1>5. AuxOf(aux, stream, done, o + pp)
  <2>1. o + pp = done /\ Len(aux) = 0
    BY <1>1, <1>2
  <2> QED
    BY <1>1, <2>1 DEF AuxOf
<1>6. Front = read
  BY DEF Front
<1>7. \A i \in o + pp + 1 .. taken + 0 : stream[i] = "head"
  BY <1>1, <1>2, <1>4
<1>8. Preprocessed(0)
  BY <1>1, <1>2, <1>3, <1>5, <1>6, <1>7 DEF Preprocessed
<1>9. \A i \in done + 1 .. o + seen : stream[i] = "head"
  BY <1>1, <1>4
<1>10. Looked
  BY <1>9 DEF Looked, Decoding
<1> QED
  BY <1>8, <1>10

-----------------------------------------------------------------------------
\* Every step keeps the places of the threads in order.
LEMMA PlacesStep ==
  ASSUME IInv, Orderly, [Next]_vars
  PROVE  Places'
<1> USE BufferAssumption DEF IInv, Orderly, loop, host, ptrs, auxs, gpus, Places, TypeOK,
          InSync, InCallback, Locked, Stopped, Free, Still, Moving
<1>1. CASE RunGpu
  BY <1>1 DEF RunGpu, CpuGoto, Loop!Wakeup
<1>2. CASE SyncWait
  BY <1>2 DEF SyncWait, CpuGoto, Loop!IsDone
<1>3. CASE MoveAux
  BY <1>3 DEF MoveAux, CpuGoto, Returns
<1>4. CASE MoveData
  BY <1>4 DEF MoveData, CpuGoto
<1>5. CASE StoreWrite
  BY <1>5 DEF StoreWrite, CpuGoto
<1>6. CASE StoreRead
  BY <1>6 DEF StoreRead, CpuGoto
<1>7. CASE StoreSeen
  BY <1>7 DEF StoreSeen, CpuGoto, Returns
<1>8. CASE Reset
  BY <1>8 DEF Reset, CpuGoto
<1>9. CASE ResetSeen
  BY <1>9 DEF ResetSeen, RunGpuSchedules, CpuGoto
<1>10. CASE ReadChunk
  BY <1>10 DEF ReadChunk, CpuGoto, SyncGPU, Returns
<1>11. CASE CallbackEnd
  BY <1>11 DEF CallbackEnd, CpuGoto
<1>12. CASE Copy
  BY <1>12 DEF Copy, CpuGoto
<1>13. CASE Push
  BY <1>13 DEF Push, CpuGoto, SyncGPU, Returns
<1>14. CASE Publish
  BY <1>14 DEF Publish, CpuGoto
<1>15. CASE Wake
  BY <1>15 DEF Wake, CpuGoto, Loop!Wakeup
<1>16. CASE LockPause
  BY <1>16 DEF LockPause, CpuGoto
<1>17. CASE LockWait
  BY <1>17 DEF LockWait, CpuGoto, Loop!IsDone
<1>18. CASE LoadRead
  BY <1>18 DEF LoadRead, CpuGoto
<1>19. CASE StartPayload
  BY <1>19 DEF StartPayload, GpuGoto, Loop!Start
<1>20. CASE EndPayload
  BY <1>20 DEF EndPayload, GpuGoto, Loop!End
<1>21. CASE TestRunning
  BY <1>21 DEF TestRunning, GpuGoto
<1>22. CASE LoadSeen
  BY <1>22 DEF LoadSeen, GpuGoto
<1>23. CASE LoadWrite
  BY <1>23 DEF LoadWrite, GpuGoto
<1>24. CASE Decode
  BY <1>24 DEF Decode
<1>25. CASE DecodeEnd
  BY <1>25 DEF DecodeEnd, GpuGoto
<1>26. CASE Seen
  BY <1>26 DEF Seen, GpuGoto
<1>27. CASE NormalChunk
  BY <1>27 DEF NormalChunk
<1>28. CASE NormalEnd
  BY <1>28 DEF NormalEnd, GpuGoto
<1>29. CASE Relax
  BY <1>29 DEF Relax, Loop!Relax
<1>30. CASE Callback
  BY <1>30 DEF Callback, CpuGoto
<1>31. CASE \E kind \in Kinds : Burst(kind)
  BY <1>31 DEF Burst, RunGpuSchedules, CpuGoto
<1>32. CASE GameSync
  BY <1>32 DEF GameSync, CpuGoto, SyncGPU, Returns
<1>33. CASE GameReset
  BY <1>33 DEF GameReset, CpuGoto, SyncGPU, Returns
<1>34. CASE Pause
  BY <1>34 DEF Pause, CpuGoto
<1>35. CASE Resume
  BY <1>35 DEF Resume, CpuGoto
<1>36. CASE Lock
  BY <1>36 DEF Lock, CpuGoto, SyncGPU, Returns
<1>37. CASE \E asked \in BOOLEAN : Unlock(asked)
  BY <1>37 DEF Unlock, CpuGoto
<1>38. CASE UpdateWantDeterminism
  BY <1>38 DEF UpdateWantDeterminism, CpuGoto
<1>39. CASE Save
  BY <1>39 DEF Save, CpuGoto
<1>40. CASE Load
  BY <1>40 DEF Load, CpuGoto
<1>41. CASE Break
  BY <1>41 DEF Break
<1>42. CASE Halt
  BY <1>42 DEF Halt, CpuGoto
<1>43. CASE ResumeActive
  BY <1>43 DEF ResumeActive, Locking
<1>44. CASE ResumeWakeup
  BY <1>44 DEF ResumeWakeup, Loop!Wakeup
<1>45. CASE UNCHANGED vars
  BY <1>45 DEF vars
<1> QED
  BY <1>1, <1>2, <1>3, <1>4, <1>5, <1>6, <1>7, <1>8, <1>9, <1>10, <1>11, <1>12, <1>13, <1>14,
     <1>15, <1>16, <1>17, <1>18, <1>19, <1>20, <1>21, <1>22, <1>23, <1>24, <1>25, <1>26, <1>27,
     <1>28, <1>29, <1>30, <1>31, <1>32, <1>33, <1>34, <1>35, <1>36, <1>37, <1>38, <1>39, <1>40,
     <1>41, <1>42, <1>43, <1>44, <1>45 DEF Next, CpuStep, GpuStep

\* Every step keeps the types.
LEMMA TypeStep ==
  ASSUME IInv, Orderly, [Next]_vars
  PROVE  TypeOK'
<1> USE BufferAssumption DEF IInv, Orderly, loop, host, ptrs, auxs, gpus
<1>1. CASE RunGpu
  BY <1>1 DEF RunGpu, CpuGoto, Loop!Wakeup, TypeOK, Positions, Knows
<1>2. CASE SyncWait
  BY <1>2 DEF SyncWait, CpuGoto, Loop!IsDone, TypeOK, Positions, Knows
<1>3. CASE MoveAux
  <2>1. auxWrite' = Len(aux) /\ UNCHANGED <<level, run, on, quit, running, det, suspended,
           unpause, waking, stream,
           taken, buf, read, write, seen, pp, aux, gseen, gwrite, gread, done>>
    BY <1>3 DEF MoveAux
  <2>2. Len(aux) \in Nat /\ Len(aux) <= AuxSize
    BY DEF TypeOK
  <2> QED
    BY <2>1, <2>2 DEF TypeOK
<1>4. CASE MoveData
  <2>1. buf' = Moved(buf, pp, write) /\ UNCHANGED <<level, run, on, quit, running, det,
           suspended, unpause, waking,
           stream, taken, read, write, seen, pp, aux, auxWrite, gseen, gwrite, gread, done>>
    BY <1>4 DEF MoveData
  <2>2. pp <= write
    BY <1>4 DEF MoveData, CpuGoto, Places, DataStill, Still, InSync, Rest
  <2>3. buf' \in [0 .. BufSize - 1 -> 0 .. MaxChunks]
    BY <2>1, <2>2, MovedIs DEF TypeOK
  <2> QED
    BY <2>1, <2>3 DEF TypeOK
<1>5. CASE StoreWrite
  <2>1. write' = write - pp /\ UNCHANGED <<level, run, on, quit, running, det, suspended,
           unpause, waking, stream,
           taken, buf, read, seen, pp, aux, auxWrite, gseen, gwrite, gread, done>>
    BY <1>5 DEF StoreWrite
  <2>2. pp <= write
    BY <1>5 DEF StoreWrite, CpuGoto, DataMoving
  <2>3. write' \in Positions
    BY <2>1, <2>2 DEF TypeOK, Positions
  <2> QED
    BY <2>1, <2>3 DEF TypeOK
<1>6. CASE StoreRead
  BY <1>6 DEF StoreRead, CpuGoto, TypeOK, Positions, Knows
<1>7. CASE StoreSeen
  BY <1>7 DEF StoreSeen, CpuGoto, Returns, TypeOK, Positions, Knows
<1>8. CASE Reset
  BY <1>8 DEF Reset, CpuGoto, TypeOK, Positions, Knows
<1>9. CASE ResetSeen
  BY <1>9 DEF ResetSeen, RunGpuSchedules, CpuGoto, TypeOK, Positions, Knows
<1>10. CASE ReadChunk
  BY <1>10 DEF ReadChunk, CpuGoto, SyncGPU, Returns, TypeOK, Positions, Knows
<1>11. CASE CallbackEnd
  BY <1>11 DEF CallbackEnd, CpuGoto, TypeOK, Positions, Knows
<1>12. CASE Copy
  <2>1. buf' = [buf EXCEPT ![write] = taken + 1] /\ UNCHANGED <<level, run, on, quit, running,
           det, unpause, stream, taken, read, write, seen, pp, aux, auxWrite, gseen, gwrite,
           gread, done>>
    BY <1>12 DEF Copy
  <2>2. taken < Len(stream) /\ write < BufSize
    BY <1>12 DEF Copy, CpuGoto, Knows
  <2>3. taken + 1 \in 0 .. MaxChunks
    BY <2>2 DEF TypeOK, Bounded
  <2>4. buf' \in [0 .. BufSize - 1 -> 0 .. MaxChunks]
    BY <2>1, <2>3 DEF TypeOK
  <2> QED
    BY <2>1, <2>4 DEF TypeOK
<1>13. CASE Push
  <2>1. UNCHANGED <<level, run, on, quit, running, det, suspended, unpause, waking, stream,
           taken, buf, read, write,
        seen, gseen, gwrite, gread, done>>
    BY <1>13 DEF Push
  <2>2. CASE cpu' # "publish"
    <3>1. UNCHANGED <<pp, aux, auxWrite>>
      BY <1>13, <2>2 DEF Push, CpuGoto, auxs
    <3> QED
      BY <2>1, <3>1 DEF TypeOK
  <2>3. CASE cpu' = "publish"
    <3>1. /\ pp' = IF stream[taken + 1] = "head" THEN pp ELSE write + 1
          /\ aux' = IF stream[taken + 1] = "list" THEN Append(aux, taken + 1) ELSE aux
          /\ auxWrite' = IF stream[taken + 1] = "list" THEN auxWrite + 1 ELSE auxWrite
          /\ stream[taken + 1] = "list" => auxWrite # AuxSize
          /\ taken < Len(stream) /\ write < BufSize
      BY <1>13, <2>3, PushIs
    <3>2. taken + 1 \in 1 .. MaxChunks
      BY <3>1 DEF TypeOK, Bounded
    <3>3. pp' \in Positions
      BY <3>1 DEF TypeOK, Positions
    <3>4. aux' \in Seq(1 .. MaxChunks) /\ auxWrite' \in 0 .. AuxSize /\ Len(aux') <= auxWrite'
      <4>1. aux \in Seq(1 .. MaxChunks) /\ auxWrite \in 0 .. AuxSize /\ Len(aux) <= auxWrite
        BY DEF TypeOK
      <4>2. CASE stream[taken + 1] = "list"
        <5>1. aux' = Append(aux, taken + 1) /\ auxWrite' = auxWrite + 1 /\ auxWrite # AuxSize
          BY <3>1, <4>2
        <5>2. aux' \in Seq(1 .. MaxChunks) /\ Len(aux') = Len(aux) + 1 /\ Len(aux) \in Nat
          BY <3>2, <4>1, <5>1, AppendIs
        <5> QED
          BY <4>1, <5>1, <5>2
      <4>3. CASE stream[taken + 1] # "list"
        BY <3>1, <4>1, <4>3
      <4> QED
        BY <4>2, <4>3
    <3> QED
      BY <2>1, <3>3, <3>4 DEF TypeOK
  <2> QED
    BY <2>2, <2>3
<1>14. CASE Publish
  BY <1>14 DEF Publish, CpuGoto, TypeOK, Positions, Knows
<1>15. CASE Wake
  BY <1>15 DEF Wake, CpuGoto, Loop!Wakeup, TypeOK, Positions, Knows
<1>16. CASE LockPause
  BY <1>16 DEF LockPause, CpuGoto, TypeOK, Positions, Knows
<1>17. CASE LockWait
  BY <1>17 DEF LockWait, CpuGoto, Loop!IsDone, TypeOK, Positions, Knows
<1>18. CASE LoadRead
  <2>1. /\ read' = saved[1].read /\ UNCHANGED <<level, run, on, quit, running, det, suspended,
           unpause, waking,
           stream, taken, buf, write, aux, auxWrite, gseen, gwrite, gread, done>>
        /\ seen' \in {saved[1].read, seen} /\ pp' \in {saved[1].read, pp}
    BY <1>18 DEF LoadRead
  <2>2. saved[1].read \in Positions
    BY <1>18 DEF LoadRead, CpuGoto, DataMoving, SavedOK
  <2> QED
    BY <2>1, <2>2 DEF TypeOK
<1>19. CASE StartPayload
  BY <1>19 DEF StartPayload, GpuGoto, Loop!Start, TypeOK, Positions, Knows
<1>20. CASE EndPayload
  BY <1>20 DEF EndPayload, GpuGoto, Loop!End, TypeOK, Positions, Knows
<1>21. CASE TestRunning
  BY <1>21 DEF TestRunning, GpuGoto, TypeOK, Positions, Knows
<1>22. CASE LoadSeen
  BY <1>22 DEF LoadSeen, GpuGoto, TypeOK, Positions, Knows
<1>23. CASE LoadWrite
  BY <1>23 DEF LoadWrite, GpuGoto, TypeOK, Positions, Knows
<1>24. CASE Decode
  <2>1. UNCHANGED <<level, run, on, quit, running, det, suspended, unpause, waking, stream,
           taken, buf, read, write,
        seen, pp, auxWrite, gseen, gwrite>>
    BY <1>24 DEF Decode
  <2>2. /\ gread' \in gread + 1 .. gwrite /\ done' \in 1 .. taken
        /\ aux' = aux \/ (aux # <<>> /\ aux' = Tail(aux))
    BY <1>24, DecodeIs
  <2>3. gread' \in Positions /\ done' \in 0 .. taken'
    BY <2>1, <2>2 DEF TypeOK, Positions
  <2>4. aux' \in Seq(1 .. MaxChunks) /\ Len(aux') <= auxWrite'
    <3>1. aux \in Seq(1 .. MaxChunks) /\ auxWrite \in 0 .. AuxSize /\ Len(aux) <= auxWrite
      BY DEF TypeOK
    <3>2. CASE aux' = aux
      BY <2>1, <3>1, <3>2
    <3>3. CASE aux # <<>> /\ aux' = Tail(aux)
      <4>1. aux' \in Seq(1 .. MaxChunks) /\ Len(aux) \in Nat /\ Len(aux') = Len(aux) - 1
        BY <3>1, <3>3, TailIs
      <4> QED
        BY <2>1, <3>1, <4>1
    <3> QED
      BY <2>2, <3>2, <3>3
  <2> QED
    BY <2>1, <2>3, <2>4 DEF TypeOK
<1>25. CASE DecodeEnd
  BY <1>25 DEF DecodeEnd, GpuGoto, TypeOK, Positions, Knows
<1>26. CASE Seen
  BY <1>26 DEF Seen, GpuGoto, TypeOK, Positions, Knows
<1>27. CASE NormalChunk
  <2>1. UNCHANGED <<level, run, on, quit, running, det, suspended, unpause, waking, stream,
           seen, pp, aux, auxWrite,
        gseen, gwrite, gread>>
    BY <1>27 DEF NormalChunk, auxs
  <2>2. /\ taken' = taken + 1 /\ taken < Len(stream)
        /\ write' \in Positions /\ read' \in Positions /\ done' \in 0 .. taken'
        /\ buf' \in [0 .. BufSize - 1 -> 0 .. MaxChunks]
    BY <1>27, NormalIs
  <2>3. taken' \in 0 .. Len(stream')
    BY <2>1, <2>2 DEF TypeOK
  <2> QED
    BY <2>1, <2>2, <2>3 DEF TypeOK
<1>28. CASE NormalEnd
  BY <1>28 DEF NormalEnd, GpuGoto, TypeOK, Positions, Knows
<1>29. CASE Relax
  BY <1>29 DEF Relax, Loop!Relax, TypeOK, Positions, Knows
<1>30. CASE Callback
  BY <1>30 DEF Callback, CpuGoto, TypeOK, Positions, Knows
<1>31. CASE \E kind \in Kinds : Burst(kind)
  BY <1>31 DEF Burst, RunGpuSchedules, CpuGoto, TypeOK, Positions, Knows
<1>32. CASE GameSync
  BY <1>32 DEF GameSync, CpuGoto, SyncGPU, Returns, TypeOK, Positions, Knows
<1>33. CASE GameReset
  BY <1>33 DEF GameReset, CpuGoto, SyncGPU, Returns, TypeOK, Positions, Knows
<1>34. CASE Pause
  BY <1>34 DEF Pause, CpuGoto, TypeOK, Positions, Knows
<1>35. CASE Resume
  BY <1>35 DEF Resume, CpuGoto, TypeOK, Positions, Knows
<1>36. CASE Lock
  BY <1>36 DEF Lock, CpuGoto, SyncGPU, Returns, TypeOK, Positions, Knows
<1>37. CASE \E asked \in BOOLEAN : Unlock(asked)
  <2>1. running' \in BOOLEAN /\ unpause' \in BOOLEAN
    BY <1>37, Zenon DEF Unlock
  <2>2. UNCHANGED <<level, run, on, quit, det, suspended, waking, stream, taken, buf, read, write,
           seen, pp, aux, auxWrite, gseen, gwrite, gread, done>>
    BY <1>37 DEF Unlock
  <2> QED
    BY <2>1, <2>2 DEF TypeOK
<1>38. CASE UpdateWantDeterminism
  BY <1>38 DEF UpdateWantDeterminism, CpuGoto, TypeOK, Positions, Knows
<1>39. CASE Save
  BY <1>39 DEF Save, CpuGoto, TypeOK, Positions, Knows
<1>40. CASE Load
  <2>1. /\ stream' = saved[1].stream /\ taken' = saved[1].taken /\ done' = saved[1].done
        /\ buf' = saved[1].buf /\ write' = saved[1].write /\ saved # <<>>
        /\ suspended' = saved[1].suspended
        /\ UNCHANGED <<level, run, on, quit, running, det, unpause, waking, read, seen, pp, aux,
           auxWrite, gseen, gwrite, gread>>
    BY <1>40 DEF Load
  <2>2. /\ saved[1].stream \in Seq(Kinds) /\ saved[1].taken \in 0 .. Len(saved[1].stream)
        /\ saved[1].done \in 0 .. saved[1].taken
        /\ saved[1].buf \in [0 .. BufSize - 1 -> 0 .. MaxChunks] /\ saved[1].write \in Positions
        /\ saved[1].suspended \in BOOLEAN
    BY <2>1 DEF SavedOK, Bounded
  <2> QED
    BY <2>1, <2>2 DEF TypeOK
<1>41. CASE Break
  BY <1>41 DEF Break, TypeOK, Positions, Knows
<1>42. CASE Halt
  BY <1>42 DEF Halt, CpuGoto, TypeOK, Positions, Knows
<1>43. CASE ResumeActive
  BY <1>43 DEF ResumeActive, Locking, TypeOK, Positions, Knows
<1>44. CASE ResumeWakeup
  BY <1>44 DEF ResumeWakeup, Loop!Wakeup, TypeOK, Positions, Knows
<1>45. CASE UNCHANGED vars
  BY <1>45 DEF vars, TypeOK, Positions, Knows
<1> QED
  BY <1>1, <1>2, <1>3, <1>4, <1>5, <1>6, <1>7, <1>8, <1>9, <1>10, <1>11, <1>12, <1>13, <1>14,
  <1>15, <1>16, <1>17, <1>18, <1>19, <1>20, <1>21, <1>22, <1>23, <1>24, <1>25, <1>26, <1>27,
  <1>28, <1>29, <1>30, <1>31, <1>32, <1>33, <1>34, <1>35, <1>36, <1>37, <1>38, <1>39, <1>40,
  <1>41, <1>42, <1>43, <1>44, <1>45
  DEF Next, CpuStep, GpuStep

\* Every step keeps what the CPU thread knows.
LEMMA KnowsStep ==
  ASSUME IInv, Orderly, [Next]_vars
  PROVE  Knows'
<1> USE BufferAssumption DEF IInv, Orderly, loop, host, ptrs, auxs, gpus, Knows, TypeOK,
          Positions, Places, InSync, InCallback, Free, Still, Moving, Locked
<1>1. CASE RunGpu
  BY <1>1 DEF RunGpu, CpuGoto, Loop!Wakeup
<1>2. CASE SyncWait
  BY <1>2 DEF SyncWait, CpuGoto, Loop!IsDone
<1>3. CASE MoveAux
  BY <1>3 DEF MoveAux, CpuGoto, Returns
<1>4. CASE MoveData
  BY <1>4 DEF MoveData, CpuGoto
<1>5. CASE StoreWrite
  BY <1>5 DEF StoreWrite, CpuGoto
<1>6. CASE StoreRead
  BY <1>6 DEF StoreRead, CpuGoto
<1>7. CASE StoreSeen
  <2>1. /\ cpu = "store_seen" /\ cpu' = Returns(why) /\ why' = "none"
        /\ UNCHANGED <<stream, taken, buf, read, write>>
    BY <1>7 DEF StoreSeen, CpuGoto
  <2>2. why \in {"wrap", "game", "reset", "lock"}
    BY <2>1
  <2>3. Rest(stream, taken, buf, 0, write, done)
    BY <2>1 DEF DataStill
  <2>4. taken - done < BufSize
    BY <2>3, RestIsShort DEF Rest
  <2>5. write < BufSize
    BY <2>3, <2>4 DEF Rest
  <2> QED
    BY <2>1, <2>2, <2>5 DEF Returns
<1>8. CASE Reset
  BY <1>8 DEF Reset, CpuGoto
<1>9. CASE ResetSeen
  BY <1>9 DEF ResetSeen, RunGpuSchedules, CpuGoto
<1>10. CASE ReadChunk
  <2>1. taken < Len(stream) /\ cpu = "read" /\ UNCHANGED <<stream, taken, buf, write>>
    BY <1>10 DEF ReadChunk, SyncGPU, CpuGoto
  <2>2. CASE write = BufSize
    <3>1. cpu' = "sync_wait" /\ why' = "wrap"
      BY <1>10, <2>1, <2>2 DEF ReadChunk, SyncGPU, CpuGoto
    <3> QED
      BY <2>1, <3>1
  <2>3. CASE write # BufSize
    <3>1. cpu' = "copy" /\ why' = "none" /\ write < BufSize
      BY <1>10, <2>1, <2>3 DEF ReadChunk, CpuGoto
    <3> QED
      BY <2>1, <3>1
  <2> QED
    BY <2>2, <2>3
<1>11. CASE CallbackEnd
  BY <1>11 DEF CallbackEnd, CpuGoto
<1>12. CASE Copy
  BY <1>12 DEF Copy, CpuGoto
<1>13. CASE Push
  BY <1>13 DEF Push, CpuGoto, SyncGPU, Returns
<1>14. CASE Publish
  BY <1>14 DEF Publish, CpuGoto
<1>15. CASE Wake
  BY <1>15 DEF Wake, CpuGoto, Loop!Wakeup
<1>16. CASE LockPause
  BY <1>16 DEF LockPause, CpuGoto
<1>17. CASE LockWait
  BY <1>17 DEF LockWait, CpuGoto, Loop!IsDone
<1>18. CASE LoadRead
  BY <1>18 DEF LoadRead, CpuGoto
<1>19. CASE StartPayload
  BY <1>19 DEF StartPayload, GpuGoto, Loop!Start
<1>20. CASE EndPayload
  BY <1>20 DEF EndPayload, GpuGoto, Loop!End
<1>21. CASE TestRunning
  BY <1>21 DEF TestRunning, GpuGoto
<1>22. CASE LoadSeen
  BY <1>22 DEF LoadSeen, GpuGoto
<1>23. CASE LoadWrite
  BY <1>23 DEF LoadWrite, GpuGoto
<1>24. CASE Decode
  BY <1>24 DEF Decode
<1>25. CASE DecodeEnd
  BY <1>25 DEF DecodeEnd, GpuGoto
<1>26. CASE Seen
  BY <1>26 DEF Seen, GpuGoto
<1>27. CASE NormalChunk
  BY <1>27 DEF NormalChunk
<1>28. CASE NormalEnd
  BY <1>28 DEF NormalEnd, GpuGoto
<1>29. CASE Relax
  BY <1>29 DEF Relax, Loop!Relax
<1>30. CASE Callback
  BY <1>30 DEF Callback, CpuGoto
<1>31. CASE \E kind \in Kinds : Burst(kind)
  BY <1>31 DEF Burst, RunGpuSchedules, CpuGoto
<1>32. CASE GameSync
  BY <1>32 DEF GameSync, CpuGoto, SyncGPU, Returns
<1>33. CASE GameReset
  BY <1>33 DEF GameReset, CpuGoto, SyncGPU, Returns
<1>34. CASE Pause
  BY <1>34 DEF Pause, CpuGoto
<1>35. CASE Resume
  BY <1>35 DEF Resume, CpuGoto
<1>36. CASE Lock
  BY <1>36 DEF Lock, CpuGoto, SyncGPU, Returns
<1>37. CASE \E asked \in BOOLEAN : Unlock(asked)
  BY <1>37 DEF Unlock, CpuGoto
<1>38. CASE UpdateWantDeterminism
  BY <1>38 DEF UpdateWantDeterminism, CpuGoto
<1>39. CASE Save
  BY <1>39 DEF Save, CpuGoto
<1>40. CASE Load
  BY <1>40 DEF Load, CpuGoto
<1>41. CASE Break
  BY <1>41 DEF Break
<1>42. CASE Halt
  BY <1>42 DEF Halt, CpuGoto
<1>43. CASE ResumeActive
  BY <1>43 DEF ResumeActive, Locking
<1>44. CASE ResumeWakeup
  BY <1>44 DEF ResumeWakeup, Loop!Wakeup
<1>45. CASE UNCHANGED vars
  BY <1>45 DEF vars
<1> QED
  BY <1>1, <1>2, <1>3, <1>4, <1>5, <1>6, <1>7, <1>8, <1>9, <1>10, <1>11, <1>12, <1>13, <1>14,
     <1>15, <1>16, <1>17, <1>18, <1>19, <1>20, <1>21, <1>22, <1>23, <1>24, <1>25, <1>26, <1>27,
     <1>28, <1>29, <1>30, <1>31, <1>32, <1>33, <1>34, <1>35, <1>36, <1>37, <1>38, <1>39, <1>40,
     <1>41, <1>42, <1>43, <1>44, <1>45 DEF Next, CpuStep, GpuStep

\* Every step keeps the protocol of seen_ptr.
LEMMA AsleepStep ==
  ASSUME IInv, Orderly, [Next]_vars
  PROVE  Asleep'
<1> USE BufferAssumption DEF IInv, Orderly, loop, host, ptrs, auxs, gpus, Asleep, TypeOK,
          Positions, Places, InSync, InCallback, Free, Still, Moving, Locked, Stopped,
          Waited, NothingNew, SeesAll, Quiet, Decoding
<1>1. CASE RunGpu
  BY <1>1 DEF RunGpu, CpuGoto, Loop!Wakeup
<1>2. CASE SyncWait
  BY <1>2 DEF SyncWait, CpuGoto, Loop!IsDone
<1>3. CASE MoveAux
  BY <1>3 DEF MoveAux, CpuGoto, Returns
<1>4. CASE MoveData
  BY <1>4 DEF MoveData, CpuGoto
<1>5. CASE StoreWrite
  BY <1>5 DEF StoreWrite, CpuGoto
<1>6. CASE StoreRead
  BY <1>6 DEF StoreRead, CpuGoto
<1>7. CASE StoreSeen
  BY <1>7 DEF StoreSeen, CpuGoto, Returns
<1>8. CASE Reset
  BY <1>8 DEF Reset, CpuGoto
<1>9. CASE ResetSeen
  <2>1. write = 0
    BY <1>9 DEF ResetSeen, RunGpuSchedules, CpuGoto, DataMoving
  <2> QED
    BY <1>9, <2>1 DEF ResetSeen, RunGpuSchedules, CpuGoto
<1>10. CASE ReadChunk
  BY <1>10 DEF ReadChunk, CpuGoto, SyncGPU, Returns
<1>11. CASE CallbackEnd
  BY <1>11 DEF CallbackEnd, CpuGoto
<1>12. CASE Copy
  BY <1>12 DEF Copy, CpuGoto
<1>13. CASE Push
  BY <1>13 DEF Push, CpuGoto, SyncGPU, Returns
<1>14. CASE Publish
  BY <1>14 DEF Publish, CpuGoto
<1>15. CASE Wake
  BY <1>15 DEF Wake, CpuGoto, Loop!Wakeup
<1>16. CASE LockPause
  BY <1>16 DEF LockPause, CpuGoto
<1>17. CASE LockWait
  BY <1>17 DEF LockWait, CpuGoto, Loop!IsDone
<1>18. CASE LoadRead
  BY <1>18 DEF LoadRead, CpuGoto
<1>19. CASE StartPayload
  BY <1>19 DEF StartPayload, GpuGoto, Loop!Start
<1>20. CASE EndPayload
  BY <1>20 DEF EndPayload, GpuGoto, Loop!End
<1>21. CASE TestRunning
  BY <1>21 DEF TestRunning, GpuGoto
<1>22. CASE LoadSeen
  BY <1>22 DEF LoadSeen, GpuGoto
<1>23. CASE LoadWrite
  BY <1>23 DEF LoadWrite, GpuGoto
<1>24. CASE Decode
  BY <1>24 DEF Decode
<1>25. CASE DecodeEnd
  BY <1>25 DEF DecodeEnd, GpuGoto
<1>26. CASE Seen
  BY <1>26 DEF Seen, GpuGoto
<1>27. CASE NormalChunk
  BY <1>27 DEF NormalChunk
<1>28. CASE NormalEnd
  BY <1>28 DEF NormalEnd, GpuGoto
<1>29. CASE Relax
  BY <1>29 DEF Relax, Loop!Relax
<1>30. CASE Callback
  BY <1>30 DEF Callback, CpuGoto
<1>31. CASE \E kind \in Kinds : Burst(kind)
  BY <1>31 DEF Burst, RunGpuSchedules, CpuGoto
<1>32. CASE GameSync
  BY <1>32 DEF GameSync, CpuGoto, SyncGPU, Returns
<1>33. CASE GameReset
  BY <1>33 DEF GameReset, CpuGoto, SyncGPU, Returns
<1>34. CASE Pause
  BY <1>34 DEF Pause, CpuGoto
<1>35. CASE Resume
  BY <1>35 DEF Resume, CpuGoto
<1>36. CASE Lock
  BY <1>36 DEF Lock, CpuGoto, SyncGPU, Returns
<1>37. CASE \E asked \in BOOLEAN : Unlock(asked)
  BY <1>37 DEF Unlock, CpuGoto
<1>38. CASE UpdateWantDeterminism
  BY <1>38 DEF UpdateWantDeterminism, CpuGoto
<1>39. CASE Save
  BY <1>39 DEF Save, CpuGoto
<1>40. CASE Load
  BY <1>40 DEF Load, CpuGoto
<1>41. CASE Break
  BY <1>41 DEF Break
<1>42. CASE Halt
  BY <1>42 DEF Halt, CpuGoto
<1>43. CASE ResumeActive
  BY <1>43 DEF ResumeActive, Locking
<1>44. CASE ResumeWakeup
  BY <1>44 DEF ResumeWakeup, Loop!Wakeup
<1>45. CASE UNCHANGED vars
  BY <1>45 DEF vars
<1> QED
  BY <1>1, <1>2, <1>3, <1>4, <1>5, <1>6, <1>7, <1>8, <1>9, <1>10, <1>11, <1>12, <1>13, <1>14,
     <1>15, <1>16, <1>17, <1>18, <1>19, <1>20, <1>21, <1>22, <1>23, <1>24, <1>25, <1>26, <1>27,
     <1>28, <1>29, <1>30, <1>31, <1>32, <1>33, <1>34, <1>35, <1>36, <1>37, <1>38, <1>39, <1>40,
     <1>41, <1>42, <1>43, <1>44, <1>45 DEF Next, CpuStep, GpuStep

\* Savestates hold what is left of one command, and so does what the game
\* sends.
LEMMA StreamStep ==
  ASSUME IInv, [Next]_vars
  PROVE  Bounded(stream)' /\ SavedOK'
<1> USE BufferAssumption
<1>1. Bounded(stream)'
  <2>1. CASE \E kind \in Kinds : Burst(kind)
    <3>1. PICK kind \in Kinds : Burst(kind)
      BY <2>1
    <3> DEFINE n == Len(stream)
    <3>2. n < MaxChunks /\ stream' = Append(stream, kind)
      BY <3>1 DEF Burst
    <3>3. kind = "head" => \E i \in n - BufSize + 2 .. n : Kind(i) # "head"
      BY <3>1 DEF Burst
    <3>4. stream \in Seq(Kinds)
      BY DEF IInv, Bounded
    <3>5. /\ stream' \in Seq(Kinds) /\ Len(stream') = n + 1 /\ n \in Nat
          /\ \A i \in 1 .. n : stream'[i] = stream[i]
          /\ stream'[n + 1] = kind
      BY <3>2, <3>4, AppendIs
    <3> HIDE DEF n
    <3>6. ASSUME NEW m \in 0 .. n + 1
          PROVE  \E i \in m - BufSize + 1 .. m : i >= 1 => stream'[i] # "head"
      <4>1. CASE m <= n
        <5>1. PICK i \in m - BufSize + 1 .. m : i >= 1 => stream[i] # "head"
          BY <3>5, <4>1 DEF IInv, Bounded, n
        <5>2. i >= 1 => i \in 1 .. n
          BY <3>5, <4>1
        <5> QED
          BY <3>5, <5>1, <5>2
      <4>2. CASE m = n + 1 /\ kind # "head"
        <5>1. m \in m - BufSize + 1 .. m
          BY <3>5
        <5> QED
          BY <3>5, <4>2, <5>1
      <4>3. CASE m = n + 1 /\ kind = "head"
        <5>1. PICK i \in n - BufSize + 2 .. n : Kind(i) # "head"
          BY <3>3, <4>3
        <5>2. i \in m - BufSize + 1 .. m
          BY <3>5, <4>3
        <5>3. i >= 1 => i \in 1 .. n
          BY <3>5
        <5>4. i \in 1 .. n => stream[i] # "head"
          BY <5>1, KindIs DEF IInv, n
        <5> QED
          BY <3>5, <5>2, <5>3, <5>4
      <4> QED
        BY <3>5, <4>1, <4>2, <4>3
    <3>7. n + 1 <= MaxChunks
      BY <3>2, <3>5
    <3> QED
      BY <3>5, <3>6, <3>7 DEF Bounded
  <2>2. CASE Load
    BY <2>2 DEF Load, IInv, SavedOK
  <2>3. CASE UNCHANGED stream
    BY <2>3 DEF IInv, Bounded
  <2>4. (\E kind \in Kinds : Burst(kind)) \/ Load \/ UNCHANGED stream
    BY DEF Next, CpuStep, GpuStep, vars, RunGpu, SyncWait, MoveAux, MoveData, StoreWrite,
           StoreRead, StoreSeen, Reset, ResetSeen, ReadChunk, CallbackEnd, Copy, Push, Publish,
           Wake, LockPause, LockWait, LoadRead, StartPayload, EndPayload, TestRunning, LoadSeen,
           LoadWrite, Decode, DecodeEnd, Seen, NormalChunk, NormalEnd, Relax, Callback, GameSync,
           GameReset, Pause, Resume, Break, Halt, ResumeActive, ResumeWakeup, Lock, Unlock,
           RunGpuSchedules, UpdateWantDeterminism, Save
  <2> QED
    BY <2>1, <2>2, <2>3, <2>4
<1>2. SavedOK'
  <2>1. CASE Save
    <3>1. /\ saved' = <<[stream |-> stream, taken |-> taken, buf |-> buf, read |-> read,
                         write |-> write, done |-> done, suspended |-> suspended]>>
      BY <2>1 DEF Save
    <3>2. Rest(stream, taken, buf, read, write, done)
      BY <2>1 DEF Save, CpuGoto, IInv, DataStill, Still
    <3>3. /\ saved'[1].stream = stream /\ saved'[1].taken = taken /\ saved'[1].buf = buf
          /\ saved'[1].read = read /\ saved'[1].write = write /\ saved'[1].done = done
          /\ saved'[1].suspended = suspended
      BY <3>1
    <3> QED
      BY <3>2, <3>3 DEF IInv, TypeOK, SavedOK
  <2>2. CASE UNCHANGED saved
    BY <2>2 DEF IInv, SavedOK
  <2>3. Save \/ UNCHANGED saved
    BY DEF Next, CpuStep, GpuStep, vars, host, RunGpu, SyncWait, MoveAux, MoveData, StoreWrite,
           StoreRead, StoreSeen, Reset, ResetSeen, ReadChunk, CallbackEnd, Copy, Push, Publish,
           Wake, LockPause, LockWait, LoadRead, StartPayload, EndPayload, TestRunning, LoadSeen,
           LoadWrite, Decode, DecodeEnd, Seen, NormalChunk, NormalEnd, Relax, Callback, GameSync,
           GameReset, Pause, Resume, Break, Halt, ResumeActive, ResumeWakeup, Lock, Unlock,
           RunGpuSchedules, UpdateWantDeterminism, Load, Burst
  <2> QED
    BY <2>1, <2>2, <2>3
<1> QED
  BY <1>1, <1>2

\* Every step keeps what is left of a command, and nothing else.
LEMMA StillStep ==
  ASSUME IInv, Orderly, [Next]_vars
  PROVE  DataStill'
<1> USE BufferAssumption DEF IInv, Orderly, loop, host, ptrs, auxs, gpus, DataStill,
          DataMoving, TypeOK, Positions, Places, Knows, InSync, InCallback, Free, Still,
          Moving, Locked, Stopped, Waited, Asleep, NothingNew, Decoding
<1>1. CASE RunGpu
  BY <1>1 DEF RunGpu, CpuGoto, Loop!Wakeup
<1>2. CASE SyncWait
  <2>1. /\ Rest(stream, taken, buf, read, write, done) /\ aux = <<>>
        /\ pp = read /\ seen <= write
    BY <1>2, SyncIs
  <2> QED
    BY <1>2, <2>1 DEF SyncWait, CpuGoto
<1>3. CASE MoveAux
  BY <1>3 DEF MoveAux, CpuGoto, Returns
<1>4. CASE MoveData
  BY <1>4 DEF MoveData, CpuGoto
<1>5. CASE StoreWrite
  BY <1>5 DEF StoreWrite, CpuGoto
<1>6. CASE StoreRead
  BY <1>6 DEF StoreRead, CpuGoto
<1>7. CASE StoreSeen
  BY <1>7 DEF StoreSeen, CpuGoto, Returns
<1>8. CASE Reset
  BY <1>8 DEF Reset, CpuGoto
<1>9. CASE ResetSeen
  <2>1. /\ read = 0 /\ write = 0 /\ cpu' \in {"guest", "run_gpu"} /\ det' = det
        /\ aux' = <<>> /\ done' = taken /\ read' = 0 /\ write' = 0 /\ taken' = taken
    BY <1>9 DEF ResetSeen, RunGpuSchedules, CpuGoto
  <2>2. taken \in Nat
    OBVIOUS
  <2>3. Rest(stream', taken', buf', read', write', done')
    BY <2>1, <2>2 DEF Rest
  <2> QED
    BY <2>1, <2>3
<1>10. CASE ReadChunk
  BY <1>10 DEF ReadChunk, CpuGoto, SyncGPU, Returns
<1>11. CASE CallbackEnd
  BY <1>11 DEF CallbackEnd, CpuGoto
<1>12. CASE Copy
  BY <1>12 DEF Copy, CpuGoto
<1>13. CASE Push
  BY <1>13 DEF Push, CpuGoto, SyncGPU, Returns
<1>14. CASE Publish
  BY <1>14 DEF Publish, CpuGoto
<1>15. CASE Wake
  BY <1>15 DEF Wake, CpuGoto, Loop!Wakeup
<1>16. CASE LockPause
  BY <1>16 DEF LockPause, CpuGoto
<1>17. CASE LockWait
  BY <1>17 DEF LockWait, CpuGoto, Loop!IsDone
<1>18. CASE LoadRead
  <2>1. /\ cpu = "load_read" /\ cpu' = "unlock" /\ read' = saved[1].read
        /\ det => seen' = saved[1].read /\ pp' = saved[1].read
        /\ UNCHANGED <<det, stream, taken, buf, write, done, aux>>
    BY <1>18 DEF LoadRead, CpuGoto
  <2>2. /\ saved # <<>> /\ aux = <<>>
        /\ stream = saved[1].stream /\ taken = saved[1].taken /\ done = saved[1].done
        /\ buf = saved[1].buf /\ write = saved[1].write
    BY <2>1
  <2>3. Rest(stream, taken, buf, saved[1].read, write, done)
    BY <2>2 DEF SavedOK
  <2>4. saved[1].read <= write
    BY <2>3 DEF Rest
  <2>5. Rest(stream', taken', buf', read', write', done')
    BY <2>1, <2>3
  <2> QED
    BY <2>1, <2>2, <2>4, <2>5
<1>19. CASE StartPayload
  BY <1>19 DEF StartPayload, GpuGoto, Loop!Start
<1>20. CASE EndPayload
  BY <1>20 DEF EndPayload, GpuGoto, Loop!End
<1>21. CASE TestRunning
  BY <1>21 DEF TestRunning, GpuGoto
<1>22. CASE LoadSeen
  BY <1>22 DEF LoadSeen, GpuGoto
<1>23. CASE LoadWrite
  BY <1>23 DEF LoadWrite, GpuGoto
<1>24. CASE Decode
  BY <1>24 DEF Decode
<1>25. CASE DecodeEnd
  BY <1>25 DEF DecodeEnd, GpuGoto
<1>26. CASE Seen
  BY <1>26 DEF Seen, GpuGoto
<1>27. CASE NormalChunk
  <2>1. UNCHANGED <<det, cpu, aux, stream>>
    BY <1>27 DEF NormalChunk
  <2>2. ~det /\ cpu # "store_seen" /\ Rest(stream, taken', buf', read', write', done')
    BY <1>27, NormalIs
  <2>3. aux = <<>>
    BY <1>27, NormalIs
  <2> QED
    BY <2>1, <2>2, <2>3
<1>28. CASE NormalEnd
  BY <1>28 DEF NormalEnd, GpuGoto
<1>29. CASE Relax
  BY <1>29 DEF Relax, Loop!Relax
<1>30. CASE Callback
  BY <1>30 DEF Callback, CpuGoto
<1>31. CASE \E kind \in Kinds : Burst(kind)
  <2>1. PICK kind \in Kinds : Burst(kind)
    BY <1>31
  <2>2. /\ cpu = "guest" /\ cpu' \in {"guest", "run_gpu"} /\ stream' = Append(stream, kind)
        /\ UNCHANGED <<det, taken, buf, read, write, done, aux>>
    BY <2>1 DEF Burst, RunGpuSchedules, CpuGoto
  <2>3. \A i \in 1 .. Len(stream) : stream'[i] = stream[i]
    BY <2>2, AppendIs
  <2>4. ASSUME ~det PROVE Rest(stream', taken', buf', read', write', done')
    <3>1. Rest(stream, taken, buf, read, write, done)
      BY <2>2, <2>4
    <3>2. \A i \in done + 1 .. taken : stream'[i] = "head"
      <4>1. \A i \in done + 1 .. taken : stream[i] = "head" /\ i \in 1 .. Len(stream)
        BY <3>1 DEF Rest
      <4> QED
        BY <2>3, <4>1
    <3> QED
      BY <2>2, <3>1, <3>2 DEF Rest
  <2> QED
    BY <2>2, <2>4
<1>32. CASE GameSync
  BY <1>32 DEF GameSync, CpuGoto, SyncGPU, Returns
<1>33. CASE GameReset
  BY <1>33 DEF GameReset, CpuGoto, SyncGPU, Returns
<1>34. CASE Pause
  BY <1>34 DEF Pause, CpuGoto
<1>35. CASE Resume
  BY <1>35 DEF Resume, CpuGoto
<1>36. CASE Lock
  BY <1>36 DEF Lock, CpuGoto, SyncGPU, Returns
<1>37. CASE \E asked \in BOOLEAN : Unlock(asked)
  BY <1>37 DEF Unlock, CpuGoto
<1>38. CASE UpdateWantDeterminism
  <2>1. /\ cpu = "locked" /\ cpu' = "unlock" /\ det' = ~det
        /\ UNCHANGED <<stream, taken, buf, read, write, done, aux>>
    BY <1>38 DEF UpdateWantDeterminism, CpuGoto
  <2>2. Rest(stream, taken, buf, read, write, done) /\ aux = <<>>
    BY <2>1
  <2>3. read <= write
    BY <2>2 DEF Rest
  <2>4. det' => seen' = read /\ pp' = read
    BY <1>38 DEF UpdateWantDeterminism
  <2> QED
    BY <2>1, <2>2, <2>3, <2>4
<1>39. CASE Save
  BY <1>39 DEF Save, CpuGoto
<1>40. CASE Load
  BY <1>40 DEF Load, CpuGoto
<1>41. CASE Break
  BY <1>41 DEF Break
<1>42. CASE Halt
  BY <1>42 DEF Halt, CpuGoto
<1>43. CASE ResumeActive
  BY <1>43 DEF ResumeActive, Locking
<1>44. CASE ResumeWakeup
  BY <1>44 DEF ResumeWakeup, Loop!Wakeup
<1>45. CASE UNCHANGED vars
  BY <1>45 DEF vars
<1> QED
  BY <1>1, <1>2, <1>3, <1>4, <1>5, <1>6, <1>7, <1>8, <1>9, <1>10, <1>11, <1>12, <1>13, <1>14,
     <1>15, <1>16, <1>17, <1>18, <1>19, <1>20, <1>21, <1>22, <1>23, <1>24, <1>25, <1>26, <1>27,
     <1>28, <1>29, <1>30, <1>31, <1>32, <1>33, <1>34, <1>35, <1>36, <1>37, <1>38, <1>39, <1>40,
     <1>41, <1>42, <1>43, <1>44, <1>45 DEF Next, CpuStep, GpuStep

\* Every step keeps track of the moves of SyncGPU(), resets and loads.
LEMMA MovingStep ==
  ASSUME IInv, Orderly, [Next]_vars
  PROVE  DataMoving'
<1> USE BufferAssumption DEF IInv, Orderly, loop, host, ptrs, auxs, gpus, DataStill,
          DataMoving, TypeOK, Positions, Places, Knows, InSync, InCallback, Free, Still,
          Moving, Locked, Stopped, Waited, Asleep, NothingNew, Decoding
<1>1. CASE RunGpu
  BY <1>1 DEF RunGpu, CpuGoto, Loop!Wakeup
<1>2. CASE SyncWait
  BY <1>2 DEF SyncWait, CpuGoto, Loop!IsDone
<1>3. CASE MoveAux
  BY <1>3 DEF MoveAux, CpuGoto, Returns
<1>4. CASE MoveData
  <2>1. /\ cpu = "move_data" /\ cpu' = "store_write" /\ buf' = Moved(buf, pp, write)
        /\ UNCHANGED <<stream, taken, write, pp, done, aux>>
    BY <1>4 DEF MoveData, CpuGoto
  <2>2. Rest(stream, taken, buf, read, write, done) /\ pp = read /\ aux = <<>>
    BY <2>1
  <2>3. pp <= write
    BY <2>2 DEF Rest
  <2>4. /\ taken \in Nat /\ done \in Nat /\ read \in Positions /\ write \in Positions
        /\ buf \in [0 .. BufSize - 1 -> 0 .. MaxChunks]
    OBVIOUS
  <2>5. Rest(stream, taken, Moved(buf, read, write), 0, write - read, done)
    <3> HIDE DEF IInv
    <3> QED
      BY <2>2, <2>4, RestMoves
  <2>6. Rest(stream, taken, buf', 0, write - pp, done)
    BY <2>1, <2>2, <2>5
  <2> QED
    BY <2>1, <2>2, <2>3, <2>6
<1>5. CASE StoreWrite
  BY <1>5 DEF StoreWrite, CpuGoto
<1>6. CASE StoreRead
  BY <1>6 DEF StoreRead, CpuGoto
<1>7. CASE StoreSeen
  BY <1>7 DEF StoreSeen, CpuGoto, Returns
<1>8. CASE Reset
  BY <1>8 DEF Reset, CpuGoto
<1>9. CASE ResetSeen
  BY <1>9 DEF ResetSeen, RunGpuSchedules, CpuGoto
<1>10. CASE ReadChunk
  BY <1>10 DEF ReadChunk, CpuGoto, SyncGPU, Returns
<1>11. CASE CallbackEnd
  BY <1>11 DEF CallbackEnd, CpuGoto
<1>12. CASE Copy
  BY <1>12 DEF Copy, CpuGoto
<1>13. CASE Push
  BY <1>13 DEF Push, CpuGoto, SyncGPU, Returns
<1>14. CASE Publish
  BY <1>14 DEF Publish, CpuGoto
<1>15. CASE Wake
  BY <1>15 DEF Wake, CpuGoto, Loop!Wakeup
<1>16. CASE LockPause
  BY <1>16 DEF LockPause, CpuGoto
<1>17. CASE LockWait
  BY <1>17 DEF LockWait, CpuGoto, Loop!IsDone
<1>18. CASE LoadRead
  BY <1>18 DEF LoadRead, CpuGoto
<1>19. CASE StartPayload
  BY <1>19 DEF StartPayload, GpuGoto, Loop!Start
<1>20. CASE EndPayload
  BY <1>20 DEF EndPayload, GpuGoto, Loop!End
<1>21. CASE TestRunning
  BY <1>21 DEF TestRunning, GpuGoto
<1>22. CASE LoadSeen
  BY <1>22 DEF LoadSeen, GpuGoto
<1>23. CASE LoadWrite
  BY <1>23 DEF LoadWrite, GpuGoto
<1>24. CASE Decode
  BY <1>24 DEF Decode
<1>25. CASE DecodeEnd
  BY <1>25 DEF DecodeEnd, GpuGoto
<1>26. CASE Seen
  BY <1>26 DEF Seen, GpuGoto
<1>27. CASE NormalChunk
  BY <1>27 DEF NormalChunk
<1>28. CASE NormalEnd
  BY <1>28 DEF NormalEnd, GpuGoto
<1>29. CASE Relax
  BY <1>29 DEF Relax, Loop!Relax
<1>30. CASE Callback
  BY <1>30 DEF Callback, CpuGoto
<1>31. CASE \E kind \in Kinds : Burst(kind)
  BY <1>31 DEF Burst, RunGpuSchedules, CpuGoto
<1>32. CASE GameSync
  BY <1>32 DEF GameSync, CpuGoto, SyncGPU, Returns
<1>33. CASE GameReset
  BY <1>33 DEF GameReset, CpuGoto, SyncGPU, Returns
<1>34. CASE Pause
  BY <1>34 DEF Pause, CpuGoto
<1>35. CASE Resume
  BY <1>35 DEF Resume, CpuGoto
<1>36. CASE Lock
  BY <1>36 DEF Lock, CpuGoto, SyncGPU, Returns
<1>37. CASE \E asked \in BOOLEAN : Unlock(asked)
  BY <1>37 DEF Unlock, CpuGoto
<1>38. CASE UpdateWantDeterminism
  BY <1>38 DEF UpdateWantDeterminism, CpuGoto
<1>39. CASE Save
  BY <1>39 DEF Save, CpuGoto
<1>40. CASE Load
  BY <1>40 DEF Load, CpuGoto
<1>41. CASE Break
  BY <1>41 DEF Break
<1>42. CASE Halt
  BY <1>42 DEF Halt, CpuGoto
<1>43. CASE ResumeActive
  BY <1>43 DEF ResumeActive, Locking
<1>44. CASE ResumeWakeup
  BY <1>44 DEF ResumeWakeup, Loop!Wakeup
<1>45. CASE UNCHANGED vars
  BY <1>45 DEF vars
<1> QED
  BY <1>1, <1>2, <1>3, <1>4, <1>5, <1>6, <1>7, <1>8, <1>9, <1>10, <1>11, <1>12, <1>13, <1>14,
     <1>15, <1>16, <1>17, <1>18, <1>19, <1>20, <1>21, <1>22, <1>23, <1>24, <1>25, <1>26, <1>27,
     <1>28, <1>29, <1>30, <1>31, <1>32, <1>33, <1>34, <1>35, <1>36, <1>37, <1>38, <1>39, <1>40,
     <1>41, <1>42, <1>43, <1>44, <1>45 DEF Next, CpuStep, GpuStep

\* The game sends a chunk.
LEMMA BurstFree ==
  ASSUME IInv, det, NEW kind \in Kinds, Burst(kind)
  PROVE  Preprocessed(0)' /\ Looked'
<1>1. /\ cpu = "guest" /\ stream' = Append(stream, kind)
      /\ UNCHANGED <<taken, buf, read, write, seen, pp, aux, gpu, gwrite, gread, done>>
  BY DEF Burst, RunGpuSchedules, CpuGoto, ptrs, auxs, gpus
<1>2. Preprocessed(0) /\ Looked
  BY <1>1 DEF IInv, DataFree, Free
<1>3. /\ taken \in 0 .. Len(stream) /\ Len(stream) \in Nat /\ done \in 0 .. taken
      /\ write \in Nat /\ pp \in Nat /\ read \in Nat /\ seen \in Nat /\ gread \in Nat
      /\ gwrite \in Nat /\ aux \in Seq(1 .. MaxChunks)
  BY BufferAssumption DEF IInv, TypeOK, Positions
<1>4. \A i \in 1 .. Len(stream) : stream'[i] = stream[i]
  <2>1. stream \in Seq(Kinds)
    BY DEF IInv, TypeOK
  <2> QED
    BY <1>1, <2>1, AppendIs
<1>5. Front' = Front /\ (Decoding' <=> Decoding) /\ Front \in Nat
  BY <1>1, <1>3 DEF Front, Decoding
<1> DEFINE o == taken - write
<1>6. done = o + Front /\ Front <= pp /\ Front <= write /\ pp <= write /\ seen <= write
  BY <1>2, <1>3 DEF Preprocessed
<1>7. \A i \in o + pp + 1 .. taken + 0 : stream'[i] = "head"
  <2>1. \A i \in o + pp + 1 .. taken + 0 : i \in 1 .. Len(stream)
    BY <1>3, <1>5, <1>6
  <2>2. \A i \in o + pp + 1 .. taken + 0 : stream[i] = "head"
    BY <1>2 DEF Preprocessed
  <2> QED
    BY <1>4, <2>1, <2>2
<1>8. Front < pp => stream'[o + pp] # "head"
  <2>1. Front < pp => o + pp \in 1 .. Len(stream)
    BY <1>3, <1>5, <1>6
  <2> QED
    BY <1>2, <1>4, <2>1 DEF Preprocessed
<1>9. AuxOf(aux, stream', done, o + pp)
  <2>1. \A m \in done + 1 .. o + pp : stream'[m] = stream[m]
    <3>1. \A m \in done + 1 .. o + pp : m \in 1 .. Len(stream)
      BY <1>3, <1>5, <1>6
    <3> QED
      BY <1>4, <3>1
  <2>2. AuxOf(aux, stream, done, o + pp)
    BY <1>2 DEF Preprocessed
  <2>3. \A i \in 1 .. Len(aux) : aux[i] \in done + 1 .. o + pp /\ stream'[aux[i]] = "list"
    BY <2>1, <2>2 DEF AuxOf
  <2>4. \A n \in done + 1 .. o + pp : stream'[n] = "list" => \E i \in 1 .. Len(aux) : aux[i] = n
    BY <2>1, <2>2 DEF AuxOf
  <2> QED
    BY <2>2, <2>3, <2>4 DEF AuxOf
<1>10. \A p \in Front .. write - 1 : buf[p] = o + p + 1
  BY <1>2 DEF Preprocessed
<1>11. Preprocessed(0)'
  <2>1. taken' - write' = o /\ done' = o + Front' /\ Front' <= pp' /\ Front' <= write'
        /\ pp' <= write' + 0 /\ seen' <= write'
    BY <1>1, <1>3, <1>5, <1>6
  <2> QED
    BY <1>1, <1>5, <1>7, <1>8, <1>9, <1>10, <2>1 DEF Preprocessed
<1>12. Looked'
  <2>1. Decoding => gread <= gwrite /\ gwrite <= write
    BY <1>2 DEF Looked
  <2>2. gpu = "decoded" => read = gread /\ \A i \in done + 1 .. o + gwrite : stream'[i] = "head"
    <3>1. gpu = "decoded" => Decoding
      BY DEF Decoding
    <3>2. gpu = "decoded" => \A i \in done + 1 .. o + gwrite : i \in 1 .. Len(stream)
      BY <1>3, <2>1, <3>1
    <3>3. gpu = "decoded" => read = gread /\ \A i \in done + 1 .. o + gwrite : stream[i] = "head"
      BY <1>2 DEF Looked
    <3> QED
      BY <1>4, <3>2, <3>3
  <2>3. ~Decoding => \A i \in done + 1 .. o + seen : stream'[i] = "head"
    <3>1. \A i \in done + 1 .. o + seen : i \in 1 .. Len(stream)
      BY <1>3, <1>6
    <3>2. ~Decoding => \A i \in done + 1 .. o + seen : stream[i] = "head"
      BY <1>2 DEF Looked
    <3> QED
      BY <1>4, <3>1, <3>2
  <2> QED
    BY <1>1, <1>5, <2>1, <2>2, <2>3 DEF Looked
<1> QED
  BY <1>11, <1>12

\* ReadDataFromFifoOnCPU() copies a chunk to where the GPU thread does not look.
LEMMA CopyFree ==
  ASSUME IInv, Copy
  PROVE  Preprocessed(0)' /\ Looked'
<1>1. /\ cpu = "copy" /\ buf' = [buf EXCEPT ![write] = taken + 1]
      /\ UNCHANGED <<stream, taken, read, write, seen, pp, aux, gpu, gwrite, gread, done>>
  BY DEF Copy, CpuGoto, ptrs, auxs, gpus
<1>2. Preprocessed(0) /\ Looked
  BY <1>1 DEF IInv, DataFree, Free, Places, InCallback
<1>3. Looked'
  BY <1>1, <1>2 DEF Looked, Decoding
<1>4. Front' = Front /\ Front \in Nat /\ write \in Nat /\ write <= BufSize
  BY <1>1, BufferAssumption DEF Front, Decoding, IInv, TypeOK, Positions
<1>5. \A p \in Front .. write - 1 : buf'[p] = buf[p]
  BY <1>1, <1>4, BufferAssumption DEF IInv, TypeOK
<1>6. Preprocessed(0)'
  BY <1>1, <1>2, <1>4, <1>5 DEF Preprocessed
<1> QED
  BY <1>3, <1>6

\* OpcodeDecoder::Run<true>() moves pp_read_ptr past a command that is complete.
LEMMA PushFree ==
  ASSUME IInv, Push, cpu' = "publish"
  PROVE  Preprocessed(1)' /\ Looked'
<1> DEFINE o == taken - write
           kind == stream[taken + 1]
<1>1. /\ pp' = IF kind = "head" THEN pp ELSE write + 1
      /\ aux' = IF kind = "list" THEN Append(aux, taken + 1) ELSE aux
      /\ cpu = "push" /\ det /\ Preprocessed(0) /\ taken < Len(stream) /\ write < BufSize
      /\ buf[write] = taken + 1 /\ kind \in Kinds
  BY PushIs
<1>2. UNCHANGED <<stream, taken, buf, read, write, seen, gpu, gwrite, gread, done>>
  BY DEF Push, gpus
<1>3. Looked
  BY <1>1 DEF IInv, DataFree, Free
<1>4. Looked'
  BY <1>2, <1>3 DEF Looked, Decoding
<1>5. /\ taken \in 0 .. Len(stream) /\ Len(stream) \in Nat /\ done \in 0 .. taken
      /\ write \in Nat /\ pp \in Nat /\ Front \in Nat /\ seen \in Nat
      /\ aux \in Seq(1 .. MaxChunks) /\ Len(stream) <= MaxChunks /\ MaxChunks \in Nat
  BY BufferAssumption DEF IInv, TypeOK, Positions, Front, Bounded
<1>6. /\ done = o + Front /\ Front <= pp /\ Front <= write /\ pp <= write /\ seen <= write
      /\ Front < pp => stream[o + pp] # "head"
      /\ AuxOf(aux, stream, done, o + pp)
  BY <1>1, <1>5 DEF Preprocessed
<1>7. \A i \in o + pp + 1 .. taken : stream[i] = "head"
  BY <1>1, <1>5 DEF Preprocessed
<1>8. \A p \in Front .. write - 1 : buf[p] = o + p + 1
  BY <1>1 DEF Preprocessed
<1>9. Front' = Front
  BY <1>2 DEF Front, Decoding
<1>10. o + pp \in Nat /\ done <= o + pp /\ o + pp <= taken /\ taken + 1 <= MaxChunks /\ done \in Nat
       /\ taken \in Nat /\ taken + 1 \in Nat /\ o + pp <= taken + 1
  BY <1>1, <1>5, <1>6
<1>11. AuxOf(aux', stream, done, o + pp') /\ o + (write + 1) = taken + 1
  <2>1. o + (write + 1) = taken + 1
    BY <1>5
  <2>2. CASE kind = "head"
    BY <1>1, <1>6, <2>1, <2>2
  <2>3. CASE kind = "list"
    <3>1. aux' = Append(aux, taken + 1) /\ pp' = write + 1
      BY <1>1, <2>3
    <3>2. AuxOf(Append(aux, taken + 1), stream, done, taken + 1)
      BY <1>5, <1>6, <1>7, <1>10, <2>3, AuxGrows
    <3> QED
      BY <2>1, <3>1, <3>2
  <2>4. CASE kind = "plain"
    <3>1. aux' = aux /\ pp' = write + 1
      BY <1>1, <2>4
    <3>2. \A i \in o + pp + 1 .. taken + 1 : stream[i] # "list"
      BY <1>5, <1>7, <1>10, <2>4
    <3>3. AuxOf(aux, stream, done, taken + 1)
      BY <1>5, <1>6, <1>10, <3>2, AuxSkips
    <3> QED
      BY <2>1, <3>1, <3>3
  <2> QED
    BY <1>1, <2>1, <2>2, <2>3, <2>4, BufferAssumption
<1>12. \A i \in o + pp' + 1 .. taken + 1 : stream[i] = "head"
  <2>1. CASE kind = "head"
    BY <1>1, <1>5, <1>7, <1>10, <2>1
  <2>2. CASE kind # "head"
    <3>1. o + pp' = taken + 1
      BY <1>1, <1>11, <2>2
    <3> QED
      BY <1>10, <3>1
  <2> QED
    BY <2>1, <2>2
<1>13. Front < pp' => stream[o + pp'] # "head"
  <2>1. CASE kind = "head"
    BY <1>1, <1>6, <2>1
  <2>2. CASE kind # "head"
    BY <1>1, <1>11, <2>2
  <2> QED
    BY <2>1, <2>2
<1>14. Front <= pp' /\ pp' <= write + 1
  BY <1>1, <1>5, <1>6
<1>15. Preprocessed(1)'
  <2>1. taken' - write' = o /\ done' = o + Front' /\ Front' <= write' /\ seen' <= write'
    BY <1>2, <1>6, <1>9
  <2> QED
    BY <1>2, <1>8, <1>9, <1>11, <1>12, <1>13, <1>14, <2>1 DEF Preprocessed
<1> QED
  BY <1>4, <1>15

\* write_ptr makes the chunk visible.
LEMMA PublishFree ==
  ASSUME IInv, Publish
  PROVE  Preprocessed(0)' /\ Looked'
<1> DEFINE o == taken - write
<1>1. /\ cpu = "publish" /\ write' = write + 1 /\ taken' = taken + 1
      /\ UNCHANGED <<stream, buf, read, seen, pp, aux, gpu, gwrite, gread, done>>
  BY DEF Publish, CpuGoto, auxs, gpus
<1>2. Preprocessed(1) /\ Looked /\ buf[write] = taken + 1
  BY <1>1 DEF IInv, DataFree, Free, Places, InCallback, Knows
<1>3. /\ taken \in Nat /\ done \in Nat /\ write \in Nat /\ pp \in Nat /\ Front \in Nat
      /\ seen \in Nat /\ gwrite \in Nat
  BY BufferAssumption DEF IInv, TypeOK, Positions, Front
<1>4. taken' - write' = o /\ Front' = Front /\ taken' + 0 = taken + 1 /\ taken - write = o
  BY <1>1, <1>3 DEF Front, Decoding
<1>5. /\ done = o + Front /\ Front <= pp /\ Front <= write /\ pp <= write + 1 /\ seen <= write
      /\ Front < pp => stream[o + pp] # "head"
      /\ AuxOf(aux, stream, done, o + pp)
      /\ \A i \in o + pp + 1 .. taken + 1 : stream[i] = "head"
  BY <1>2 DEF Preprocessed
<1>6. \A p \in Front .. write - 1 : buf[p] = o + p + 1
  BY <1>2 DEF Preprocessed
<1>7. \A p \in Front .. (write + 1) - 1 : buf[p] = o + p + 1
  BY <1>2, <1>3, <1>6
<1>8. Front' <= write' /\ pp' <= write' + 0 /\ seen' <= write'
  BY <1>1, <1>3, <1>4, <1>5
<1>9. Preprocessed(0)'
  BY <1>1, <1>4, <1>5, <1>7, <1>8 DEF Preprocessed
<1>10. Decoding' <=> Decoding
  BY <1>1 DEF Decoding
<1>11. Decoding => gread <= gwrite /\ gwrite <= write + 1
  BY <1>2, <1>3 DEF Looked
<1>12. Looked'
  BY <1>1, <1>2, <1>4, <1>10, <1>11 DEF Looked
<1> QED
  BY <1>9, <1>12

\* RunGpuLoop() takes what write_ptr says.
LEMMA LoadWriteFree ==
  ASSUME IInv, LoadWrite, NEW extra, Preprocessed(extra), Looked
  PROVE  Preprocessed(extra)' /\ Looked'
<1>1. /\ gpu = "load_write" /\ gpu' \in {"decode", "end"} /\ gwrite' = write /\ gread' = read
      /\ UNCHANGED <<stream, taken, buf, read, write, seen, pp, aux, done>>
  BY DEF LoadWrite, GpuGoto, ptrs, auxs
<1>2. ~Decoding /\ gpu' # "decoded" /\ (gpu' = "decode" <=> Decoding')
  BY <1>1 DEF Decoding
<1>3. Front = read /\ Front' = read
  BY <1>1, <1>2 DEF Front
<1>4. Preprocessed(extra)'
  BY <1>1, <1>3 DEF Preprocessed
<1>5. read <= write /\ write <= write
  BY <1>3 DEF Preprocessed, IInv, TypeOK, Positions
<1>6. Looked'
  BY <1>1, <1>2, <1>5 DEF Looked
<1> QED
  BY <1>4, <1>6

\* A command is decoded.
LEMMA DecodeFree ==
  ASSUME IInv, Decode, NEW extra \in Nat, Preprocessed(extra), Looked
  PROVE  Preprocessed(extra)' /\ Looked'
<1> DEFINE o == taken - write
<1>1. UNCHANGED <<stream, taken, buf, read, write, seen, pp, gpu, gwrite>>
  BY DEF Decode, ptrs
<1>2. /\ gpu = "decode" /\ gread' \in gread + 1 .. gwrite /\ gread' <= pp
      /\ done' = done + (gread' - gread) /\ done' \in 1 .. taken /\ done' = o + gread'
      /\ \A i \in done + 1 .. done' : i = done' \/ stream[i] = "head"
      /\ done' \in Nat /\ done <= done'
      /\ stream[done'] = "list" => aux # <<>> /\ aux[1] = done' /\ aux' = Tail(aux)
      /\ stream[done'] # "list" => aux' = aux
  BY DecodeIs
<1>3. /\ taken \in 0 .. Len(stream) /\ Len(stream) \in Nat /\ done \in 0 .. taken
      /\ write \in Nat /\ pp \in Nat /\ gread \in Nat /\ gwrite \in Nat
      /\ aux \in Seq(1 .. MaxChunks)
  BY BufferAssumption DEF IInv, TypeOK, Positions
<1>4. Front = gread /\ Front' = gread' /\ Decoding /\ Decoding' /\ gpu' # "decoded"
  BY <1>1, <1>2 DEF Front, Decoding
<1>5. /\ done = o + gread /\ gread <= pp /\ pp <= write + extra /\ seen <= write
      /\ gread < pp => stream[o + pp] # "head"
      /\ AuxOf(aux, stream, done, o + pp)
      /\ \A i \in o + pp + 1 .. taken + extra : stream[i] = "head"
  BY <1>4 DEF Preprocessed
<1>6. \A p \in gread .. write - 1 : buf[p] = o + p + 1
  BY <1>4 DEF Preprocessed
<1>7. gread <= gwrite /\ gwrite <= write
  BY <1>4 DEF Looked
<1>8. /\ gread' \in Nat /\ done' \in Nat /\ gread < gread' /\ gread' <= write
      /\ o + pp \in Nat /\ done \in Nat /\ done <= done'
  <2>1. gread' \in Nat /\ gread < gread' /\ gread' <= write
    BY <1>2, <1>3, <1>7
  <2>2. done = o + gread /\ gread <= pp /\ done \in Nat
    BY <1>3, <1>5
  <2>3. o + pp \in Nat
    BY <1>3, <2>2
  <2> QED
    BY <1>2, <2>1, <2>2, <2>3
<1>9. AuxOf(aux', stream, done', o + pp)
  <2>1. CASE stream[done'] = "list"
    <3>1. AuxOf(Tail(aux), stream, done', o + pp)
      BY <1>2, <1>3, <1>5, <1>8, <2>1, AuxPops
    <3> QED
      BY <1>2, <2>1, <3>1
  <2>2. CASE stream[done'] # "list"
    <3>1. \A i \in done + 1 .. done' : stream[i] # "list"
      BY <1>2, <2>2
    <3>2. AuxOf(aux, stream, done', o + pp)
      BY <1>3, <1>5, <1>8, <3>1, AuxStays
    <3> QED
      BY <1>2, <2>2, <3>2
  <2> QED
    BY <2>1, <2>2
<1>10. \A p \in gread' .. write - 1 : buf[p] = o + p + 1
  BY <1>3, <1>6, <1>8
<1>11. gread' < pp => stream[o + pp] # "head"
  BY <1>3, <1>5, <1>8
<1>12. Preprocessed(extra)'
  BY <1>1, <1>2, <1>4, <1>5, <1>8, <1>9, <1>10, <1>11 DEF Preprocessed
<1>13. Looked'
  BY <1>1, <1>2, <1>3, <1>4, <1>7, <1>8 DEF Looked
<1> QED
  BY <1>12, <1>13

\* What is left after the last command is a head.
LEMMA DecodeEndFree ==
  ASSUME IInv, DecodeEnd, NEW extra \in Nat, Preprocessed(extra), Looked
  PROVE  Preprocessed(extra)' /\ Looked'
<1> DEFINE o == taken - write
<1>1. /\ gpu = "decode" /\ gpu' = "decoded" /\ Ends(buf, gread, gwrite) = {} /\ read' = gread
      /\ UNCHANGED <<stream, taken, buf, write, seen, pp, aux, gwrite, gread, done>>
  BY DEF DecodeEnd, GpuGoto, auxs
<1>2. Front = gread /\ Front' = gread /\ Decoding /\ Decoding'
  BY <1>1 DEF Front, Decoding
<1>3. Preprocessed(extra)'
  BY <1>1, <1>2 DEF Preprocessed
<1>4. /\ taken \in 0 .. Len(stream) /\ Len(stream) \in Nat /\ done \in 0 .. taken
      /\ write \in Nat /\ gread \in Nat /\ gwrite \in Nat
  BY BufferAssumption DEF IInv, TypeOK, Positions
<1>5. /\ gread <= gwrite /\ gwrite <= write /\ done = o + gread
      /\ \A p \in gread .. write - 1 : buf[p] = o + p + 1
  BY <1>2 DEF Looked, Preprocessed
<1>6. ASSUME NEW i \in done + 1 .. o + gwrite PROVE stream[i] = "head"
  <2>1. i - o \in gread + 1 .. gwrite /\ (i - o) - 1 \in gread .. write - 1
        /\ o + ((i - o) - 1) + 1 = i /\ i \in 1 .. Len(stream)
    BY <1>4, <1>5
  <2>2. buf[(i - o) - 1] = i
    BY <1>5, <2>1
  <2>3. Kind(buf[(i - o) - 1]) = "head"
    BY <1>1, <2>1 DEF Ends
  <2> QED
    BY <2>1, <2>2, <2>3, KindIs DEF IInv
<1>7. Looked'
  BY <1>1, <1>2, <1>5, <1>6 DEF Looked
<1> QED
  BY <1>3, <1>7

\* seen_ptr follows what was looked at.
LEMMA SeenFree ==
  ASSUME IInv, Seen, NEW extra, Preprocessed(extra), Looked
  PROVE  Preprocessed(extra)' /\ Looked'
<1> DEFINE o == taken - write
<1>1. /\ gpu = "decoded" /\ gpu' = "end" /\ seen' = gwrite
      /\ UNCHANGED <<stream, taken, buf, read, write, pp, aux, gwrite, gread, done>>
  BY DEF Seen, GpuGoto, auxs
<1>2. Decoding /\ ~Decoding' /\ gpu' # "decoded"
  BY <1>1 DEF Decoding
<1>3. read = gread /\ gwrite <= write /\ \A i \in done + 1 .. o + gwrite : stream[i] = "head"
  BY <1>1, <1>2 DEF Looked
<1>4. Front = gread /\ Front' = gread
  BY <1>1, <1>2, <1>3 DEF Front
<1>5. Preprocessed(extra)'
  BY <1>1, <1>3, <1>4 DEF Preprocessed
<1>6. Looked'
  BY <1>1, <1>2, <1>3 DEF Looked
<1> QED
  BY <1>5, <1>6

\* The same, for the next state.
LEMMA RestIsFreeNext ==
  ASSUME TypeOK', ~Decoding', Rest(stream, taken, buf, read, write, done)', aux' = <<>>,
         pp' = read', seen' <= write'
  PROVE  Preprocessed(0)' /\ Looked'
<1>1. (TypeOK /\ ~Decoding /\ Rest(stream, taken, buf, read, write, done) /\ aux = <<>>
         /\ pp = read /\ seen <= write
       => Preprocessed(0) /\ Looked)'
  BY RestIsFree, PTL
<1> QED
  BY <1>1

\* Steps of the CPU thread that leave the buffers alone.
LEMMA CpuMoves ==
  ASSUME IInv, det /\ cpu' \in Free => cpu \in Free /\ cpu # "publish" /\ cpu' # "publish",
         UNCHANGED <<det, stream, taken, buf, read, write, seen, pp, aux, done, gpu, gwrite, gread>>
  PROVE  DataFree'
<1>1. Decoding' <=> Decoding
  BY DEF Decoding
<1>2. ASSUME det', cpu' \in Free PROVE Preprocessed(0)' /\ Looked' /\ cpu' # "publish"
  <2>1. Preprocessed(0) /\ Looked /\ cpu' # "publish"
    BY <1>2 DEF IInv, DataFree
  <2> QED
    BY <1>1, <2>1, FrameIs
<1> QED
  BY <1>2 DEF DataFree

\* Steps of the GPU thread.
LEMMA GpuMoves ==
  ASSUME IInv, UNCHANGED <<det, cpu>>,
         \A extra \in {0, 1} :
           det /\ Preprocessed(extra) /\ Looked => Preprocessed(extra)' /\ Looked'
  PROVE  DataFree'
BY DEF IInv, DataFree

\* Steps of the payload before and after it decodes.
LEMMA GpuIdles ==
  ASSUME IInv, UNCHANGED <<det, cpu, stream, taken, buf, read, write, seen, pp, aux, done>>,
         Decoding => UNCHANGED <<gwrite, gread>>,
         Decoding' <=> Decoding, gpu' = "decoded" <=> gpu = "decoded"
  PROVE  DataFree'
<1>1. ASSUME NEW extra, Preprocessed(extra), Looked PROVE Preprocessed(extra)' /\ Looked'
  BY <1>1, FrameIs
<1> QED
  BY <1>1, GpuMoves

\* Every step keeps what both threads rely on.
LEMMA FreeStep ==
  ASSUME IInv, Orderly, [Next]_vars
  PROVE  DataFree'
<1> USE BufferAssumption DEF IInv, Orderly, loop, host, ptrs, auxs, gpus
<1>1. CASE RunGpu
  BY <1>1, CpuMoves DEF RunGpu, CpuGoto, Loop!Wakeup, DataFree, Free
<1>2. CASE SyncWait
  BY <1>2, CpuMoves DEF SyncWait, CpuGoto, Loop!IsDone, DataFree, Free
<1>3. CASE MoveAux
  <2>1. /\ cpu = "move_aux" /\ cpu' \in {"push", "move_data"} /\ det
        /\ UNCHANGED <<stream, taken, buf, read, write, seen, pp, aux, done, gpu>>
    BY <1>3 DEF MoveAux, CpuGoto, Returns, Places, InSync
  <2>2. /\ Rest(stream, taken, buf, read, write, done) /\ aux = <<>> /\ pp = read /\ seen <= write
        /\ ~Decoding
    BY <2>1 DEF DataStill, Still, Asleep, Waited, NothingNew
  <2>3. Preprocessed(0)' /\ Looked'
    BY <2>1, <2>2, TypeStep, RestIsFreeNext DEF Decoding
  <2> QED
    BY <2>1, <2>3 DEF DataFree
<1>4. CASE MoveData
  BY <1>4 DEF MoveData, CpuGoto, DataFree, Free
<1>5. CASE StoreWrite
  BY <1>5 DEF StoreWrite, CpuGoto, DataFree, Free
<1>6. CASE StoreRead
  BY <1>6 DEF StoreRead, CpuGoto, DataFree, Free
<1>7. CASE StoreSeen
  <2>1. /\ cpu = "store_seen" /\ cpu' # "publish" /\ det /\ seen' = write
        /\ UNCHANGED <<stream, taken, buf, read, write, pp, aux, done, gpu>>
    BY <1>7 DEF StoreSeen, CpuGoto, Returns, Places, InSync
  <2>2. Rest(stream, taken, buf, read, write, done) /\ aux = <<>> /\ pp = read /\ ~Decoding
    BY <2>1 DEF DataStill, Still, Asleep, Waited, NothingNew
  <2>3. seen' <= write'
    BY <2>1 DEF TypeOK, Positions
  <2>4. Preprocessed(0)' /\ Looked'
    BY <2>1, <2>2, <2>3, TypeStep, RestIsFreeNext DEF Decoding
  <2> QED
    BY <2>1, <2>4 DEF DataFree
<1>8. CASE Reset
  BY <1>8 DEF Reset, CpuGoto, DataFree, Free
<1>9. CASE ResetSeen
  <2>1. /\ cpu = "reset_seen" /\ cpu' # "publish" /\ det' = det /\ read' = 0 /\ write' = 0
        /\ seen' = 0 /\ pp' = 0 /\ aux' = <<>> /\ done' = taken'
        /\ UNCHANGED <<stream, taken, gpu>>
    BY <1>9 DEF ResetSeen, RunGpuSchedules, CpuGoto, DataMoving
  <2>2. det => ~Decoding
    BY <2>1 DEF Asleep, Waited, NothingNew
  <2>3. Rest(stream, taken, buf, read, write, done)'
    BY <2>1 DEF Rest, TypeOK
  <2>4. det => Preprocessed(0)' /\ Looked'
    BY <2>1, <2>2, <2>3, TypeStep, RestIsFreeNext DEF Decoding
  <2> QED
    BY <2>1, <2>4 DEF DataFree
<1>10. CASE ReadChunk
  BY <1>10, CpuMoves DEF ReadChunk, CpuGoto, SyncGPU, Returns, DataFree, Free
<1>11. CASE CallbackEnd
  BY <1>11, CpuMoves DEF CallbackEnd, CpuGoto, DataFree, Free
<1>12. CASE Copy
  BY <1>12, CopyFree DEF Copy, CpuGoto, DataFree
<1>13. CASE Push
  <2>1. CASE cpu' = "publish"
    BY <1>13, <2>1, PushFree DEF DataFree
  <2>2. CASE cpu' # "publish"
    BY <1>13, <2>2, CpuMoves DEF Push, SyncGPU, CpuGoto, Returns, Free
  <2> QED
    BY <2>1, <2>2
<1>14. CASE Publish
  BY <1>14, PublishFree DEF Publish, CpuGoto, DataFree
<1>15. CASE Wake
  BY <1>15, CpuMoves DEF Wake, CpuGoto, Loop!Wakeup, DataFree, Free
<1>16. CASE LockPause
  BY <1>16, CpuMoves DEF LockPause, CpuGoto, DataFree, Free
<1>17. CASE LockWait
  BY <1>17, CpuMoves DEF LockWait, CpuGoto, Loop!IsDone, DataFree, Free
<1>18. CASE LoadRead
  BY <1>18 DEF LoadRead, CpuGoto, DataFree, Free
<1>19. CASE StartPayload
  BY <1>19, GpuIdles DEF StartPayload, GpuGoto, Loop!Start, Decoding
<1>20. CASE EndPayload
  BY <1>20, GpuIdles DEF EndPayload, GpuGoto, Loop!End, Decoding
<1>21. CASE TestRunning
  BY <1>21, GpuIdles DEF TestRunning, GpuGoto, Decoding
<1>22. CASE LoadSeen
  BY <1>22, GpuIdles DEF LoadSeen, GpuGoto, Decoding
<1>23. CASE LoadWrite
  BY <1>23, LoadWriteFree, GpuMoves DEF LoadWrite
<1>24. CASE Decode
  BY <1>24, DecodeFree, GpuMoves DEF Decode
<1>25. CASE DecodeEnd
  BY <1>25, DecodeEndFree, GpuMoves DEF DecodeEnd
<1>26. CASE Seen
  BY <1>26, SeenFree, GpuMoves DEF Seen
<1>27. CASE NormalChunk
  BY <1>27 DEF NormalChunk, Places, DataFree
<1>28. CASE NormalEnd
  BY <1>28 DEF NormalEnd, GpuGoto, Places, DataFree
<1>29. CASE Relax
  BY <1>29, GpuIdles DEF Relax, Loop!Relax, Decoding
<1>30. CASE Callback
  BY <1>30, CpuMoves DEF Callback, CpuGoto, DataFree, Free
<1>31. CASE \E kind \in Kinds : Burst(kind)
  <2>1. PICK kind \in Kinds : Burst(kind)
    BY <1>31
  <2>2. det' = det /\ cpu' # "publish"
    BY <2>1 DEF Burst, RunGpuSchedules, CpuGoto
  <2> QED
    BY <2>1, <2>2, BurstFree DEF DataFree
<1>32. CASE GameSync
  BY <1>32, CpuMoves DEF GameSync, CpuGoto, SyncGPU, Returns, DataFree, Free
<1>33. CASE GameReset
  BY <1>33, CpuMoves DEF GameReset, CpuGoto, SyncGPU, Returns, DataFree, Free
<1>34. CASE Pause
  BY <1>34, CpuMoves DEF Pause, CpuGoto, DataFree, Free
<1>35. CASE Resume
  BY <1>35, CpuMoves DEF Resume, CpuGoto, DataFree, Free
<1>36. CASE Lock
  BY <1>36, CpuMoves DEF Lock, CpuGoto, SyncGPU, Returns, DataFree, Free
<1>37. CASE \E asked \in BOOLEAN : Unlock(asked)
  <2>1. /\ cpu = "unlock" /\ cpu' # "publish" /\ det' = det
        /\ UNCHANGED <<stream, taken, buf, read, write, seen, pp, aux, done, gpu>>
    BY <1>37 DEF Unlock, CpuGoto
  <2>2. /\ Rest(stream, taken, buf, read, write, done) /\ aux = <<>> /\ ~Decoding
        /\ det => pp = read /\ seen <= write
    BY <2>1 DEF DataStill, Still, Places, Locked, Decoding
  <2>3. det => Preprocessed(0)' /\ Looked'
    BY <2>1, <2>2, TypeStep, RestIsFreeNext DEF Decoding
  <2> QED
    BY <2>1, <2>3 DEF DataFree
<1>38. CASE UpdateWantDeterminism
  BY <1>38 DEF UpdateWantDeterminism, CpuGoto, DataFree, Free
<1>39. CASE Save
  BY <1>39, CpuMoves DEF Save, CpuGoto, DataFree, Free
<1>40. CASE Load
  BY <1>40 DEF Load, CpuGoto, DataFree, Free
<1>41. CASE Break
  BY <1>41, GpuIdles DEF Break, Decoding
<1>42. CASE Halt
  BY <1>42, CpuMoves DEF Halt, CpuGoto, DataFree, Free
<1>43. CASE ResumeActive
  BY <1>43, GpuIdles DEF ResumeActive, Decoding
<1>44. CASE ResumeWakeup
  BY <1>44, GpuIdles DEF ResumeWakeup, Decoding
<1>45. CASE UNCHANGED vars
  BY <1>45, GpuIdles DEF vars, Decoding
<1> QED
  BY <1>1, <1>2, <1>3, <1>4, <1>5, <1>6, <1>7, <1>8, <1>9, <1>10, <1>11, <1>12, <1>13, <1>14,
     <1>15, <1>16, <1>17, <1>18, <1>19, <1>20, <1>21, <1>22, <1>23, <1>24, <1>25, <1>26, <1>27,
     <1>28, <1>29, <1>30, <1>31, <1>32, <1>33, <1>34, <1>35, <1>36, <1>37, <1>38, <1>39, <1>40,
     <1>41, <1>42, <1>43, <1>44, <1>45 DEF Next, CpuStep, GpuStep

-----------------------------------------------------------------------------
\* Nothing was sent yet.
LEMMA InitIInv ==
  ASSUME Init
  PROVE  IInv
<1> USE BufferAssumption DEF Init, Loop!Ready
<1>1. stream = <<>> /\ Len(stream) = 0 /\ stream \in Seq(Kinds)
  OBVIOUS
<1>2. TypeOK
  BY DEF TypeOK, Positions
<1>3. Places /\ Knows /\ SavedOK
  BY DEF Places, Knows, SavedOK, Free, Still, Moving, InSync, InCallback, Locked, Stopped
<1>4. Bounded(stream)
  <2>1. \A n \in 0 .. Len(stream) : n \in n - BufSize + 1 .. n /\ (n >= 1 => stream[n] # "head")
    BY <1>1
  <2> QED
    BY <1>1, <2>1 DEF Bounded
<1>5. Asleep /\ DataMoving
  BY DEF Asleep, SeesAll, Quiet, Decoding, Waited, DataMoving, Moving
<1>6. Rest(stream, taken, buf, read, write, done) /\ ~Decoding
  BY DEF Rest, Decoding
<1>7. DataStill
  BY <1>6 DEF DataStill, Still
<1>8. Preprocessed(0) /\ Looked
  <2>1. aux = <<>> /\ pp = read /\ seen <= write
    OBVIOUS
  <2> QED
    BY <1>2, <1>6, <2>1, RestIsFree
<1>9. DataFree
  BY <1>8 DEF DataFree
<1> QED
  BY <1>2, <1>3, <1>4, <1>5, <1>7, <1>9 DEF IInv

\* IInv holds in every state that the threads can reach.
LEMMA Invariance == Orderly => (Spec => []IInv)
<1> SUFFICES ASSUME Orderly PROVE Spec => []IInv
  OBVIOUS
<1>1. Init => IInv
  BY InitIInv
<1>2. IInv /\ [Next]_vars => IInv'
  <2> SUFFICES ASSUME IInv, [Next]_vars PROVE IInv'
    OBVIOUS
  <2>1. TypeOK' /\ Places' /\ Knows'
    BY TypeStep, PlacesStep, KnowsStep
  <2>2. Bounded(stream)' /\ SavedOK' /\ Asleep'
    BY StreamStep, AsleepStep
  <2>3. DataFree' /\ DataStill' /\ DataMoving'
    BY FreeStep, StillStep, MovingStep
  <2> QED
    BY <2>1, <2>2, <2>3 DEF IInv
<1> QED
  BY <1>1, <1>2, PTL DEF Spec

\* TypeOK, with Orderly: no pointer of Fifo.cpp leaves its buffer, and the aux
\* buffer is never overrun, however the moves, resets, loads and mode changes
\* follow one another.
THEOREM TypeCorrect == Orderly => (Spec => []TypeOK)
<1>1. IInv => TypeOK
  BY DEF IInv
<1> QED
  BY <1>1, Invariance, PTL

\* OneOwner, with Orderly: SyncGPU() and ResetVideoBuffer() have the buffers to
\* themselves, although the GPU thread goes on polling: "'write_ptr > seen_ptr'
\* there cannot become spuriously true".
THEOREM MovesAreAlone == Orderly => (Spec => []OneOwner)
<1>1. IInv => OneOwner
  BY DEF IInv, OneOwner, Asleep, Waited, NothingNew, Decoding, Places
<1> QED
  BY <1>1, Invariance, PTL

\* SyncMeansDecoded, with Orderly: once SyncGPU() has waited for the loop, all
\* that the CPU thread has preprocessed is decoded, with its aux data.
THEOREM SyncIsEnough == Orderly => (Spec => []SyncMeansDecoded)
<1>1. IInv => SyncMeansDecoded
  <2> SUFFICES ASSUME IInv PROVE SyncMeansDecoded
    OBVIOUS
  <2>1. ASSUME cpu = "move_aux" PROVE aux = <<>> /\ taken - done = write - pp
    <3>1. det
      BY <2>1 DEF IInv, Places, InSync
    <3>2. Rest(stream, taken, buf, read, write, done) /\ aux = <<>> /\ pp = read
      BY <2>1, <3>1 DEF IInv, DataStill, Still
    <3>3. done = taken - write + pp
      BY <3>2 DEF Rest
    <3>4. taken \in Nat /\ write \in Nat /\ pp \in Nat
      BY BufferAssumption DEF IInv, TypeOK, Positions
    <3> QED
      BY <3>2, <3>3, <3>4
  <2> QED
    BY <2>1 DEF SyncMeansDecoded, AuxSynced
<1> QED
  BY <1>1, Invariance, PTL

\* DecodesInOrder, with Orderly: in the deterministic mode RunGpuLoop() decodes
\* every chunk once and in order, and the aux data it pops is that of the
\* command.
THEOREM OrderIsKept == Orderly => (Spec => []DecodesInOrder)
<1>1. IInv => DecodesInOrder
  <2> SUFFICES ASSUME IInv, gpu = "decode" PROVE DecodesInOrder
    BY DEF DecodesInOrder
  <2> DEFINE o == taken - write
  <2>1. det /\ cpu \in Free
    BY DEF IInv, Places, Asleep, NothingNew, Decoding, Waited, Free, Still, Moving, Locked
  <2>2. Looked /\ Front = gread /\ Decoding
    BY <2>1 DEF IInv, DataFree, Front, Decoding
  <2>3. Preprocessed(0) \/ Preprocessed(1)
    BY <2>1 DEF IInv, DataFree
  <2>4. /\ taken \in 0 .. Len(stream) /\ Len(stream) \in Nat /\ done \in Nat
        /\ write \in Nat /\ pp \in Nat /\ gread \in Nat /\ gwrite \in Nat
        /\ aux \in Seq(1 .. MaxChunks)
    BY BufferAssumption DEF IInv, TypeOK, Positions
  <2>5. /\ done = o + gread
        /\ \A p \in gread .. write - 1 : buf[p] = o + p + 1
        /\ AuxOf(aux, stream, done, o + pp)
    BY <2>2, <2>3 DEF Preprocessed
  <2>6. \A i \in o + pp + 1 .. taken : stream[i] = "head"
    <3>1. CASE Preprocessed(0)
      BY <2>4, <3>1 DEF Preprocessed
    <3>2. CASE Preprocessed(1)
      <4>1. \A i \in o + pp + 1 .. taken + 1 : stream[i] = "head"
        BY <3>2 DEF Preprocessed
      <4> QED
        BY <2>4, <4>1
    <3> QED
      BY <2>3, <3>1, <3>2
  <2>7. gwrite <= write
    BY <2>2 DEF Looked
  <2>8. DOMAIN aux = 1 .. Len(aux)
    BY <2>4
  <2>9. ASSUME NEW p \in gread .. gwrite - 1
        PROVE  /\ buf[p] = done + 1 + p - gread
               /\ Kind(buf[p]) = "list" <=> \E i \in DOMAIN aux : aux[i] = buf[p]
    <3>1. buf[p] = o + p + 1 /\ o + p + 1 = done + 1 + p - gread /\ o + p + 1 \in done + 1 .. taken
          /\ o + p + 1 \in 1 .. Len(stream)
      BY <2>4, <2>5, <2>7
    <3>2. Kind(buf[p]) = stream[buf[p]]
      BY <3>1, KindIs DEF IInv
    <3>3. stream[buf[p]] = "list" => buf[p] \in done + 1 .. o + pp
      BY <2>4, <2>6, <3>1
    <3>4. stream[buf[p]] = "list" <=> \E i \in 1 .. Len(aux) : aux[i] = buf[p]
      BY <2>5, <3>3 DEF AuxOf
    <3> QED
      BY <2>8, <3>1, <3>2, <3>4
  <2>10. \A i, j \in DOMAIN aux : i < j => aux[i] < aux[j]
    BY <2>5, <2>8 DEF AuxOf
  <2>11. \A i \in DOMAIN aux : aux[i] > done
    <3>1. \A i \in 1 .. Len(aux) : aux[i] \in done + 1 .. o + pp
      BY <2>5 DEF AuxOf
    <3> QED
      BY <2>4, <2>8, <3>1
  <2> QED
    BY <2>9, <2>10, <2>11 DEF DecodesInOrder
<1> QED
  BY <1>1, Invariance, PTL
=============================================================================
