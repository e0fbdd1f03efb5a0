-------------------------- MODULE GpuThreadProofs ---------------------------
(***************************************************************************)
(* For rings, queues, watermarks and clocks of any size: the requests, the *)
(* interrupt and the synchronisation of the two threads of dual-core mode. *)
(*                                                                         *)
(* The inductive invariant IInv has three themes.  Counts and WaitsForLast *)
(* account for every request: in the queue, or in the batch of pokes that  *)
(* the GPU thread holds.  Status is what the last look of the GPU thread   *)
(* at the registers was worth: unless a Wakeup() has come since, or comes  *)
(* (Busy), the interrupt is right or an event that will change it is       *)
(* pending.  Flushed says what a thread that is about to read a chunk has  *)
(* to do with the flush of SetCpControlRegister().                         *)
(***************************************************************************)
EXTENDS GpuThread, WellFoundedInduction, TLAPS

\* The GPU thread has found reading enabled, and goes on to read a chunk.
TestPCs == {"loop_bp", "loop_ptr", "loop_ticks", "chunk"}

\* The payload, once it has found the emulator running.
PastPCs == {"pull", "pull_lock", "handle", "read_dist", "store_marks", "decide", "schedule",
            "loop", "sub_ticks", "rest"} \cup TestPCs
PayloadPCs == PastPCs \cup {"test"}

\* ExitGpuLoop() and after.
ExitPCs == {"exit_flush", "exit_stop", "exit_wakeup", "stopped"}

\* The state of the loop and the place of the GPU thread agree.
Places ==
  /\ run = "payload" <=> gpu \in PayloadPCs
  /\ run = "leaving" <=> gpu = "leaving"
  /\ on <=> gpu \notin {"disable", "unpass", "out"}
  /\ gpu \notin PastPCs => first
  /\ gpu \in TestPCs \cup {"sub_ticks", "rest"} => ~first

\* What the host does once the CPU thread has gone.
HostKnows ==
  /\ host \in ExitPCs => cpu = "inactive" /\ ~readEnable
  /\ host \in ExitPCs \cup {"stop_wait"} => state = "down"
  /\ host \notin ExitPCs => readEnable = ctrl.read \/ cpu = "control"
  /\ quit => host \in {"exit_wakeup", "stopped"}

\* SyncGPUCallback() is pending or running exactly while it is not suspended.
OneCallbackAlways ==
  /\ callbacks + (IF cpu \in {"sync_test", "sync_wait"} THEN 1 ELSE 0)
       = (IF suspended THEN 0 ELSE 1)
  /\ ~SyncGPU => suspended

\* A batch in the hands of the GPU thread: pokes are off the queue, anything
\* else is still at its front.
IsBatch ==
  \/ handling[1] = "poke"
  \/ Len(handling) = 1 /\ handling[1] # "poke" /\ queue # <<>> /\ Head(queue) = handling[1]

Counts ==
  /\ gpu = "handle" <=> handling # <<>>
  /\ handling # <<>> => IsBatch /\ Len(handling) <= MaxQueue
  /\ unhandled = Len(queue)
                   + (IF handling # <<>> /\ handling[1] = "poke" THEN Len(handling) ELSE 0)

\* The request that the CPU thread waits for is the last one in the queue.
WaitsForLast ==
  cpu = "cond_wait" => \/ queue = <<>> /\ handling = <<>>
                       \/ queue # <<>> /\ queue[Len(queue)] = "peek"

\* The event that s_interrupt_waiting announces.
OneEvent ==
  /\ intWaiting => Len(intEvents) = 1
  /\ ~intWaiting => intEvents = <<>>
  /\ gpu = "schedule" => ~intWaiting
  /\ gpu \in TestPCs \ {"loop_bp"} => dist > 0

\* Somebody is inside a call that ends with Wakeup().
Busy ==
  \/ host = "resume"
  \/ cpu \in {"run_gpu", "control", "store_marks", "set_int", "add", "flush"}

RightInterrupt == intSet = Interrupt(AtBreakpoint, Marks(dist))

\* The GPU thread has looked at the registers in this payload, and has not
\* read a chunk since.
Settled ==
  \/ gpu \in {"loop", "rest", "sub_ticks"} \cup TestPCs
  \/ ~first /\ gpu \in {"pull", "pull_lock", "handle"}

\* What the GPU thread has found out about the interrupt, as long as no
\* Wakeup() has come since.
Status ==
  on /\ host \notin ExitPCs /\ ~Busy =>
    /\ level = "done" /\ first /\ (running \/ gpu \in PastPCs) => intWaiting \/ RightInterrupt
    /\ level # "need" /\ Settled => intWaiting \/ RightInterrupt
    /\ level # "need" /\ gpu = "store_marks"
         => gpuMarks = Marks(dist) /\ (ctrl.read => atBp = AtBreakpoint)
    /\ level # "need" /\ gpu = "decide"
         => marks = Marks(dist) /\ (ctrl.read => atBp = AtBreakpoint)

\* Whoever went on with reading before it was disabled is waited for, unless
\* the loop was done.
Flushed ==
  /\ gpu \in TestPCs /\ ~polling => level # "done"
  /\ gpu \in TestPCs /\ ~readEnable => polling \/ cpu = "flush" \/ host = "exit_flush"

IInv ==
  /\ TypeOK /\ Places /\ HostKnows /\ OneCallbackAlways /\ Counts /\ WaitsForLast /\ OneEvent
  /\ Status /\ Flushed

\* Parts of the types, for the proofs below.
FlagsOK ==
  /\ on \in BOOLEAN /\ quit \in BOOLEAN /\ running \in BOOLEAN /\ first \in BOOLEAN
  /\ polling \in BOOLEAN /\ syncEvent \in BOOLEAN /\ suspended \in BOOLEAN

PCsOK ==
  /\ level \in {"need", "last", "done"} /\ run \in {"idle", "payload", "leaving"}
  /\ state \in {"running", "stepping", "down"}
  /\ cpu \in {"inactive", "guest", "run_gpu", "flush", "store_marks", "set_int", "add",
              "control", "cond_wait", "sync_test", "sync_wait"}
  /\ gpu \in PayloadPCs \cup {"enable", "pass", "idle", "leaving", "disable", "unpass", "out"}
  /\ host \in ExitPCs \cup {"idle", "pause", "resume", "stop_cpu", "stop_wait"}

Clocks == OneCallbackAlways /\ ticks \in Int /\ oldTicks \in Int /\ callbacks \in Nat
RequestsOK == RequestsTypeOK /\ Counts /\ WaitsForLast
-----------------------------------------------------------------------------
\* Every set of numbers has a least one.
LEMMA LeastNatural ==
  ASSUME NEW T, T \subseteq Nat, T # {}
  PROVE  \E x \in T : \A y \in T : x <= y
<1>1. PICK x \in T : \A y \in T : ~ (<<y, x>> \in OpToRel(<, Nat))
  BY WFMin, NatLessThanWellFounded
<1>2. ASSUME NEW y \in T, y < x PROVE <<y, x>> \in OpToRel(<, Nat)
  BY <1>2 DEF OpToRel
<1>3. \A y \in T : ~(y < x)
  BY <1>1, <1>2, Zenon
<1>4. \A y \in T : x <= y
  BY <1>3
<1> QED
  BY <1>4

\* Every bounded set of numbers has a greatest one.
LEMMA GreatestNatural ==
  ASSUME NEW T, T \subseteq Nat, T # {}, NEW b \in Nat, \A x \in T : x <= b
  PROVE  \E x \in T : \A y \in T : y <= x
<1> DEFINE U == {u \in Nat : b - u \in T}
<1>1. PICK u \in U : \A v \in U : u <= v
  <2>1. U # {}
    <3>1. PICK t \in T : TRUE
      OBVIOUS
    <3>2. b - t \in U
      BY <3>1
    <3> QED
      BY <3>2
  <2> QED
    BY <2>1, LeastNatural
<1>2. \A y \in T : y <= b - u
  <2> SUFFICES ASSUME NEW y \in T PROVE y <= b - u
    OBVIOUS
  <2>1. b - y \in U
    OBVIOUS
  <2> QED
    BY <1>1, <2>1
<1> QED
  BY <1>2

\* PullEvents() merges the pokes at the front of m_queue: at least the first,
\* and nothing but pokes.
LEMMA BatchOfPokes ==
  ASSUME NEW q \in Seq(Requests), q # <<>>, Head(q) = "poke"
  PROVE  \E n \in 1 .. Len(q) :
           /\ Batch(q) = SubSeq(q, 1, n)
           /\ \A i \in 1 .. n : q[i] = "poke"
<1> DEFINE p == [i \in DOMAIN q |-> "poke"]
           S == {q, p}
           L == {n \in 0 .. Len(q) : \A i \in 1 .. n : q[i] = "poke"}
<1>1. p \in Seq({"poke"}) /\ Len(p) = Len(q)
  OBVIOUS
<1>2. \A n \in 0 .. Len(q) :
        /\ SubSeq(q, 1, n) \in Seq(Requests) /\ Len(SubSeq(q, 1, n)) = n
        /\ \A i \in 1 .. n : SubSeq(q, 1, n)[i] = q[i]
  OBVIOUS
<1>3. \A n \in 0 .. Len(q) :
         /\ SubSeq(p, 1, n) \in Seq({"poke"}) /\ Len(SubSeq(p, 1, n)) = n
         /\ \A i \in 1 .. n : SubSeq(p, 1, n)[i] = "poke"
  BY <1>1
<1>4. \A n \in L : SubSeq(q, 1, n) = SubSeq(p, 1, n)
  BY <1>2, <1>3
<1>5. ASSUME NEW s \in CommonPrefixes(S) PROVE \E n \in L : s = SubSeq(q, 1, n)
  <2>0. PICK t \in S : s \in Prefixes(t)
    BY DEF CommonPrefixes
  <2>1. PICK n \in 0 .. Len(t) : s = SubSeq(t, 1, n)
    BY <2>0 DEF Prefixes
  <2>2. n \in 0 .. Len(q) /\ Len(s) = n
    BY <1>1, <2>1, <1>2, <1>3
  <2>3. IsPrefix(s, q) /\ IsPrefix(s, p)
    BY DEF CommonPrefixes
  <2>4. s = SubSeq(q, 1, n) /\ s = SubSeq(p, 1, n)
    <3>1. SubSeq(s, 1, n) = s
      BY <2>1, <2>2, <1>1, <1>2
    <3> QED
      BY <2>3, <2>2, <3>1 DEF IsPrefix
  <2>5. n \in L
    BY <2>4, <1>2, <1>3, <2>2
  <2> QED
    BY <2>4, <2>5
<1>6. ASSUME NEW n \in L PROVE SubSeq(q, 1, n) \in CommonPrefixes(S)
  <2>1. SubSeq(q, 1, n) \in Prefixes(q)
    BY DEF Prefixes
  <2>2. IsPrefix(SubSeq(q, 1, n), q)
    <3>1. SubSeq(SubSeq(q, 1, n), 1, n) = SubSeq(q, 1, n)
      BY <1>2
    <3> QED
      BY <3>1, <1>2 DEF IsPrefix
  <2>3. IsPrefix(SubSeq(q, 1, n), p)
    BY <2>2, <1>4, <1>2, <1>1 DEF IsPrefix
  <2> QED
    BY <2>1, <2>2, <2>3 DEF CommonPrefixes
<1>7. PICK n \in L : \A m \in L : m <= n
  <2>1. L \subseteq Nat /\ L # {} /\ Len(q) \in Nat /\ \A x \in L : x <= Len(q)
    <3>1. 0 \in L
      OBVIOUS
    <3> QED
      BY <3>1
  <2> HIDE DEF L
  <2> QED
    BY <2>1, GreatestNatural
<1>8. n >= 1
  <2>1. 1 \in L
    OBVIOUS
  <2> QED
    BY <2>1, <1>7
<1>9. \E longest \in CommonPrefixes(S) :
        \A other \in CommonPrefixes(S) : Len(other) <= Len(longest)
  BY <1>5, <1>6, <1>7, <1>2
<1>10. /\ LongestCommonPrefix(S) \in CommonPrefixes(S)
      /\ \A other \in CommonPrefixes(S) : Len(other) <= Len(LongestCommonPrefix(S))
  BY <1>9 DEF LongestCommonPrefix
<1>11. PICK k \in L : LongestCommonPrefix(S) = SubSeq(q, 1, k)
  BY <1>10, <1>5
<1>12. n <= k
  BY <1>10, <1>11, <1>6, <1>2
<1>13. Batch(q) = SubSeq(q, 1, k)
  BY <1>11 DEF Batch
<1> QED
  BY <1>13, <1>12, <1>8
\* The empty sequence is the one of length zero.
LEMMA EmptyIffLenZero ==
  ASSUME NEW S, NEW t \in Seq(S)
  PROVE  Len(t) \in Nat /\ (t = <<>> <=> Len(t) = 0)
  OBVIOUS

-----------------------------------------------------------------------------
\* What PullEvents() does to the queue between two handled batches.
LEMMA ProceedKeeps ==
  ASSUME NEW q \in Seq(Requests), Len(q) <= MaxQueue, unhandled' = Len(q), Proceed(q)
  PROVE  /\ queue' \in Seq(Requests) /\ Len(queue') <= MaxQueue
         /\ handling' \in Seq(Requests) /\ Len(handling') <= MaxQueue
         /\ handling' # <<>> => IsBatch'
         /\ unhandled' = Len(queue') + (IF handling' # <<>> /\ handling'[1] = "poke"
                                          THEN Len(handling') ELSE 0)
         /\ q = <<>> => queue' = <<>> /\ handling' = <<>>
         /\ q # <<>> => handling' # <<>>
         /\ q # <<>> /\ q[Len(q)] = "peek" => queue' # <<>> /\ queue'[Len(queue')] = "peek"
<1> USE RequestsAssumption DEF Proceed
<1>1. CASE q = <<>>
  BY <1>1
<1>2. CASE q # <<>> /\ Head(q) = "poke"
  <2>1. PICK n \in 1 .. Len(q) :
          Batch(q) = SubSeq(q, 1, n) /\ \A i \in 1 .. n : q[i] = "poke"
    BY <1>2, BatchOfPokes
  <2>2. /\ handling' = SubSeq(q, 1, n) /\ Len(handling') = n
        /\ handling' \in Seq(Requests) /\ handling'[1] = "poke"
    BY <1>2, <2>1
  <2>3. /\ queue' \in Seq(Requests)
        /\ Len(queue') = Len(q) - n
        /\ \A i \in 1 .. Len(q) - n : queue'[i] = q[i + n]
    <3>1. Len(Batch(q)) = n /\ queue' = SubSeq(q, n + 1, Len(q))
      BY <1>2, <2>1, <2>2
    <3> QED
      BY <3>1
  <2>4. q[Len(q)] = "peek" => n < Len(q)
    BY <2>1
  <2> HIDE DEF Proceed
  <2>5. ASSUME q[Len(q)] = "peek" PROVE queue' # <<>> /\ queue'[Len(queue')] = "peek"
    <3>1. Len(q) - n \in 1 .. Len(q) - n /\ (Len(q) - n) + n = Len(q)
      BY <2>4, <2>5
    <3>2. queue'[Len(q) - n] = q[Len(q)]
      BY <2>3, <3>1
    <3>3. queue' # <<>> /\ Len(queue') = Len(q) - n
      BY <2>3, <3>1, EmptyIffLenZero
    <3> QED
      BY <2>5, <3>2, <3>3
  <2>6. handling' # <<>> /\ IsBatch'
    BY <2>2 DEF IsBatch
  <2>7. /\ Len(queue') <= MaxQueue /\ Len(handling') <= MaxQueue
        /\ Len(q) = Len(queue') + Len(handling')
    BY <2>2, <2>3
  <2> QED
    BY <1>2, <2>2, <2>3, <2>5, <2>6, <2>7
<1>3. CASE q # <<>> /\ Head(q) # "poke"
  <2>1. /\ handling' = <<Head(q)>> /\ queue' = q
        /\ handling'[1] = Head(q) /\ Len(handling') = 1 /\ Head(q) \in Requests
    BY <1>3 DEF Batch
  <2> QED
    BY <1>3, <2>1 DEF IsBatch
<1> QED
  BY <1>1, <1>2, <1>3

\* PullEvents() takes the mutex.
LEMMA PullLockKeeps ==
  ASSUME IInv, PullLock PROVE RequestsOK'
<1> USE RequestsAssumption DEF IInv, TypeOK, RequestsTypeOK
<1>1. /\ queue \in Seq(Requests) /\ Len(queue) <= MaxQueue /\ handling = <<>>
      /\ unhandled = Len(queue) /\ Proceed(queue) /\ UNCHANGED <<unhandled, cpu>>
  BY DEF PullLock, PullBegin, Counts, GpuGoto
<1>2. gpu' = "handle" <=> handling' # <<>>
  BY DEF PullLock, GpuGoto, AfterPull
<1>3. /\ empty' \in BOOLEAN /\ wakeMe' \in BOOLEAN /\ notified' \in BOOLEAN
      /\ enable' \in BOOLEAN /\ passthrough' \in BOOLEAN
  BY DEF PullLock, PullBegin, Proceed
<1>4. RequestsTypeOK'
  BY <1>1, <1>3, ProceedKeeps
<1>5. Counts'
  BY <1>1, <1>2, ProceedKeeps DEF Counts
<1>6. WaitsForLast'
  BY <1>1, ProceedKeeps DEF WaitsForLast
<1> QED
  BY <1>4, <1>5, <1>6 DEF RequestsOK

\* PullEvents() takes the mutex again after a batch.
LEMMA HandleKeeps ==
  ASSUME IInv, Handle PROVE RequestsOK'
<1> USE RequestsAssumption DEF IInv, TypeOK, RequestsTypeOK
<1> DEFINE rest == IF handling[1] = "poke" THEN queue ELSE Tail(queue)
<1>1. /\ queue \in Seq(Requests) /\ Len(queue) <= MaxQueue /\ handling # <<>>
      /\ handling \in Seq(Requests) /\ IsBatch /\ Proceed(rest) /\ UNCHANGED cpu
      /\ unhandled' = unhandled - Len(handling)
  BY DEF Handle, PullHandled, Counts, GpuGoto
<1> HIDE DEF rest
<1>2. /\ rest \in Seq(Requests) /\ Len(rest) <= MaxQueue /\ unhandled' = Len(rest)
      /\ queue[Len(queue)] = "peek" /\ rest # <<>> => rest[Len(rest)] = "peek"
  <2>1. CASE handling[1] = "poke"
    BY <1>1, <2>1 DEF Counts, rest
  <2>2. CASE handling[1] # "poke"
    <3>1. queue # <<>> /\ Len(handling) = 1 /\ unhandled = Len(queue)
      BY <1>1, <2>2 DEF Counts, IsBatch
    <3>2. Tail(queue) \in Seq(Requests) /\ Len(Tail(queue)) = Len(queue) - 1
            /\ \A i \in 1 .. Len(queue) - 1 : Tail(queue)[i] = queue[i + 1]
      BY <1>1, <3>1
    <3>3. /\ rest \in Seq(Requests) /\ Len(rest) = Len(queue) - 1
          /\ \A i \in 1 .. Len(queue) - 1 : rest[i] = queue[i + 1]
      BY <2>2, <3>2 DEF rest
    <3>4. queue[Len(queue)] = "peek" /\ rest # <<>> => rest[Len(rest)] = "peek"
      <4> SUFFICES ASSUME queue[Len(queue)] = "peek", rest # <<>> PROVE rest[Len(rest)] = "peek"
        OBVIOUS
      <4>1. Len(rest) \in 1 .. Len(queue) - 1 /\ Len(rest) + 1 = Len(queue)
        BY <1>1, <3>1, <3>3, EmptyIffLenZero
      <4> QED
        BY <3>3, <4>1
    <3>5. rest \in Seq(Requests) /\ Len(rest) <= MaxQueue /\ unhandled' = Len(rest)
      BY <1>1, <3>1, <3>3
    <3> QED
      BY <3>4, <3>5
  <2> QED
    BY <2>1, <2>2
<1>3. /\ empty' \in BOOLEAN /\ wakeMe' \in BOOLEAN /\ notified' \in BOOLEAN
      /\ enable' \in BOOLEAN /\ passthrough' \in BOOLEAN
  BY DEF Handle, PullHandled, Proceed
<1>4. gpu' = "handle" <=> handling' # <<>>
  BY DEF Handle, GpuGoto, AfterPull
<1>5. RequestsTypeOK'
  <2>1. unhandled' \in 0 .. 2 * MaxQueue
    BY <1>2
  <2>2. /\ queue' \in Seq(Requests) /\ Len(queue') <= MaxQueue
        /\ handling' \in Seq(Requests)
    BY <1>1, <1>2, ProceedKeeps
  <2> QED
    BY <1>3, <2>1, <2>2
<1>6. Counts'
  BY <1>1, <1>2, <1>4, ProceedKeeps DEF Counts
<1>7. WaitsForLast'
  <2> SUFFICES ASSUME cpu = "cond_wait"
                  PROVE  \/ queue' = <<>> /\ handling' = <<>>
                         \/ queue' # <<>> /\ queue'[Len(queue')] = "peek"
    BY <1>1 DEF WaitsForLast
  <2>1. queue # <<>> /\ queue[Len(queue)] = "peek"
    BY <1>1 DEF WaitsForLast
  <2>2. CASE rest = <<>>
    BY <1>1, <2>2 DEF Proceed
  <2>3. CASE rest # <<>>
    <3>1. rest[Len(rest)] = "peek"
      BY <1>2, <2>1, <2>3
    <3> QED
      BY <1>1, <1>2, <2>3, <3>1, ProceedKeeps
  <2> QED
    BY <2>2, <2>3
<1> QED
  BY <1>5, <1>6, <1>7 DEF RequestsOK

\* PushEvent()
LEMMA RequestKeeps ==
  ASSUME IInv, NEW request \in Requests, Request(request) PROVE RequestsOK'
<1> USE RequestsAssumption DEF IInv, TypeOK, RequestsTypeOK
<1>0. /\ empty' \in BOOLEAN /\ wakeMe' \in BOOLEAN /\ notified' \in BOOLEAN
      /\ enable' \in BOOLEAN /\ passthrough' \in BOOLEAN
  BY DEF Request, PushEvent
<1>1. CASE ~Queues
  <2>1. UNCHANGED <<queue, unhandled, handling, gpu>> /\ cpu' = "guest"
    BY <1>1 DEF Request, PushEvent, CpuGoto
  <2> QED
    BY <1>0, <2>1 DEF RequestsOK, Counts, WaitsForLast, IsBatch
<1>2. CASE Queues
  <2>0. queue' = Append(queue, request)
    BY <1>2 DEF Request, PushEvent
  <2>1. /\ unhandled' = unhandled + 1 /\ UNCHANGED <<handling, gpu>>
        /\ cpu' = "cond_wait" => request = "peek"
        /\ Len(queue) < MaxQueue
    BY <1>2 DEF Request, PushEvent, CpuGoto, Blocking
  <2>2. /\ queue' \in Seq(Requests) /\ Len(queue') = Len(queue) + 1 /\ queue' # <<>>
        /\ queue'[Len(queue')] = request
        /\ queue # <<>> => Head(queue') = Head(queue)
    BY <2>0
  <2>3. RequestsTypeOK'
    <3>1. unhandled' \in 0 .. 2 * MaxQueue
      BY <2>1, <2>2 DEF Counts
    <3> QED
      BY <1>0, <2>1, <2>2, <3>1
  <2>4. Counts'
    <3>1. handling' # <<>> => IsBatch'
      BY <2>1, <2>2 DEF Counts, IsBatch
    <3>2. gpu' = "handle" <=> handling' # <<>>
      BY <2>1 DEF Counts
    <3>3. handling' # <<>> => Len(handling') <= MaxQueue
      BY <2>1 DEF Counts
    <3>4. unhandled' = Len(queue') + (IF handling' # <<>> /\ handling'[1] = "poke"
                                        THEN Len(handling') ELSE 0)
      <4> DEFINE pokes == IF handling # <<>> /\ handling[1] = "poke" THEN Len(handling) ELSE 0
      <4>1. /\ pokes \in Nat /\ pokes' = pokes /\ Len(queue) \in Nat
            /\ unhandled = Len(queue) + pokes
        BY <2>1 DEF Counts
      <4> HIDE DEF pokes
      <4>2. unhandled' = Len(queue') + pokes'
        BY <2>1, <2>2, <4>1
      <4> QED
        BY <4>2 DEF pokes
    <3> QED
      BY <3>1, <3>2, <3>3, <3>4 DEF Counts
  <2>5. WaitsForLast'
    BY <2>1, <2>2 DEF WaitsForLast
  <2> QED
    BY <2>3, <2>4, <2>5 DEF RequestsOK
<1> QED
  BY <1>1, <1>2

\* The queue of AsyncRequests is accounted for in every step.
LEMMA NextRequests == IInv /\ [Next]_vars => RequestsOK'
<1> SUFFICES ASSUME IInv, [Next]_vars PROVE RequestsOK'
  OBVIOUS
<1> USE DEF IInv, TypeOK, RequestsOK, Counts, WaitsForLast, RequestsTypeOK, IsBatch, requests,
   payload, CpuGoto, GpuGoto, HostGoto
<1>1. CASE Guest
  <2>1. CASE \E request \in Requests : Request(request)
    BY <2>1, RequestKeeps
  <2>2. CASE Burst
    BY <2>2 DEF Burst
  <2>3. CASE \E value \in Ctrls : Control(value)
    BY <2>3 DEF Control
  <2>4. CASE \E ptr \in Ptrs : Breakpoint(ptr)
    BY <2>4 DEF Breakpoint
  <2> QED
    BY <1>1, <2>1, <2>2, <2>3, <2>4 DEF Guest
<1>2. CASE InterruptEvent \/ SyncCallback \/ CpuEnter \/ CpuLeave
  BY <1>2 DEF InterruptEvent, SyncCallback, CpuEnter, CpuLeave, UpdateInterrupts
<1>3. CASE CallRunGpu \/ Flush \/ CondWait
  BY <1>3 DEF CallRunGpu, Flush, CondWait, RunGpu, WaitReturns, Loop!Wakeup, Loop!IsDone
<1>4. CASE BurstStoreMarks \/ BurstSetInterrupt \/ BurstAdd
  BY <1>4 DEF BurstStoreMarks, BurstSetInterrupt, BurstAdd, CPUStoreMarks, CPUSetInterrupt,
     AddChunk
<1>5. CASE SyncTest \/ SyncWait
  BY <1>5 DEF SyncTest, SyncWait, Reschedule, Loop!Wakeup, Loop!IsDone
<1>6. CASE EnableRequests \/ StopPassthrough \/ DisableRequests \/ StartPassthrough
  <2>1. CASE EnableRequests
    BY <2>1 DEF EnableRequests, SetEnable
  <2>2. CASE DisableRequests
    <3>1. handling' = <<>> /\ queue' = <<>> /\ unhandled' = 0 /\ gpu' = "unpass"
      BY <2>2 DEF DisableRequests, SetEnable
    <3>2. empty' \in BOOLEAN /\ wakeMe' \in BOOLEAN /\ enable' \in BOOLEAN
      BY <2>2 DEF DisableRequests, SetEnable
    <3>3. notified' \in BOOLEAN /\ passthrough' \in BOOLEAN
      BY <2>2 DEF DisableRequests, SetEnable
    <3>4. RequestsTypeOK'
      BY <3>1, <3>2, <3>3, RequestsAssumption
    <3>5. Counts' /\ WaitsForLast'
      BY <3>1
    <3> QED
      BY <3>4, <3>5
  <2>3. CASE StopPassthrough \/ StartPassthrough
    BY <2>3 DEF StopPassthrough, StartPassthrough, SetPassthrough
  <2> QED
    BY <1>6, <2>1, <2>2, <2>3
<1>7. CASE Pull \/ PullLock \/ Handle
  <2>1. CASE Pull
    BY <2>1 DEF Pull, AfterPull
  <2>2. CASE PullLock
    BY <2>2, PullLockKeeps
  <2>3. CASE Handle
    BY <2>3, HandleKeeps
  <2> QED
    BY <1>7, <2>1, <2>2, <2>3
<1>8. CASE ReadDist \/ StoreMarks \/ Decide \/ Schedule
  BY <1>8 DEF ReadDist, StoreMarks, Decide, Schedule, AfterStatus, GPUReadDistance,
     GPUStoreMarks, GPUDecide, GPUSchedule
<1>9. CASE LoopTest \/ Chunk \/ SubTicks
  BY <1>9 DEF LoopTest, Chunk, SubTicks, GPUChunkRead
<1>10. CASE StartPayload \/ Relax \/ TestRunning \/ Rest
  BY <1>10 DEF StartPayload, Relax, TestRunning, Rest, Loop!Start, Loop!Relax, Loop!End
<1>11. CASE LeaveLoop \/ ReturnFromLoop
  BY <1>11 DEF LeaveLoop, ReturnFromLoop, Loop!Leave, Loop!Return, Loop!TurnOff
<1>12. CASE Break \/ Pause \/ Resume \/ Stop
  BY <1>12 DEF Break, Pause, Resume, Stop
<1>13. CASE HostStep
  BY <1>13 DEF HostStep, PauseGpu, ResumeGpu, StopCpu, StopGpu, ExitFlush, ExitStop, ExitWakeup,
     DisableRead, Loop!Wakeup, Loop!IsDone, Loop!RequestStop
<1>14. CASE ControlStore \/ ControlRead
  BY <1>14 DEF ControlStore, ControlRead, StoreEnable, StoreReadEnable
<1>15. CASE LoopTestEnable \/ LoopTestBreakpoint \/ LoopTestTicks
  BY <1>15 DEF LoopTestEnable, LoopTestBreakpoint, LoopTestTicks
<1>16. CASE UNCHANGED vars
  BY <1>16 DEF vars
<1> QED
  BY <1>1, <1>2, <1>3, <1>4, <1>5, <1>6, <1>7, <1>8, <1>9, <1>10, <1>11, <1>12, <1>13, <1>14,
     <1>15, <1>16 DEF Next, CpuStep, GpuStep
-----------------------------------------------------------------------------

\* The flags stay Boolean.
LEMMA NextFlags == IInv /\ [Next]_vars => FlagsOK'
<1> SUFFICES ASSUME IInv, [Next]_vars PROVE FlagsOK'
  OBVIOUS
<1> USE DEF IInv, TypeOK, FlagsOK, loop, sync, payload, CpuGoto, GpuGoto, HostGoto
<1>1. CASE Guest
  BY <1>1 DEF Guest, Burst, Control, Breakpoint, Request, CPUReadDistance, WriteCtrl,
     WriteBreakpoint, PushEvent, RunGpu, Loop!Wakeup
<1>2. CASE InterruptEvent \/ SyncCallback \/ CpuEnter \/ CpuLeave
  BY <1>2 DEF InterruptEvent, SyncCallback, CpuEnter, CpuLeave, UpdateInterrupts
<1>3. CASE CallRunGpu \/ Flush \/ CondWait
  BY <1>3 DEF CallRunGpu, Flush, CondWait, RunGpu, WaitReturns, Loop!Wakeup, Loop!IsDone
<1>4. CASE BurstStoreMarks \/ BurstSetInterrupt \/ BurstAdd
  BY <1>4 DEF BurstStoreMarks, BurstSetInterrupt, BurstAdd, CPUStoreMarks, CPUSetInterrupt,
     AddChunk
<1>5. CASE SyncTest \/ SyncWait
  <2>1. CASE SyncTest
    <3>1. suspended' \in BOOLEAN
      BY <2>1, Zenon DEF SyncTest, Reschedule
    <3> QED
      BY <2>1, <3>1 DEF SyncTest, Loop!Wakeup
  <2>2. CASE SyncWait
    BY <2>2 DEF SyncWait, Reschedule
  <2> QED
    BY <1>5, <2>1, <2>2
<1>6. CASE EnableRequests \/ StopPassthrough \/ DisableRequests \/ StartPassthrough
  BY <1>6 DEF EnableRequests, StopPassthrough, DisableRequests, StartPassthrough, SetEnable,
     SetPassthrough
<1>7. CASE Pull \/ PullLock \/ Handle
  BY <1>7 DEF Pull, PullLock, Handle, AfterPull, PullBegin, PullHandled
<1>8. CASE ReadDist \/ StoreMarks \/ Decide \/ Schedule
  BY <1>8 DEF ReadDist, StoreMarks, Decide, Schedule, AfterStatus, GPUReadDistance,
     GPUStoreMarks, GPUDecide, GPUSchedule
<1>9. CASE LoopTest \/ Chunk \/ SubTicks
  <2>1. CASE LoopTest \/ Chunk
    BY <2>1 DEF LoopTest, Chunk
  <2>2. CASE SubTicks
    <3>1. syncEvent' \in BOOLEAN
      BY <2>2, Zenon DEF SubTicks
    <3> QED
      BY <2>2, <3>1 DEF SubTicks
  <2> QED
    BY <1>9, <2>1, <2>2
<1>10. CASE StartPayload \/ Relax \/ TestRunning \/ Rest
  <2>1. CASE StartPayload \/ Relax \/ TestRunning
    BY <2>1 DEF StartPayload, Relax, TestRunning, Loop!Start, Loop!Relax, Loop!End
  <2>2. CASE Rest
    <3>1. syncEvent' \in BOOLEAN
      BY <2>2, Zenon DEF Rest
    <3> QED
      BY <2>2, <3>1 DEF Rest, Loop!End
  <2> QED
    BY <1>10, <2>1, <2>2
<1>11. CASE LeaveLoop \/ ReturnFromLoop
  BY <1>11 DEF LeaveLoop, ReturnFromLoop, Loop!Leave, Loop!Return, Loop!TurnOff
<1>12. CASE Break \/ Pause \/ Resume \/ Stop
  BY <1>12 DEF Break, Pause, Resume, Stop
<1>13. CASE HostStep
  BY <1>13 DEF HostStep, PauseGpu, ResumeGpu, StopCpu, StopGpu, ExitFlush, ExitStop, ExitWakeup,
     DisableRead, Loop!Wakeup, Loop!IsDone, Loop!RequestStop
<1>14. CASE ControlStore \/ ControlRead
  BY <1>14 DEF ControlStore, ControlRead, StoreEnable, StoreReadEnable
<1>15. CASE LoopTestEnable \/ LoopTestBreakpoint \/ LoopTestTicks
  BY <1>15 DEF LoopTestEnable, LoopTestBreakpoint, LoopTestTicks
<1>16. CASE UNCHANGED vars
  BY <1>16 DEF vars
<1> QED
  BY <1>1, <1>2, <1>3, <1>4, <1>5, <1>6, <1>7, <1>8, <1>9, <1>10, <1>11, <1>12, <1>13, <1>14,
     <1>15, <1>16 DEF Next, CpuStep, GpuStep

\* The threads stay at the places they have.
LEMMA NextPCs == IInv /\ [Next]_vars => PCsOK'
<1> SUFFICES ASSUME IInv, [Next]_vars PROVE PCsOK'
  OBVIOUS
<1> USE DEF IInv, TypeOK, PCsOK, PayloadPCs, TestPCs, PastPCs, ExitPCs, loop, payload, CpuGoto, GpuGoto, HostGoto
<1>1. CASE Guest
  BY <1>1 DEF Guest, Burst, Control, Breakpoint, Request, CPUReadDistance, WriteCtrl,
     WriteBreakpoint, PushEvent, RunGpu, Loop!Wakeup
<1>2. CASE InterruptEvent \/ SyncCallback \/ CpuEnter \/ CpuLeave
  BY <1>2 DEF InterruptEvent, SyncCallback, CpuEnter, CpuLeave, UpdateInterrupts
<1>3. CASE CallRunGpu \/ Flush \/ CondWait
  BY <1>3 DEF CallRunGpu, Flush, CondWait, RunGpu, WaitReturns, Loop!Wakeup, Loop!IsDone
<1>4. CASE BurstStoreMarks \/ BurstSetInterrupt \/ BurstAdd
  BY <1>4 DEF BurstStoreMarks, BurstSetInterrupt, BurstAdd, CPUStoreMarks, CPUSetInterrupt,
     AddChunk
<1>5. CASE SyncTest \/ SyncWait
  BY <1>5 DEF SyncTest, SyncWait, Reschedule, Loop!Wakeup, Loop!IsDone
<1>6. CASE EnableRequests \/ StopPassthrough \/ DisableRequests \/ StartPassthrough
  BY <1>6 DEF EnableRequests, StopPassthrough, DisableRequests, StartPassthrough, SetEnable,
     SetPassthrough
<1>7. CASE Pull \/ PullLock \/ Handle
  BY <1>7 DEF Pull, PullLock, Handle, AfterPull, PullBegin, PullHandled
<1>8. CASE ReadDist \/ StoreMarks \/ Decide \/ Schedule
  BY <1>8 DEF ReadDist, StoreMarks, Decide, Schedule, AfterStatus, GPUReadDistance,
     GPUStoreMarks, GPUDecide, GPUSchedule
<1>9. CASE LoopTest \/ Chunk \/ SubTicks
  BY <1>9 DEF LoopTest, Chunk, SubTicks, GPUChunkRead
<1>10. CASE StartPayload \/ Relax \/ TestRunning \/ Rest
  BY <1>10 DEF StartPayload, Relax, TestRunning, Rest, Loop!Start, Loop!Relax, Loop!End
<1>11. CASE LeaveLoop \/ ReturnFromLoop
  BY <1>11 DEF LeaveLoop, ReturnFromLoop, Loop!Leave, Loop!Return, Loop!TurnOff
<1>12. CASE Break \/ Pause \/ Resume \/ Stop
  BY <1>12 DEF Break, Pause, Resume, Stop
<1>13. CASE HostStep
  BY <1>13 DEF HostStep, PauseGpu, ResumeGpu, StopCpu, StopGpu, ExitFlush, ExitStop, ExitWakeup,
     DisableRead, Loop!Wakeup, Loop!IsDone, Loop!RequestStop
<1>14. CASE ControlStore \/ ControlRead
  BY <1>14 DEF ControlStore, ControlRead, StoreEnable, StoreReadEnable
<1>15. CASE LoopTestEnable \/ LoopTestBreakpoint \/ LoopTestTicks
  BY <1>15 DEF LoopTestEnable, LoopTestBreakpoint, LoopTestTicks
<1>16. CASE UNCHANGED vars
  BY <1>16 DEF vars
<1> QED
  BY <1>1, <1>2, <1>3, <1>4, <1>5, <1>6, <1>7, <1>8, <1>9, <1>10, <1>11, <1>12, <1>13, <1>14,
     <1>15, <1>16 DEF Next, CpuStep, GpuStep

\* RunGpu() schedules SyncGPUCallback() only if it was suspended.
LEMMA RunGpuKeeps ==
  ASSUME TypeOK, OneCallbackAlways, RunGpu, cpu \notin {"sync_test", "sync_wait"},
         cpu' \notin {"sync_test", "sync_wait"}
  PROVE  Clocks'
<1> USE GpuAssumption DEF TypeOK, Clocks, OneCallbackAlways, RunGpu
<1>1. CASE SyncGPU /\ suspended
  <2>1. suspended' = FALSE /\ callbacks' = callbacks + 1
    BY <1>1
  <2> QED
    BY <1>1, <2>1
<1>2. CASE ~(SyncGPU /\ suspended)
  <2>1. callbacks' = callbacks /\ suspended' = suspended
    BY <1>2
  <2> QED
    BY <1>2, <2>1
<1> QED
  BY <1>1, <1>2

\* The callback stays alone.
LEMMA NextClocks == IInv /\ [Next]_vars => Clocks'
<1> SUFFICES ASSUME IInv, [Next]_vars PROVE Clocks'
  OBVIOUS
<1> USE GpuAssumption DEF IInv, TypeOK, Clocks, OneCallbackAlways, sync, payload, CpuGoto, GpuGoto,
   HostGoto
<1>1. CASE Guest
  <2>1. CASE \E request \in Requests : Request(request)
    <3>1. PICK request \in Requests : Request(request)
      BY <2>1
    <3>2. CASE Queues
      BY <3>1, <3>2, RunGpuKeeps DEF Request
    <3>3. CASE ~Queues
      BY <3>1, <3>3 DEF Request
    <3> QED
      BY <3>2, <3>3
  <2>2. CASE Burst
    BY <2>2 DEF Burst
  <2>3. CASE \E value \in Ctrls : Control(value)
    BY <2>3 DEF Control
  <2>4. CASE \E ptr \in Ptrs : Breakpoint(ptr)
    BY <2>4 DEF Breakpoint
  <2> QED
    BY <1>1, <2>1, <2>2, <2>3, <2>4 DEF Guest
<1>2. CASE InterruptEvent \/ SyncCallback \/ CpuEnter \/ CpuLeave
  BY <1>2 DEF InterruptEvent, SyncCallback, CpuEnter, CpuLeave, UpdateInterrupts
<1>3. CASE CallRunGpu \/ Flush \/ CondWait
  <2>1. CASE CallRunGpu
    BY <2>1, RunGpuKeeps DEF CallRunGpu
  <2>2. CASE Flush \/ CondWait
    BY <2>2 DEF Flush, CondWait
  <2> QED
    BY <1>3, <2>1, <2>2
<1>4. CASE BurstStoreMarks \/ BurstSetInterrupt \/ BurstAdd
  BY <1>4 DEF BurstStoreMarks, BurstSetInterrupt, BurstAdd, CPUStoreMarks, CPUSetInterrupt,
     AddChunk
<1>5. CASE SyncTest \/ SyncWait
  BY <1>5 DEF SyncTest, SyncWait, Reschedule, Loop!Wakeup, Loop!IsDone
<1>6. CASE EnableRequests \/ StopPassthrough \/ DisableRequests \/ StartPassthrough
  BY <1>6 DEF EnableRequests, StopPassthrough, DisableRequests, StartPassthrough, SetEnable,
     SetPassthrough
<1>7. CASE Pull \/ PullLock \/ Handle
  BY <1>7 DEF Pull, PullLock, Handle, AfterPull, PullBegin, PullHandled
<1>8. CASE ReadDist \/ StoreMarks \/ Decide \/ Schedule
  BY <1>8 DEF ReadDist, StoreMarks, Decide, Schedule, AfterStatus, GPUReadDistance,
     GPUStoreMarks, GPUDecide, GPUSchedule
<1>9. CASE LoopTest \/ Chunk \/ SubTicks
  BY <1>9 DEF LoopTest, Chunk, SubTicks, GPUChunkRead
<1>10. CASE StartPayload \/ Relax \/ TestRunning \/ Rest
  BY <1>10 DEF StartPayload, Relax, TestRunning, Rest, Loop!Start, Loop!Relax, Loop!End
<1>11. CASE LeaveLoop \/ ReturnFromLoop
  BY <1>11 DEF LeaveLoop, ReturnFromLoop, Loop!Leave, Loop!Return, Loop!TurnOff
<1>12. CASE Break \/ Pause \/ Resume \/ Stop
  BY <1>12 DEF Break, Pause, Resume, Stop
<1>13. CASE HostStep
  BY <1>13 DEF HostStep, PauseGpu, ResumeGpu, StopCpu, StopGpu, ExitFlush, ExitStop, ExitWakeup,
     DisableRead, Loop!Wakeup, Loop!IsDone, Loop!RequestStop
<1>14. CASE ControlStore \/ ControlRead
  BY <1>14 DEF ControlStore, ControlRead, StoreEnable, StoreReadEnable
<1>15. CASE LoopTestEnable \/ LoopTestBreakpoint \/ LoopTestTicks
  BY <1>15 DEF LoopTestEnable, LoopTestBreakpoint, LoopTestTicks
<1>16. CASE UNCHANGED vars
  BY <1>16 DEF vars
<1> QED
  BY <1>1, <1>2, <1>3, <1>4, <1>5, <1>6, <1>7, <1>8, <1>9, <1>10, <1>11, <1>12, <1>13, <1>14,
     <1>15, <1>16 DEF Next, CpuStep, GpuStep

\* UpdateInterrupts() takes the only event.
LEMMA InterruptEventTypes ==
  ASSUME IInv, InterruptEvent PROVE CPTypeOK'
<1> USE CPAssumption DEF IInv, TypeOK, CPTypeOK
<1>1. intSet' \in BOOLEAN /\ intEvents' \in Seq(BOOLEAN) /\ Len(intEvents') <= 1
  <2>1. /\ intEvents \in Seq(BOOLEAN) /\ Len(intEvents) <= 1 /\ intEvents # <<>>
        /\ intSet' = Head(intEvents) /\ intEvents' = Tail(intEvents)
    BY DEF InterruptEvent, UpdateInterrupts
  <2> QED
    BY <2>1
<1>2. /\ UNCHANGED <<dist, readPtr, bp, ctrl, enabled, readEnable, atBp, marks, cpuMarks, gpuMarks, gpuInt>>
      /\ intWaiting' = FALSE
  BY DEF InterruptEvent, UpdateInterrupts, regs, local
<1> QED
  BY <1>1, <1>2

\* SetCPStatusFromGPU() schedules an event when there is none.
LEMMA ScheduleTypes ==
  ASSUME IInv, Schedule PROVE CPTypeOK'
<1> USE CPAssumption DEF IInv, TypeOK, CPTypeOK
<1>1. intEvents' \in Seq(BOOLEAN) /\ Len(intEvents') <= 1
  <2>1. intEvents = <<>> /\ gpuInt \in BOOLEAN /\ intEvents' = Append(intEvents, gpuInt)
    BY DEF Schedule, GPUSchedule, GpuGoto, OneEvent
  <2> QED
    BY <2>1
<1>2. /\ UNCHANGED <<dist, readPtr, bp, ctrl, enabled, readEnable, atBp, marks, cpuMarks, gpuMarks, intSet>>
      /\ intWaiting' = TRUE /\ gpuInt' = FALSE
  BY DEF Schedule, GPUSchedule, regs
<1> QED
  BY <1>1, <1>2

\* The registers keep their types and the ring is never overrun.
LEMMA NextRegisters == IInv /\ [Next]_vars => CPTypeOK'
<1> SUFFICES ASSUME IInv, [Next]_vars PROVE CPTypeOK'
  OBVIOUS
<1> USE CPAssumption DEF IInv, TypeOK, CPTypeOK, OneEvent, TestPCs, CtrlRegs, Ptrs, Marks, Interrupt,
   AtBreakpoint, GPUWantsChange, cp, regs, ints, local, payload, CpuGoto, GpuGoto, HostGoto
<1>1. CASE Guest
  BY <1>1 DEF Guest, Burst, Control, Breakpoint, Request, CPUReadDistance, WriteCtrl,
     WriteBreakpoint, PushEvent, RunGpu, Loop!Wakeup
<1>2. CASE InterruptEvent \/ SyncCallback \/ CpuEnter \/ CpuLeave
  <2>1. CASE InterruptEvent
    BY <2>1, InterruptEventTypes
  <2>2. CASE SyncCallback \/ CpuEnter \/ CpuLeave
    BY <2>2 DEF SyncCallback, CpuEnter, CpuLeave
  <2> QED
    BY <1>2, <2>1, <2>2
<1>3. CASE CallRunGpu \/ Flush \/ CondWait
  BY <1>3 DEF CallRunGpu, Flush, CondWait, RunGpu, WaitReturns, Loop!Wakeup, Loop!IsDone
<1>4. CASE BurstStoreMarks \/ BurstSetInterrupt \/ BurstAdd
  <2>1. CASE BurstStoreMarks
    BY <2>1 DEF BurstStoreMarks, CPUStoreMarks
  <2>2. CASE BurstSetInterrupt
    BY <2>2 DEF BurstSetInterrupt, CPUSetInterrupt
  <2>3. CASE BurstAdd
    BY <2>3 DEF BurstAdd, AddChunk
  <2> QED
    BY <1>4, <2>1, <2>2, <2>3
<1>5. CASE SyncTest \/ SyncWait
  BY <1>5 DEF SyncTest, SyncWait, Reschedule, Loop!Wakeup, Loop!IsDone
<1>6. CASE EnableRequests \/ StopPassthrough \/ DisableRequests \/ StartPassthrough
  BY <1>6 DEF EnableRequests, StopPassthrough, DisableRequests, StartPassthrough, SetEnable,
     SetPassthrough
<1>7. CASE Pull \/ PullLock \/ Handle
  BY <1>7 DEF Pull, PullLock, Handle, AfterPull, PullBegin, PullHandled
<1>8. CASE ReadDist \/ StoreMarks \/ Decide \/ Schedule
  <2>1. CASE ReadDist
    BY <2>1 DEF ReadDist, GPUReadDistance
  <2>2. CASE StoreMarks
    BY <2>2 DEF StoreMarks, GPUStoreMarks
  <2>3. CASE Decide
    BY <2>3 DEF Decide, GPUDecide
  <2>4. CASE Schedule
    BY <2>4, ScheduleTypes
  <2> QED
    BY <1>8, <2>1, <2>2, <2>3, <2>4
<1>9. CASE LoopTest \/ Chunk \/ SubTicks
  <2>1. CASE LoopTest \/ SubTicks
    BY <2>1 DEF LoopTest, SubTicks
  <2>2. CASE Chunk
    BY <2>2 DEF Chunk, GPUChunkRead
  <2> QED
    BY <1>9, <2>1, <2>2
<1>10. CASE StartPayload \/ Relax \/ TestRunning \/ Rest
  BY <1>10 DEF StartPayload, Relax, TestRunning, Rest, Loop!Start, Loop!Relax, Loop!End
<1>11. CASE LeaveLoop \/ ReturnFromLoop
  BY <1>11 DEF LeaveLoop, ReturnFromLoop, Loop!Leave, Loop!Return, Loop!TurnOff
<1>12. CASE Break \/ Pause \/ Resume \/ Stop
  BY <1>12 DEF Break, Pause, Resume, Stop
<1>13. CASE HostStep
  BY <1>13 DEF HostStep, PauseGpu, ResumeGpu, StopCpu, StopGpu, ExitFlush, ExitStop, ExitWakeup,
     DisableRead, Loop!Wakeup, Loop!IsDone, Loop!RequestStop
<1>14. CASE ControlStore \/ ControlRead
  BY <1>14 DEF ControlStore, ControlRead, StoreEnable, StoreReadEnable
<1>15. CASE LoopTestEnable \/ LoopTestBreakpoint \/ LoopTestTicks
  BY <1>15 DEF LoopTestEnable, LoopTestBreakpoint, LoopTestTicks
<1>16. CASE UNCHANGED vars
  BY <1>16 DEF vars
<1> QED
  BY <1>1, <1>2, <1>3, <1>4, <1>5, <1>6, <1>7, <1>8, <1>9, <1>10, <1>11, <1>12, <1>13, <1>14,
     <1>15, <1>16 DEF Next, CpuStep, GpuStep

\* s_interrupt_waiting announces one event.
LEMMA NextOneEvent == IInv /\ [Next]_vars => OneEvent'
<1> SUFFICES ASSUME IInv, [Next]_vars PROVE OneEvent'
  OBVIOUS
<1> USE CPAssumption DEF IInv, TypeOK, CPTypeOK, OneEvent, TestPCs, GPUWantsChange, cp, regs,
   ints, local, payload, CpuGoto, GpuGoto, HostGoto
<1>1. CASE Guest
  BY <1>1 DEF Guest, Burst, Control, Breakpoint, Request, CPUReadDistance, WriteCtrl,
     WriteBreakpoint, PushEvent, RunGpu, Loop!Wakeup
<1>2. CASE InterruptEvent \/ SyncCallback \/ CpuEnter \/ CpuLeave
  BY <1>2 DEF InterruptEvent, SyncCallback, CpuEnter, CpuLeave, UpdateInterrupts
<1>3. CASE CallRunGpu \/ Flush \/ CondWait
  BY <1>3 DEF CallRunGpu, Flush, CondWait, RunGpu, WaitReturns, Loop!Wakeup, Loop!IsDone
<1>4. CASE BurstStoreMarks \/ BurstSetInterrupt \/ BurstAdd
  BY <1>4 DEF BurstStoreMarks, BurstSetInterrupt, BurstAdd, CPUStoreMarks, CPUSetInterrupt,
     AddChunk
<1>5. CASE SyncTest \/ SyncWait
  BY <1>5 DEF SyncTest, SyncWait, Reschedule, Loop!Wakeup, Loop!IsDone
<1>6. CASE EnableRequests \/ StopPassthrough \/ DisableRequests \/ StartPassthrough
  BY <1>6 DEF EnableRequests, StopPassthrough, DisableRequests, StartPassthrough, SetEnable,
     SetPassthrough
<1>7. CASE Pull \/ PullLock \/ Handle
  BY <1>7 DEF Pull, PullLock, Handle, AfterPull, PullBegin, PullHandled
<1>8. CASE ReadDist \/ StoreMarks \/ Decide \/ Schedule
  <2>1. CASE ReadDist \/ StoreMarks
    BY <2>1 DEF ReadDist, GPUReadDistance, StoreMarks, GPUStoreMarks
  <2>2. CASE Decide
    BY <2>2 DEF Decide, AfterStatus, GPUDecide
  <2>3. CASE Schedule
    BY <2>3 DEF Schedule, AfterStatus, GPUSchedule
  <2> QED
    BY <1>8, <2>1, <2>2, <2>3
<1>9. CASE LoopTest \/ Chunk \/ SubTicks
  BY <1>9 DEF LoopTest, Chunk, SubTicks, GPUChunkRead
<1>10. CASE StartPayload \/ Relax \/ TestRunning \/ Rest
  BY <1>10 DEF StartPayload, Relax, TestRunning, Rest, Loop!Start, Loop!Relax, Loop!End
<1>11. CASE LeaveLoop \/ ReturnFromLoop
  BY <1>11 DEF LeaveLoop, ReturnFromLoop, Loop!Leave, Loop!Return, Loop!TurnOff
<1>12. CASE Break \/ Pause \/ Resume \/ Stop
  BY <1>12 DEF Break, Pause, Resume, Stop
<1>13. CASE HostStep
  BY <1>13 DEF HostStep, PauseGpu, ResumeGpu, StopCpu, StopGpu, ExitFlush, ExitStop, ExitWakeup,
     DisableRead, Loop!Wakeup, Loop!IsDone, Loop!RequestStop
<1>14. CASE ControlStore \/ ControlRead
  BY <1>14 DEF ControlStore, ControlRead, StoreEnable, StoreReadEnable
<1>15. CASE LoopTestEnable \/ LoopTestBreakpoint \/ LoopTestTicks
  BY <1>15 DEF LoopTestEnable, LoopTestBreakpoint, LoopTestTicks
<1>16. CASE UNCHANGED vars
  BY <1>16 DEF vars
<1> QED
  BY <1>1, <1>2, <1>3, <1>4, <1>5, <1>6, <1>7, <1>8, <1>9, <1>10, <1>11, <1>12, <1>13, <1>14,
     <1>15, <1>16 DEF Next, CpuStep, GpuStep
-----------------------------------------------------------------------------

\* The loop and the place of the GPU thread stay in agreement.
LEMMA NextPlaces == IInv /\ [Next]_vars => Places'
<1> SUFFICES ASSUME IInv, [Next]_vars PROVE Places'
  OBVIOUS
<1> USE DEF IInv, TypeOK, Places, TestPCs, PastPCs, PayloadPCs, loop, payload, CpuGoto, GpuGoto, HostGoto
<1>1. CASE Guest
  BY <1>1 DEF Guest, Burst, Control, Breakpoint, Request, CPUReadDistance, WriteCtrl,
     WriteBreakpoint, PushEvent, RunGpu, Loop!Wakeup
<1>2. CASE InterruptEvent \/ SyncCallback \/ CpuEnter \/ CpuLeave
  BY <1>2 DEF InterruptEvent, SyncCallback, CpuEnter, CpuLeave, UpdateInterrupts
<1>3. CASE CallRunGpu \/ Flush \/ CondWait
  BY <1>3 DEF CallRunGpu, Flush, CondWait, RunGpu, WaitReturns, Loop!Wakeup, Loop!IsDone
<1>4. CASE BurstStoreMarks \/ BurstSetInterrupt \/ BurstAdd
  BY <1>4 DEF BurstStoreMarks, BurstSetInterrupt, BurstAdd, CPUStoreMarks, CPUSetInterrupt,
     AddChunk
<1>5. CASE SyncTest \/ SyncWait
  BY <1>5 DEF SyncTest, SyncWait, Reschedule, Loop!Wakeup, Loop!IsDone
<1>6. CASE EnableRequests \/ StopPassthrough \/ DisableRequests \/ StartPassthrough
  BY <1>6 DEF EnableRequests, StopPassthrough, DisableRequests, StartPassthrough, SetEnable,
     SetPassthrough
<1>7. CASE Pull \/ PullLock \/ Handle
  BY <1>7 DEF Pull, PullLock, Handle, AfterPull, PullBegin, PullHandled
<1>8. CASE ReadDist \/ StoreMarks \/ Decide \/ Schedule
  BY <1>8 DEF ReadDist, StoreMarks, Decide, Schedule, AfterStatus, GPUReadDistance,
     GPUStoreMarks, GPUDecide, GPUSchedule
<1>9. CASE LoopTest \/ Chunk \/ SubTicks
  BY <1>9 DEF LoopTest, Chunk, SubTicks, GPUChunkRead
<1>10. CASE StartPayload \/ Relax \/ TestRunning \/ Rest
  BY <1>10 DEF StartPayload, Relax, TestRunning, Rest, Loop!Start, Loop!Relax, Loop!End
<1>11. CASE LeaveLoop \/ ReturnFromLoop
  BY <1>11 DEF LeaveLoop, ReturnFromLoop, Loop!Leave, Loop!Return, Loop!TurnOff
<1>12. CASE Break \/ Pause \/ Resume \/ Stop
  BY <1>12 DEF Break, Pause, Resume, Stop
<1>13. CASE HostStep
  BY <1>13 DEF HostStep, PauseGpu, ResumeGpu, StopCpu, StopGpu, ExitFlush, ExitStop, ExitWakeup,
     DisableRead, Loop!Wakeup, Loop!IsDone, Loop!RequestStop
<1>14. CASE ControlStore \/ ControlRead
  BY <1>14 DEF ControlStore, ControlRead, StoreEnable, StoreReadEnable
<1>15. CASE LoopTestEnable \/ LoopTestBreakpoint \/ LoopTestTicks
  BY <1>15 DEF LoopTestEnable, LoopTestBreakpoint, LoopTestTicks
<1>16. CASE UNCHANGED vars
  BY <1>16 DEF vars
<1> QED
  BY <1>1, <1>2, <1>3, <1>4, <1>5, <1>6, <1>7, <1>8, <1>9, <1>10, <1>11, <1>12, <1>13, <1>14,
     <1>15, <1>16 DEF Next, CpuStep, GpuStep

\* Nothing comes back after the CPU thread has gone.
LEMMA NextHost == IInv /\ [Next]_vars => HostKnows'
<1> SUFFICES ASSUME IInv, [Next]_vars PROVE HostKnows'
  OBVIOUS
<1> USE DEF IInv, TypeOK, HostKnows, ExitPCs, loop, cp, regs, payload, CpuGoto, GpuGoto, HostGoto
<1>1. CASE Guest
  BY <1>1 DEF Guest, Burst, Control, Breakpoint, Request, CPUReadDistance, WriteCtrl,
     WriteBreakpoint, PushEvent, RunGpu, Loop!Wakeup
<1>2. CASE InterruptEvent \/ SyncCallback \/ CpuEnter \/ CpuLeave
  BY <1>2 DEF InterruptEvent, SyncCallback, CpuEnter, CpuLeave, UpdateInterrupts
<1>3. CASE CallRunGpu \/ Flush \/ CondWait
  BY <1>3 DEF CallRunGpu, Flush, CondWait, RunGpu, WaitReturns, Loop!Wakeup, Loop!IsDone
<1>4. CASE BurstStoreMarks \/ BurstSetInterrupt \/ BurstAdd
  BY <1>4 DEF BurstStoreMarks, BurstSetInterrupt, BurstAdd, CPUStoreMarks, CPUSetInterrupt,
     AddChunk
<1>5. CASE SyncTest \/ SyncWait
  BY <1>5 DEF SyncTest, SyncWait, Reschedule, Loop!Wakeup, Loop!IsDone
<1>6. CASE EnableRequests \/ StopPassthrough \/ DisableRequests \/ StartPassthrough
  BY <1>6 DEF EnableRequests, StopPassthrough, DisableRequests, StartPassthrough, SetEnable,
     SetPassthrough
<1>7. CASE Pull \/ PullLock \/ Handle
  BY <1>7 DEF Pull, PullLock, Handle, AfterPull, PullBegin, PullHandled
<1>8. CASE ReadDist \/ StoreMarks \/ Decide \/ Schedule
  BY <1>8 DEF ReadDist, StoreMarks, Decide, Schedule, AfterStatus, GPUReadDistance,
     GPUStoreMarks, GPUDecide, GPUSchedule
<1>9. CASE LoopTest \/ Chunk \/ SubTicks
  BY <1>9 DEF LoopTest, Chunk, SubTicks, GPUChunkRead
<1>10. CASE StartPayload \/ Relax \/ TestRunning \/ Rest
  BY <1>10 DEF StartPayload, Relax, TestRunning, Rest, Loop!Start, Loop!Relax, Loop!End
<1>11. CASE LeaveLoop \/ ReturnFromLoop
  BY <1>11 DEF LeaveLoop, ReturnFromLoop, Loop!Leave, Loop!Return, Loop!TurnOff
<1>12. CASE Break \/ Pause \/ Resume \/ Stop
  BY <1>12 DEF Break, Pause, Resume, Stop
<1>13. CASE HostStep
  BY <1>13 DEF HostStep, PauseGpu, ResumeGpu, StopCpu, StopGpu, ExitFlush, ExitStop, ExitWakeup,
     DisableRead, Loop!Wakeup, Loop!IsDone, Loop!RequestStop
<1>14. CASE ControlStore \/ ControlRead
  BY <1>14 DEF ControlStore, ControlRead, StoreEnable, StoreReadEnable
<1>15. CASE LoopTestEnable \/ LoopTestBreakpoint \/ LoopTestTicks
  BY <1>15 DEF LoopTestEnable, LoopTestBreakpoint, LoopTestTicks
<1>16. CASE UNCHANGED vars
  BY <1>16 DEF vars
<1> QED
  BY <1>1, <1>2, <1>3, <1>4, <1>5, <1>6, <1>7, <1>8, <1>9, <1>10, <1>11, <1>12, <1>13, <1>14,
     <1>15, <1>16 DEF Next, CpuStep, GpuStep

\* The GPU thread's last look at the registers is never out of date.
LEMMA NextStatus == IInv /\ [Next]_vars => Status'
<1> SUFFICES ASSUME IInv, [Next]_vars PROVE Status'
  OBVIOUS
<1> USE GpuAssumption DEF IInv, TypeOK, Places, HostKnows, Busy, Status, Settled,
   RightInterrupt, Interrupt, AtBreakpoint, TestPCs, PastPCs, PayloadPCs, ExitPCs, loop, sync, cp, regs,
   ints, local, payload, CpuGoto, GpuGoto, HostGoto
<1>1. CASE Guest
  BY <1>1 DEF Guest, Burst, Control, Breakpoint, Request, CPUReadDistance, WriteCtrl,
     WriteBreakpoint, PushEvent, RunGpu, Loop!Wakeup
<1>2. CASE InterruptEvent \/ SyncCallback \/ CpuEnter \/ CpuLeave
  BY <1>2 DEF InterruptEvent, SyncCallback, CpuEnter, CpuLeave, UpdateInterrupts
<1>3. CASE CallRunGpu \/ Flush \/ CondWait
  BY <1>3 DEF CallRunGpu, Flush, CondWait, RunGpu, WaitReturns, Loop!Wakeup, Loop!IsDone
<1>4. CASE BurstStoreMarks \/ BurstSetInterrupt \/ BurstAdd
  BY <1>4 DEF BurstStoreMarks, BurstSetInterrupt, BurstAdd, CPUStoreMarks, CPUSetInterrupt,
     AddChunk
<1>5. CASE SyncTest \/ SyncWait
  <2>1. CASE SyncTest
    BY <2>1 DEF SyncTest, Loop!Wakeup
  <2>2. CASE SyncWait
    BY <2>2 DEF SyncWait
  <2> QED
    BY <1>5, <2>1, <2>2
<1>6. CASE EnableRequests \/ StopPassthrough \/ DisableRequests \/ StartPassthrough
  BY <1>6 DEF EnableRequests, StopPassthrough, DisableRequests, StartPassthrough, SetEnable,
     SetPassthrough
<1>7. CASE Pull \/ PullLock \/ Handle
  BY <1>7 DEF Pull, PullLock, Handle, AfterPull, PullBegin, PullHandled
<1>8. CASE ReadDist \/ StoreMarks \/ Decide \/ Schedule
  <2>1. CASE ReadDist
    BY <2>1 DEF ReadDist, GPUReadDistance
  <2>2. CASE StoreMarks
    BY <2>2 DEF StoreMarks, GPUStoreMarks
  <2>3. CASE Decide
    BY <2>3 DEF Decide, GPUDecide, AfterStatus, GPUWantsChange
  <2>4. CASE Schedule
    BY <2>4 DEF Schedule, GPUSchedule, AfterStatus
  <2> QED
    BY <1>8, <2>1, <2>2, <2>3, <2>4
<1>9. CASE LoopTest \/ Chunk \/ SubTicks
  BY <1>9 DEF LoopTest, Chunk, SubTicks, GPUChunkRead
<1>10. CASE StartPayload \/ Relax \/ TestRunning \/ Rest
  <2>1. CASE StartPayload
    BY <2>1 DEF StartPayload, Loop!Start
  <2>2. CASE Relax
    BY <2>2 DEF Relax, Loop!Relax
  <2>3. CASE TestRunning
    BY <2>3 DEF TestRunning, Loop!End
  <2>4. CASE Rest
    BY <2>4 DEF Rest, Loop!End
  <2> QED
    BY <1>10, <2>1, <2>2, <2>3, <2>4
<1>11. CASE LeaveLoop \/ ReturnFromLoop
  BY <1>11 DEF LeaveLoop, ReturnFromLoop, Loop!Leave, Loop!Return, Loop!TurnOff
<1>12. CASE Break \/ Pause \/ Resume \/ Stop
  <2>1. CASE Break
    BY <2>1 DEF Break
  <2>2. CASE Pause
    BY <2>2 DEF Pause
  <2>3. CASE Resume
    BY <2>3 DEF Resume
  <2>4. CASE Stop
    BY <2>4 DEF Stop
  <2> QED
    BY <1>12, <2>1, <2>2, <2>3, <2>4
<1>13. CASE HostStep
  <2>1. CASE PauseGpu
    BY <2>1 DEF PauseGpu
  <2>2. CASE ResumeGpu
    BY <2>2 DEF ResumeGpu, Loop!Wakeup
  <2>3. CASE StopCpu \/ StopGpu
    <3>1. CASE StopCpu
      BY <3>1 DEF StopCpu
    <3>2. CASE StopGpu
      BY <3>2 DEF StopGpu
    <3> QED
      BY <2>3, <3>1, <3>2
  <2>4. CASE ExitFlush \/ ExitStop \/ ExitWakeup
    BY <2>4 DEF ExitFlush, ExitStop, ExitWakeup
  <2> QED
    BY <1>13, <2>1, <2>2, <2>3, <2>4 DEF HostStep
<1>14. CASE ControlStore \/ ControlRead
  BY <1>14 DEF ControlStore, ControlRead, StoreEnable, StoreReadEnable
<1>15. CASE LoopTestEnable \/ LoopTestBreakpoint \/ LoopTestTicks
  BY <1>15 DEF LoopTestEnable, LoopTestBreakpoint, LoopTestTicks
<1>16. CASE UNCHANGED vars
  BY <1>16 DEF vars
<1> QED
  BY <1>1, <1>2, <1>3, <1>4, <1>5, <1>6, <1>7, <1>8, <1>9, <1>10, <1>11, <1>12, <1>13, <1>14,
     <1>15, <1>16 DEF Next, CpuStep, GpuStep

\* FlushGpu() and ExitGpuLoop() leave no chunk behind.
LEMMA NextFlushed == IInv /\ [Next]_vars => Flushed'
<1> SUFFICES ASSUME IInv, [Next]_vars PROVE Flushed'
  OBVIOUS
<1> USE GpuAssumption DEF IInv, TypeOK, Places, HostKnows, Flushed,
   DisabledMeansStopped, TestPCs, PastPCs, PayloadPCs, ExitPCs, loop, cp, regs, ints, payload, CpuGoto,
   GpuGoto, HostGoto
<1>1. CASE Guest
  BY <1>1 DEF Guest, Burst, Control, Breakpoint, Request, CPUReadDistance, WriteCtrl,
     WriteBreakpoint, PushEvent, RunGpu, Loop!Wakeup
<1>2. CASE InterruptEvent \/ SyncCallback \/ CpuEnter \/ CpuLeave
  BY <1>2 DEF InterruptEvent, SyncCallback, CpuEnter, CpuLeave, UpdateInterrupts
<1>3. CASE CallRunGpu \/ Flush \/ CondWait
  BY <1>3 DEF CallRunGpu, Flush, CondWait, RunGpu, WaitReturns, Loop!Wakeup, Loop!IsDone
<1>4. CASE BurstStoreMarks \/ BurstSetInterrupt \/ BurstAdd
  BY <1>4 DEF BurstStoreMarks, BurstSetInterrupt, BurstAdd, CPUStoreMarks, CPUSetInterrupt,
     AddChunk
<1>5. CASE SyncTest \/ SyncWait
  BY <1>5 DEF SyncTest, SyncWait, Reschedule, Loop!Wakeup, Loop!IsDone
<1>6. CASE EnableRequests \/ StopPassthrough \/ DisableRequests \/ StartPassthrough
  BY <1>6 DEF EnableRequests, StopPassthrough, DisableRequests, StartPassthrough, SetEnable,
     SetPassthrough
<1>7. CASE Pull \/ PullLock \/ Handle
  BY <1>7 DEF Pull, PullLock, Handle, AfterPull, PullBegin, PullHandled
<1>8. CASE ReadDist \/ StoreMarks \/ Decide \/ Schedule
  BY <1>8 DEF ReadDist, StoreMarks, Decide, Schedule, AfterStatus, GPUReadDistance,
     GPUStoreMarks, GPUDecide, GPUSchedule
<1>9. CASE LoopTest \/ Chunk \/ SubTicks
  BY <1>9 DEF LoopTest, Chunk, SubTicks, GPUChunkRead
<1>10. CASE StartPayload \/ Relax \/ TestRunning \/ Rest
  BY <1>10 DEF StartPayload, Relax, TestRunning, Rest, Loop!Start, Loop!Relax, Loop!End
<1>11. CASE LeaveLoop \/ ReturnFromLoop
  BY <1>11 DEF LeaveLoop, ReturnFromLoop, Loop!Leave, Loop!Return, Loop!TurnOff
<1>12. CASE Break \/ Pause \/ Resume \/ Stop
  BY <1>12 DEF Break, Pause, Resume, Stop
<1>13. CASE HostStep
  BY <1>13 DEF HostStep, PauseGpu, ResumeGpu, StopCpu, StopGpu, ExitFlush, ExitStop, ExitWakeup,
     DisableRead, Loop!Wakeup, Loop!IsDone, Loop!RequestStop
<1>14. CASE ControlStore \/ ControlRead
  BY <1>14 DEF ControlStore, ControlRead, StoreEnable, StoreReadEnable
<1>15. CASE LoopTestEnable \/ LoopTestBreakpoint \/ LoopTestTicks
  BY <1>15 DEF LoopTestEnable, LoopTestBreakpoint, LoopTestTicks
<1>16. CASE UNCHANGED vars
  BY <1>16 DEF vars
<1> QED
  BY <1>1, <1>2, <1>3, <1>4, <1>5, <1>6, <1>7, <1>8, <1>9, <1>10, <1>11, <1>12, <1>13, <1>14,
     <1>15, <1>16 DEF Next, CpuStep, GpuStep
-----------------------------------------------------------------------------

\* The initial state satisfies the inductive invariant.
LEMMA InitIInv == Init => IInv
<1> SUFFICES ASSUME Init PROVE IInv
  OBVIOUS
<1> USE DEF Init, RequestsInit, CPInit, Loop!Ready
<1>1. RequestsTypeOK /\ Counts /\ WaitsForLast
  <2>1. RequestsTypeOK
    <3>1. /\ empty \in BOOLEAN /\ wakeMe \in BOOLEAN /\ notified \in BOOLEAN
          /\ enable \in BOOLEAN /\ passthrough \in BOOLEAN
      BY Zenon
    <3>2. queue = <<>> /\ handling = <<>> /\ unhandled = 0
      OBVIOUS
    <3> HIDE DEF Init, RequestsInit
    <3> QED
      BY <3>1, <3>2, RequestsAssumption DEF RequestsTypeOK
  <2>2. Counts
    BY DEF Counts
  <2>3. WaitsForLast
    BY DEF WaitsForLast
  <2> QED
    BY <2>1, <2>2, <2>3
<1>2. CPTypeOK /\ OneEvent
  <2>1. ctrl \in CtrlRegs
    BY DEF CtrlRegs
  <2>2. CPTypeOK
    <3>1. /\ readEnable \in BOOLEAN /\ atBp \in BOOLEAN /\ gpuInt \in BOOLEAN
          /\ intSet \in BOOLEAN /\ intWaiting \in BOOLEAN
      BY Zenon
    <3>2. /\ dist = 0 /\ readPtr = 0 /\ bp = 0 /\ intEvents = <<>>
          /\ marks = {} /\ cpuMarks = {} /\ gpuMarks = {} /\ enabled = {}
      OBVIOUS
    <3> HIDE DEF Init, CPInit
    <3> QED
      BY <2>1, <3>1, <3>2, CPAssumption DEF CPTypeOK, Ptrs
  <2>3. OneEvent
    BY DEF OneEvent, TestPCs
  <2> QED
    BY <2>2, <2>3
<1>3. TypeOK
  <2>1. /\ on \in BOOLEAN /\ quit \in BOOLEAN /\ running \in BOOLEAN
        /\ first \in BOOLEAN /\ syncEvent \in BOOLEAN /\ suspended \in BOOLEAN
        /\ polling \in BOOLEAN
    BY Zenon
  <2>2. ticks = 0 /\ oldTicks = 0 /\ callbacks = 0
    OBVIOUS
  <2>3. /\ state = "stepping" /\ cpu = "inactive" /\ gpu = "enable" /\ host = "idle"
        /\ level = "last" /\ run = "idle"
    OBVIOUS
  <2> HIDE DEF Init, RequestsInit, CPInit, Loop!Ready
  <2> QED
    BY <1>1, <1>2, <2>1, <2>2, <2>3 DEF TypeOK
<1>4. Places /\ HostKnows /\ OneCallbackAlways
  <2>1. Places
    BY DEF Places, TestPCs, PastPCs, PayloadPCs
  <2>2. HostKnows
    BY DEF HostKnows, ExitPCs
  <2>3. OneCallbackAlways
    BY DEF OneCallbackAlways
  <2> QED
    BY <2>1, <2>2, <2>3
<1>5. Flushed
  BY DEF Flushed, TestPCs
<1>6. Status
  BY DEF Status, Settled, TestPCs, PastPCs
<1> QED
  BY <1>1, <1>2, <1>3, <1>4, <1>5, <1>6 DEF IInv

\* Every step of every thread preserves it.
LEMMA NextIInv == IInv /\ [Next]_vars => IInv'
<1> SUFFICES ASSUME IInv, [Next]_vars PROVE IInv'
  OBVIOUS
<1>1. RequestsOK' /\ FlagsOK' /\ PCsOK' /\ Clocks' /\ CPTypeOK' /\ OneEvent'
  BY NextRequests, NextFlags, NextPCs, NextClocks, NextRegisters, NextOneEvent
<1>2. callbacks' \in 0 .. 1
  <2>1. callbacks' \in Nat
    BY <1>1 DEF Clocks
  <2>2. \/ callbacks' + 1 = 0 \/ callbacks' + 1 = 1
        \/ callbacks' + 0 = 0 \/ callbacks' + 0 = 1
    BY <1>1, Zenon DEF Clocks, OneCallbackAlways
  <2>3. \A c \in Nat : c + 1 = 0 \/ c + 1 = 1 \/ c + 0 = 0 \/ c + 0 = 1 => c \in 0 .. 1
    OBVIOUS
  <2> QED
    BY <2>1, <2>2, <2>3, Zenon
<1>3. TypeOK'
  BY <1>1, <1>2
     DEF TypeOK, RequestsOK, FlagsOK, PCsOK, Clocks, PayloadPCs, TestPCs, PastPCs, ExitPCs
<1>4. Places' /\ HostKnows' /\ Status' /\ Flushed'
  BY NextPlaces, NextHost, NextStatus, NextFlushed
<1> QED
  BY <1>1, <1>3, <1>4 DEF IInv, RequestsOK, Clocks

\* The invariant holds in every reachable state.
LEMMA Inductive == Spec => []IInv
  BY InitIInv, NextIInv, PTL DEF Spec
-----------------------------------------------------------------------------

\* Types, among them: the ring is never read when empty nor overrun, and at
\* most one et_UpdateInterrupts event and one SyncGPUCallback are pending.
THEOREM TypeCorrect == Spec => []TypeOK
<1>1. IInv => TypeOK
  BY DEF IInv
<1> QED
  BY <1>1, Inductive, PTL

\* AsyncRequests::PushEvent() with blocking set returns only after the GPU
\* thread has handled the request and all before it, for any mix and any
\* number of requests.
THEOREM BlockingIsSound == Spec => []BlockingMeansHandled
<1>1. IInv => BlockingMeansHandled
  BY DEF IInv, WaitsForLast, Counts, BlockingMeansHandled
<1> QED
  BY <1>1, Inductive, PTL

\* SetCPStatusFromCPU() and SetCPStatusFromGPU() overwrite each other's flags
\* without a lock, and yet a loop at rest leaves the interrupt that the
\* registers call for.
THEOREM InterruptIsRight == Spec => []InterruptMatchesFifo
<1>1. IInv => InterruptMatchesFifo
  BY DEF IInv, Places, Status, Busy, RightInterrupt, InterruptMatchesFifo, PayloadPCs, ExitPCs
<1> QED
  BY <1>1, Inductive, PTL

\* FlushGpu() in SetCpControlRegister() waits for every payload that a
\* Wakeup() asked for, in whatever order the enable bits are stored and loaded:
\* once the reading is off, only a loop that was done may be inside a chunk.
THEOREM FlushIsEnough == Spec => []DisabledMeansStopped
<1>1. IInv => DisabledMeansStopped
  BY DEF IInv, Flushed, TestPCs, DisabledMeansStopped
<1> QED
  BY <1>1, Inductive, PTL

\* RunGpu() and SyncGPUCallback() never have two callbacks pending, nor none
\* while syncing is not suspended.
THEOREM SyncIsScheduledOnce == Spec => []OneCallback
<1>1. IInv => OneCallback
  BY DEF IInv, OneCallbackAlways, OneCallback
<1> QED
  BY <1>1, Inductive, PTL
=============================================================================
