----------------------------- MODULE CoreTiming -----------------------------
(***************************************************************************)
(* The emulated clock and event scheduler (Core/CoreTiming.cpp).  The CPU  *)
(* thread runs blocks of code that count PowerPC::ppcState.downcount down, *)
(* and calls Advance() between slices; Advance() calls back the events     *)
(* that are due and fixes the length of the next slice.  Other threads     *)
(* schedule events through a queue that Advance() drains (s_ts_queue, used *)
(* at the level of Fifo, which SPSCQueue implements).                      *)
(*                                                                         *)
(* The heap s_event_queue is kept sorted: a sorted array is a heap, and    *)
(* only the front of a heap is observable.  What re-establishes the heap   *)
(* sorts, what changes events in place leaves the order as it is.          *)
(***************************************************************************)
EXTENDS Integers, Sequences, FiniteSets

CONSTANTS
  Types,           \* the registered event types
  Delays,          \* cycles_into_future that the CPU thread uses
  OffThreadDelays, \* cycles_into_future that other threads use
  MaxSliceLength,  \* MAX_SLICE_LENGTH
  MaxBlock,        \* cycles of the longest block of code
  Factors,         \* m_OCFactor settings, as <<numerator, denominator>>
  ClockRatios,     \* <<new_ppc_clock, old_ppc_clock>> of ChangePPCClock()
  MaxSaveTicks,    \* bound on the clock of the one state that is saved
  MaxTicks,        \* bound on the clock
  MaxEvents        \* bound on the events that are ever scheduled

ASSUME TimingAssumption ==
  /\ Delays \subseteq Int /\ OffThreadDelays \subseteq Int
  /\ MaxSliceLength \in Nat \ {0} /\ MaxBlock \in Nat \ {0}
  /\ MaxTicks \in Nat /\ MaxEvents \in Nat
  /\ Factors \subseteq (Nat \ {0}) \X (Nat \ {0})
  /\ ClockRatios \subseteq (Nat \ {0}) \X (Nat \ {0})
  /\ MaxSaveTicks \in Int

VARIABLES
  queue,      \* s_event_queue, in heap order
  fifoId,     \* s_event_fifo_id
  tsQueue,    \* s_ts_queue
  offThread,  \* the event another thread is about to push, or <<>>
  timer,      \* g.global_timer
  slice,      \* g.slice_length
  downcount,  \* PowerPC::ppcState.downcount
  factor,     \* s_last_OC_factor
  sane,       \* s_is_global_timer_sane
  pc,         \* "slice", "loop" and "callback" inside Advance(), "off" after Shutdown()
  added,      \* how many events were ever added to s_event_queue
  inOrder,    \* no load and no change of the clock ratio has reordered events
  saved       \* the savestate, or <<>>

clock == <<timer, slice, downcount, factor, sane>>
vars  == <<queue, fifoId, tsQueue, offThread, clock, pc, added, inOrder, saved>>
-----------------------------------------------------------------------------
\* Truncation towards zero, as in a conversion of float to int.
TruncDiv(a, b) == IF a >= 0 THEN a \div b ELSE -((-a) \div b)

DowncountToCycles(d) == TruncDiv(d * factor[2], factor[1])
CyclesToDowncount(c, f) == TruncDiv(c * f[1], f[2])

\* GetTicks()
Ticks == IF sane THEN timer ELSE timer + slice - DowncountToCycles(downcount)

Larger(a, b) == IF a > b THEN a ELSE b
Smaller(a, b) == IF a < b THEN a ELSE b

\* operator< on events.
Before(e, f) == e.time < f.time \/ (e.time = f.time /\ e.fifo < f.fifo)

\* An event carries two facts about its history: its place in the order of
\* additions to the queue, and the ticks by which the current slice must end
\* for it (none while Advance() has not seen it).
NoLimit == {}

\* std::push_heap
PushHeap(q, e) ==
  LET k == Cardinality({i \in DOMAIN q : ~Before(e, q[i])})
  IN  SubSeq(q, 1, k) \o <<e>> \o SubSeq(q, k + 1, Len(q))

\* The heap q after some of the events of s, those at the given places, were
\* pushed one after the other.
PushEach(q, s, places) ==
  LET heap[n \in 0 .. Len(s)] ==
        IF n = 0 THEN q
        ELSE IF n \in places THEN PushHeap(heap[n - 1], s[n]) ELSE heap[n - 1]
  IN  heap[Len(s)]

\* Fault: events of other threads keep the order number they came with.
MoveEventsUnnumbered(q, id, n) ==
  [queue |-> PushEach(q,
               [i \in DOMAIN tsQueue |->
                 [time |-> tsQueue[i].time, type |-> tsQueue[i].type,
                  fifo |-> 0, nth |-> n + i, limit |-> NoLimit]],
               DOMAIN tsQueue),
   fifoId |-> id + Len(tsQueue), added |-> n + Len(tsQueue)]

\* MoveEvents(): the event queue, s_event_fifo_id and the count afterwards.
MoveEvents(q, id, n) ==
  [queue |-> PushEach(q,
               [i \in DOMAIN tsQueue |->
                 [time |-> tsQueue[i].time, type |-> tsQueue[i].type,
                  fifo |-> id + i - 1, nth |-> n + i, limit |-> NoLimit]],
               DOMAIN tsQueue),
   fifoId |-> id + Len(tsQueue), added |-> n + Len(tsQueue)]
-----------------------------------------------------------------------------
\* Init(), at the boundary before the first slice.
StartUp(f) ==
  [timer |-> 0, slice |-> MaxSliceLength, downcount |-> CyclesToDowncount(MaxSliceLength, f)]

Init ==
  \E f \in Factors :
    /\ queue = <<>> /\ fifoId = 0 /\ tsQueue = <<>> /\ offThread = <<>>
    /\ timer = StartUp(f).timer /\ slice = StartUp(f).slice
    /\ downcount = StartUp(f).downcount
    /\ factor = f /\ sane = TRUE
    /\ pc = "slice" /\ added = 0 /\ saved = <<>> /\ inOrder = TRUE

\* Code of the CPU thread may call in: between blocks, or from a callback.
OnCPU == pc \in {"slice", "callback"}

\* The CPU runs a block of n cycles; the first slice begins with Advance().
Execute(n) ==
  /\ pc = "slice" /\ ~sane /\ downcount > 0
  /\ downcount' = downcount - n
  /\ UNCHANGED <<queue, fifoId, tsQueue, offThread, timer, slice, factor, sane, pc,
                 added, inOrder, saved>>

\* ForceExceptionCheck(): the slice and the downcount afterwards.
Shortened(n) ==
  LET left == DowncountToCycles(downcount)
      cycles == Larger(0, n)
  IN  IF left > cycles
        THEN [slice |-> slice - (left - cycles), downcount |-> CyclesToDowncount(cycles, factor)]
        ELSE [slice |-> slice, downcount |-> downcount]

\* A call from a callback is left out: Advance() overwrites both when it ends,
\* since an event is always pending (the next one of the video interface).
ForceExceptionCheck(n) ==
  /\ pc = "slice"
  /\ slice' = Shortened(n).slice /\ downcount' = Shortened(n).downcount
  /\ UNCHANGED <<queue, fifoId, tsQueue, offThread, timer, factor, sane, pc, added, inOrder, saved>>

\* Fault: an event that is due inside the slice does not shorten it.
ScheduleEventNoForce(d, type) ==
  /\ OnCPU /\ added + Len(tsQueue) + Len(offThread) < MaxEvents
  /\ queue' = PushHeap(queue, [time |-> Ticks + d, type |-> type, fifo |-> fifoId,
                               nth |-> added + 1, limit |-> {Larger(Ticks, Ticks + d)}])
  /\ fifoId' = fifoId + 1 /\ added' = added + 1
  /\ UNCHANGED <<tsQueue, offThread, clock, pc, inOrder, saved>>

\* ScheduleEvent() from the CPU thread.
ScheduleEvent(d, type) ==
  /\ OnCPU /\ added + Len(tsQueue) + Len(offThread) < MaxEvents
  /\ queue' = PushHeap(queue, [time |-> Ticks + d, type |-> type, fifo |-> fifoId,
                               nth |-> added + 1, limit |-> {Larger(Ticks, Ticks + d)}])
  /\ fifoId' = fifoId + 1 /\ added' = added + 1
  /\ slice' = IF sane THEN slice ELSE Shortened(d).slice
  /\ downcount' = IF sane THEN downcount ELSE Shortened(d).downcount
  /\ UNCHANGED <<tsQueue, offThread, timer, factor, sane, pc, inOrder, saved>>

\* ScheduleEvent() from another thread: it holds s_ts_write_lock, reads the
\* clock without any protection and pushes the event some time later.
OffThreadRead(d, type) ==
  /\ pc # "off" /\ offThread = <<>>
  /\ added + Len(tsQueue) < MaxEvents
  /\ offThread' = <<[time |-> timer + d, type |-> type]>>
  /\ UNCHANGED <<queue, fifoId, tsQueue, clock, pc, added, inOrder, saved>>

OffThreadPush ==
  /\ offThread # <<>>
  /\ tsQueue' = tsQueue \o offThread
  /\ offThread' = <<>>
  /\ UNCHANGED <<queue, fifoId, clock, pc, added, inOrder, saved>>

\* RemoveEvent() leaves the heap alone when there is nothing to remove.
Remaining(q, type) ==
  LET rest == {i \in DOMAIN q : q[i].type # type}
  IN  IF rest = DOMAIN q THEN q ELSE PushEach(<<>>, q, rest)

RemoveEvent(type) ==
  /\ OnCPU
  /\ queue' = Remaining(queue, type)
  /\ UNCHANGED <<fifoId, tsQueue, offThread, clock, pc, added, inOrder, saved>>

RemoveAllEvents(type) ==
  LET moved == MoveEvents(queue, fifoId, added)
  IN  /\ OnCPU
      /\ queue' = Remaining(moved.queue, type)
      /\ fifoId' = moved.fifoId /\ added' = moved.added
      /\ tsQueue' = <<>>
      /\ UNCHANGED <<offThread, clock, pc, inOrder, saved>>

\* Idle(), called from the code of a block (s_idled_cycles is a statistic).
Idle ==
  /\ pc = "slice" /\ ~sane /\ downcount > 0
  /\ downcount' = 0
  /\ UNCHANGED <<queue, fifoId, tsQueue, offThread, timer, slice, factor, sane, pc, added,
                 inOrder, saved>>

\* AdjustEventQueueTimes(), from the callback that reloads the console's
\* firmware in GameCube mode.
AdjustEventQueueTimes(ratio) ==
  LET scaled(t) == timer + TruncDiv((t - timer) * ratio[1], ratio[2])
  IN  /\ pc = "callback"
      /\ queue' = [i \in DOMAIN queue |->
                    [queue[i] EXCEPT !.time = scaled(@), !.limit = NoLimit]]
      /\ inOrder' = FALSE
      /\ UNCHANGED <<fifoId, tsQueue, offThread, clock, pc, added, saved>>
-----------------------------------------------------------------------------
(***************************************************************************)
(* Advance()                                                               *)
(***************************************************************************)
\* Fault: the cycles are converted with the new factor of the overclock.
AdvanceBeginNewFactor(f) ==
  LET moved == MoveEvents(queue, fifoId, added)
  IN  /\ pc = "slice" /\ timer <= MaxTicks
      /\ queue' = moved.queue /\ fifoId' = moved.fifoId /\ added' = moved.added
      /\ tsQueue' = <<>>
      /\ timer' = timer + slice - TruncDiv(downcount * f[2], f[1])
      /\ factor' = f
      /\ slice' = MaxSliceLength
      /\ sane' = TRUE
      /\ pc' = "loop"
      /\ UNCHANGED <<offThread, downcount, inOrder, saved>>

AdvanceBegin(f) ==
  LET moved == MoveEvents(queue, fifoId, added)
  IN  /\ pc = "slice" /\ timer <= MaxTicks
      /\ queue' = moved.queue /\ fifoId' = moved.fifoId /\ added' = moved.added
      /\ tsQueue' = <<>>
      /\ timer' = timer + slice - DowncountToCycles(downcount)
      /\ factor' = f
      /\ slice' = MaxSliceLength
      /\ sane' = TRUE
      /\ pc' = "loop"
      /\ UNCHANGED <<offThread, downcount, inOrder, saved>>

\* The front event is removed and its callback starts; what the callback does
\* are the steps of the CPU until the next event or the end of the loop.
Dispatch ==
  /\ pc \in {"loop", "callback"}
  /\ queue # <<>> /\ Head(queue).time <= timer
  /\ queue' = Tail(queue)
  /\ pc' = "callback"
  /\ UNCHANGED <<fifoId, tsQueue, offThread, clock, added, inOrder, saved>>

AdvanceEnd ==
  /\ pc \in {"loop", "callback"}
  /\ queue # <<>> => Head(queue).time > timer
  /\ LET length == IF queue = <<>> THEN slice
                   ELSE Smaller(Head(queue).time - timer, MaxSliceLength)
     IN  slice' = length /\ downcount' = CyclesToDowncount(length, factor)
  /\ queue' = [i \in DOMAIN queue |-> [queue[i] EXCEPT !.limit = {queue[i].time}]]
  /\ sane' = FALSE
  /\ pc' = "slice"
  /\ UNCHANGED <<fifoId, tsQueue, offThread, timer, factor, added, inOrder, saved>>
-----------------------------------------------------------------------------
(***************************************************************************)
(* DoState() and the end and restart of an emulation, with s_ts_write_lock *)
(* held and the CPU between two blocks; states are saved of a console that *)
(* runs.  One state is saved, early and in order, which bounds the model.  *)
(***************************************************************************)
Save ==
  LET moved == MoveEvents(queue, fifoId, added)
  IN  /\ saved = <<>> /\ inOrder /\ timer <= MaxSaveTicks
      /\ pc = "slice" /\ ~sane /\ offThread = <<>>
      /\ saved' = <<[clock |-> clock, fifoId |-> fifoId, queue |-> moved.queue]>>
      /\ queue' = moved.queue /\ fifoId' = moved.fifoId /\ added' = moved.added
      /\ tsQueue' = <<>>
      /\ UNCHANGED <<offThread, clock, pc, inOrder>>

Load ==
  /\ saved # <<>> /\ pc = "slice" /\ offThread = <<>>
  /\ LET state == saved[1]
     IN  /\ timer' = state.clock[1] /\ slice' = state.clock[2]
         /\ downcount' = state.clock[3] /\ factor' = state.clock[4]
         /\ sane' = sane
         /\ fifoId' = state.fifoId + Len(tsQueue)
         /\ queue' = PushEach(<<>>, state.queue, DOMAIN state.queue)
  /\ tsQueue' = <<>>
  /\ saved' = <<>> /\ inOrder' = FALSE
  /\ UNCHANGED <<offThread, pc, added>>

Shutdown ==
  /\ pc = "slice" /\ offThread = <<>>
  /\ queue' = <<>> /\ tsQueue' = <<>>
  /\ fifoId' = fifoId + Len(tsQueue) /\ added' = added + Len(tsQueue)
  /\ pc' = "off"
  /\ UNCHANGED <<offThread, clock, inOrder, saved>>

Restart(f) ==
  /\ pc = "off"
  /\ timer' = StartUp(f).timer /\ slice' = StartUp(f).slice
  /\ downcount' = StartUp(f).downcount
  /\ factor' = f /\ sane' = TRUE
  /\ fifoId' = 0
  /\ pc' = "slice"
  /\ inOrder' = TRUE
  /\ UNCHANGED <<queue, tsQueue, offThread, added, saved>>
-----------------------------------------------------------------------------
Next ==
  \/ \E n \in 1 .. MaxBlock : Execute(n)
  \/ \E n \in Delays : ForceExceptionCheck(n)
  \/ \E d \in Delays, type \in Types : ScheduleEvent(d, type)
  \/ \E d \in OffThreadDelays, type \in Types : OffThreadRead(d, type)
  \/ OffThreadPush
  \/ \E type \in Types : RemoveEvent(type) \/ RemoveAllEvents(type)
  \/ Idle
  \/ \E ratio \in ClockRatios : AdjustEventQueueTimes(ratio)
  \/ \E f \in Factors : AdvanceBegin(f) \/ Restart(f)
  \/ Dispatch \/ AdvanceEnd
  \/ Save \/ Load \/ Shutdown

Spec == Init /\ [][Next]_vars
-----------------------------------------------------------------------------
\* Types; in particular the length of a slice stays between 0 and
\* MAX_SLICE_LENGTH, whatever ForceExceptionCheck() takes off it.
TypeOK ==
  /\ \A i \in DOMAIN queue : queue[i].time \in Int /\ queue[i].type \in Types
  /\ fifoId \in Nat /\ added \in 0 .. MaxEvents
  /\ timer \in Int /\ slice \in 0 .. MaxSliceLength
  /\ downcount \in Int
  /\ factor \in Factors /\ sane \in BOOLEAN
  /\ pc \in {"slice", "loop", "callback", "off"}

\* ScheduleEvent() and Advance() together, through every rounding of the
\* overclocking factors: the slice never runs past an event that the CPU
\* scheduled or Advance() has seen (past the present, if it was already due).
SliceEndsInTime ==
  pc = "slice" /\ ~sane => \A i \in DOMAIN queue : \A t \in queue[i].limit : timer + slice <= t

\* The comment on operator<: the next event is the earliest one and, among
\* those of the same time, the one that was added to the queue first, as
\* long as AdjustEventQueueTimes() and a load have not made ties of events
\* or taken s_event_fifo_id back.
FirstComesFirst ==
  inOrder =>
    \A i \in DOMAIN queue :
      \/ queue[1].time < queue[i].time
      \/ queue[1].time = queue[i].time /\ queue[1].nth <= queue[i].nth

\* GetTicks() never goes back: not when a slice is cut short, not when the
\* overclocking factor changes, not at the edges of Advance().
TicksNeverGoBack == [][Ticks' >= Ticks \/ pc = "off" \/ Load]_vars
=============================================================================
