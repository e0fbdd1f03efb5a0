-------------------------------- MODULE IPC ---------------------------------
(***************************************************************************)
(* The mailbox between the game and IOS (Core/HW/WII_IPC.cpp) and the      *)
(* queues of the IOS kernel behind it (Core/IOS/IOS.cpp).  A request is    *)
(* acknowledged and executed when the mailbox is free; its reply is        *)
(* written to the mailbox when that is free again.  Nothing polls: the     *)
(* queues move when the game writes a register or an event is due.         *)
(*                                                                         *)
(* All of it runs on the CPU thread, so registers, queues and events are   *)
(* one record, and what the code calls are functions from record to        *)
(* record.  Only devices reply from threads of their own.  Time is counted *)
(* in units of the 1000 cycles that a request takes.                       *)
(***************************************************************************)
EXTENDS Integers, SequencesExt

CONSTANTS
  Commands,  \* requests (their addresses) that a device answers at once
  Hooks,     \* requests that a device answers when it has something to say
  Reloads,   \* requests that boot another IOS
  Delays,    \* the reply_delay_ticks of the devices
  MaxEvents  \* bound on the events that are pending when the game writes

Requests == Commands \cup Hooks \cup Reloads
\* The message of the acknowledgement that a new IOS sends.
Dummy == 0

ASSUME IPCAssumption ==
  /\ Dummy \notin Requests
  /\ Commands \cap Hooks = {} /\ (Commands \cup Hooks) \cap Reloads = {}
  /\ Delays \subseteq Nat /\ Delays # {} /\ MaxEvents \in Nat \ {0}

VARIABLE
  k  \* y1, y2:     ctrl.Y1 (reply in arm_msg) and ctrl.Y2 (acknowledged)
     \* iy:         ctrl.IY1 and ctrl.IY2
     \* arm:        arm_msg
     \* flag, mask: INT_CAUSE_IPC_BROADWAY in ppc_irq_flags and ppc_irq_masks
     \* pi:         INT_CAUSE_WII_IPC
     \* requests, replies, acks: the queues
     \* last:       the time until m_last_reply_time
     \* events:     those of CoreTiming, in the order in which they come
     \* state, due: history: what became of each request, and the commands
     \*             that were executed and whose replies were not read

Init ==
  k = [y1 |-> FALSE, y2 |-> FALSE, iy |-> FALSE, arm |-> Dummy,
       flag |-> FALSE, mask |-> TRUE, pi |-> FALSE,
       requests |-> <<>>, replies |-> <<>>, acks |-> <<>>, last |-> 0,
       events |-> <<[left |-> 0, what |-> "ack", msg |-> Dummy]>>,
       state |-> [r \in Requests |-> "idle"], due |-> <<>>]
-----------------------------------------------------------------------------
(***************************************************************************)
(* CoreTiming and WII_IPC.cpp                                              *)
(***************************************************************************)
Event(left, what, msg) == [left |-> left, what |-> what, msg |-> msg]

\* The events of batch come one after the other, after all that are not later.
Insert(events, left, batch) ==
  LET n == Cardinality({i \in DOMAIN events : events[i].left <= left})
  IN  SubSeq(events, 1, n) \o batch \o SubSeq(events, n + 1, Len(events))

ScheduleEvent(s, left, what, msg) ==
  [s EXCEPT !.events = Insert(@, left, <<Event(left, what, msg)>>)]

\* RemoveAllEvents() of the events of a kernel leaves those of WII_IPC.cpp.
RemoveAllEvents(events) ==
  LET kept[n \in 0 .. Len(events)] ==
        IF n = 0 THEN <<>>
        ELSE IF events[n].what = "ints" THEN Append(kept[n - 1], events[n]) ELSE kept[n - 1]
  IN  kept[Len(events)]

ScheduleInterrupts(s, left) == ScheduleEvent(s, left, "ints", Dummy)

UpdateInterrupts(s) ==
  LET flag == s.flag \/ ((s.y1 \/ s.y2) /\ s.iy)
  IN  [s EXCEPT !.flag = flag, !.pi = flag /\ s.mask]

GenerateAck(s, msg) == ScheduleInterrupts([s EXCEPT !.arm = msg, !.y2 = TRUE], 1)

GenerateReply(s, msg) == UpdateInterrupts([s EXCEPT !.arm = msg, !.y1 = TRUE])

IsReady(s) == ~s.y1 /\ ~s.y2 /\ ~s.flag

\* Reset() of the registers
InitState(s) ==
  [s EXCEPT !.y1 = FALSE, !.y2 = FALSE, !.iy = FALSE, !.arm = Dummy, !.flag = FALSE, !.mask = TRUE]
-----------------------------------------------------------------------------
(***************************************************************************)
(* The kernel.                                                             *)
(***************************************************************************)
Open(s) == {r \in Hooks : s.state[r] = "open"}

\* What depends on the devices: how long an answer takes, and which of them
\* answer, in which order, while their kernel is taken down.
Outcomes(s) ==
  [delay : Delays, late : {q \in SeqOf(Open(s), Cardinality(Open(s))) : IsInjective(q)}]

EnqueueIPCReply(s, msg, left) ==
  ScheduleEvent([s EXCEPT !.state[msg] = "answered"], left, "reply", msg)

NewKernel(s) ==
  [s EXCEPT !.requests = <<>>, !.replies = <<>>, !.acks = <<>>, !.last = 0, !.due = <<>>,
            !.state = [r \in Requests |-> "idle"]]

\* The devices are closed after the events of their kernel were removed; one
\* that answers in between leaves an event for the next kernel.
LateReplies(s, late) ==
  [s EXCEPT !.state = [r \in Requests |-> IF r \in Range(late) THEN "orphan" ELSE @[r]],
            !.events = Insert(@, 0, [i \in DOMAIN late |-> Event(0, "reply", late[i])])]

\* Fault: the events of the old kernel come to the new one.
BootIOSKeepsEvents(s, late) == ScheduleEvent(NewKernel(s), 0, "ack", Dummy)

\* The old kernel goes with its queues and events, and what it had to do is
\* not done any more; the new one sends a dummy acknowledgement.
BootIOS(s, late) ==
  LET new == NewKernel([s EXCEPT !.events = RemoveAllEvents(@)])
  IN  ScheduleEvent(LateReplies(new, late), 0, "ack", Dummy)

\* Fault: a reply may overtake an earlier one.
ReplyToCommandAtOnce(s, msg, delay) ==
  EnqueueIPCReply([s EXCEPT !.last = delay, !.due = Append(@, msg)], msg, delay)

\* "Ensure replies happen in order"
ReplyToCommand(s, msg, delay) ==
  EnqueueIPCReply([s EXCEPT !.last = @ + delay, !.due = Append(@, msg)], msg, s.last + delay)

ExecuteIPCCommand(s, msg, o) ==
  CASE msg \in Commands -> ReplyToCommand(s, msg, o.delay)
    [] msg \in Hooks    -> [s EXCEPT !.state[msg] = "open"]
    [] msg \in Reloads  -> BootIOS(s, o.late)

UpdateIPC(s, o) ==
  CASE IsReady(s) /\ s.requests # <<>> ->
         LET msg == s.requests[1]
         IN  ExecuteIPCCommand(GenerateAck([s EXCEPT !.requests = Tail(@)], msg), msg, o)
    [] IsReady(s) /\ s.requests = <<>> /\ s.replies # <<>> ->
         GenerateReply([s EXCEPT !.replies = Tail(@)], s.replies[1])
    [] IsReady(s) /\ s.requests = <<>> /\ s.replies = <<>> /\ s.acks # <<>> ->
         GenerateAck([s EXCEPT !.acks = Tail(@)], s.acks[1])
    [] OTHER -> s

HandleIPCEvent(s, e, o) ==
  UpdateIPC(CASE e.what = "request" -> [s EXCEPT !.requests = Append(@, e.msg)]
              [] e.what = "reply"   -> [s EXCEPT !.replies = Append(@, e.msg)]
              [] e.what = "ack"     -> [s EXCEPT !.acks = Append(@, e.msg)],
            o)
-----------------------------------------------------------------------------
(***************************************************************************)
(* The game writes registers; it answers an interrupt in any order.        *)
(***************************************************************************)
\* What every write ends with.
Wrote(s) ==
  /\ Len(k.events) < MaxEvents
  /\ \E o \in Outcomes(s) : k' = ScheduleInterrupts(UpdateIPC(s, o), 0)

\* PPC_IRQMASK: setting the bit resets the registers ("wtf?"), so that the
\* game does it before it uses them.
WriteIRQMask(on) ==
  /\ ~k.iy
  /\ \A r \in Requests : k.state[r] = "idle"
  /\ Wrote(IF on THEN InitState(k) ELSE [k EXCEPT !.mask = FALSE])

\* IPC_PPCCTRL, to enable the interrupts,
EnableInterrupts == ~k.iy /\ k.mask /\ Wrote([k EXCEPT !.iy = TRUE])

\* with X1, for a request that is not under way, which IPC_PPCMSG points to,
Send(r) ==
  /\ k.iy /\ k.state[r] = "idle"
  /\ Wrote(ScheduleEvent([k EXCEPT !.state[r] = "sent"], 1, "request", r))

\* with Y1, when it has read the reply that IPC_ARMMSG points to,
TakeReply ==
  /\ k.pi /\ k.y1
  /\ Wrote([k EXCEPT !.y1 = FALSE, !.state[k.arm] = "idle",
                     !.due = IF @ # <<>> /\ @[1] = k.arm THEN Tail(@) ELSE @])

\* with Y2, for an acknowledgement.
TakeAck == k.pi /\ k.y2 /\ Wrote([k EXCEPT !.y2 = FALSE])

\* Fault: the kernel is not told that it may go on.
WriteIRQFlagSilent == k.pi /\ k.flag /\ k' = ScheduleInterrupts([k EXCEPT !.flag = FALSE], 0)

\* PPC_IRQFLAG
WriteIRQFlag == k.pi /\ k.flag /\ Wrote([k EXCEPT !.flag = FALSE])
-----------------------------------------------------------------------------
(***************************************************************************)
(* Events, devices and time.                                               *)
(***************************************************************************)
RunEvent ==
  LET e == k.events[1]
      s == [k EXCEPT !.events = Tail(@)]
  IN  /\ k.events # <<>> /\ e.left = 0
      /\ IF e.what = "ints" THEN k' = UpdateInterrupts(s)
         ELSE \E o \in Outcomes(s) : k' = HandleIPCEvent(s, e, o)

\* A device answers a hook, from its own thread.
DeviceReply(r) == k.state[r] = "open" /\ k' = EnqueueIPCReply(k, r, 0)

Tick ==
  /\ \A i \in DOMAIN k.events : k.events[i].left > 0
  /\ k.events # <<>> \/ k.last > 0
  /\ k' = [k EXCEPT !.events = [i \in DOMAIN @ |-> Event(@[i].left - 1, @[i].what, @[i].msg)],
                    !.last = IF @ > 0 THEN @ - 1 ELSE 0]
-----------------------------------------------------------------------------
Handler == TakeReply \/ TakeAck \/ WriteIRQFlag

Next ==
  \/ \E on \in BOOLEAN : WriteIRQMask(on)
  \/ EnableInterrupts
  \/ \E r \in Requests : Send(r)
  \/ Handler
  \/ RunEvent \/ Tick
  \/ \E r \in Hooks : DeviceReply(r)

\* The game has a handler for its interrupt, which deals with all of its
\* causes; emulated time goes on and events come when they are due.
Fairness ==
  /\ SF_k(TakeReply) /\ SF_k(TakeAck) /\ SF_k(WriteIRQFlag)
  /\ WF_k(RunEvent) /\ WF_k(Tick)

Spec == Init /\ [][Next]_k /\ Fairness
-----------------------------------------------------------------------------
\* What waits in q and then in the events of a kind, by place: the order of
\* the places is that in which it will be dealt with.
Line(q, events, what) ==
  LET pending == {i \in DOMAIN events : events[i].what = what}
  IN  [p \in DOMAIN q \cup {Len(q) + i : i \in pending} |->
         IF p \in DOMAIN q THEN q[p] ELSE events[p - Len(q)].msg]

\* The replies in the mailbox and behind it.
Replies(s) == Line(IF s.y1 THEN <<s.arm>> \o s.replies ELSE s.replies, s.events, "reply")

IPCEvents ==
  [left : Nat, what : {"request", "reply"}, msg : Requests]
    \cup [left : Nat, what : {"ack", "ints"}, msg : {Dummy}]

Kernels ==
  [y1 : BOOLEAN, y2 : BOOLEAN, iy : BOOLEAN, arm : Requests \cup {Dummy},
   flag : BOOLEAN, mask : BOOLEAN, pi : BOOLEAN,
   requests : Seq(Requests), replies : Seq(Requests), acks : Seq({Dummy}), last : Nat,
   events : Seq(IPCEvents),
   state : [Requests -> {"idle", "sent", "open", "answered", "orphan"}], due : Seq(Commands)]

TypeOK == k \in Kernels

\* Every reply is in one place, the mailbox, the queue or an event, until the
\* game has read it: none is overwritten in the mailbox, none comes twice,
\* and none comes from a kernel that is gone, except those of devices that
\* answered while it was taken down.
EachReplyOnce ==
  /\ IsInjective(Replies(k))
  /\ Range(Replies(k)) = {r \in Requests : k.state[r] \in {"answered", "orphan"}}

\* The replies to commands arrive in the order in which they were executed,
\* whatever their delays, though those of hooks may come in between.
RepliesInOrder ==
  LET line == Replies(k)
  IN  /\ IsInjective(k.due) /\ Range(k.due) = Range(line) \cap Commands
      /\ \A i, j \in DOMAIN k.due : \A p, q \in DOMAIN line :
           i < j /\ line[p] = k.due[i] /\ line[q] = k.due[j] => p < q

\* Every request is dealt with and its reply read, whatever else the game
\* asks for, although UpdateIPC() is called for writes and events only: a
\* mailbox that becomes free never goes unnoticed.  Hooks may stay open.
RequestsServed ==
  \A r \in Requests : (k.state[r] \in {"sent", "answered", "orphan"}) ~> (k.state[r] \in {"idle", "open"})
=============================================================================
