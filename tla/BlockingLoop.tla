---------------------------- MODULE BlockingLoop ----------------------------
(***************************************************************************)
(* Common::BlockingLoop (Common/BlockingLoop.h): one worker thread runs a  *)
(* payload, any other thread asks for a new run with Wakeup(), waits for   *)
(* the work to be done with Wait(), and starts and stops the loop with     *)
(* Prepare() and Stop().  m_running_state is a counter that Wakeup() sets  *)
(* to NEED and the worker decrements, without a lock on either side, so    *)
(* every load, exchange and decrement is a step of its own.                *)
(*                                                                         *)
(* The two Common::Event members are used at the level of AutoResetEvent,  *)
(* which Event.tla is shown to implement.                                  *)
(***************************************************************************)
EXTENDS Naturals

CONSTANTS
  Clients,      \* the threads that call everything but Run()
  Worker,       \* the thread that calls Run()
  None,         \* the owner of a free mutex
  Calls,        \* the calls that each client makes
  SelfPrepare,  \* Run() may be called before anyone called Prepare()
  TimedSleep    \* Run() was given a timeout

Threads == Clients \cup {Worker}
StopModes == {"kNonBlock", "kBlock", "kBlockAndGiveUp"}
AllCalls == StopModes \cup {"Wakeup", "Wait", "WaitYield", "Prepare", "AllowSleep"}

ASSUME LoopAssumption ==
  /\ Worker \notin Clients
  /\ None \notin Threads
  /\ Calls \in [Clients -> SUBSET AllCalls]
  /\ SelfPrepare \in BOOLEAN
  /\ TimedSleep \in BOOLEAN

SLEEPING == 0
DONE     == 1
LAST     == 2
NEED     == 3

VARIABLES
  state,      \* m_running_state
  stopped,    \* m_stopped
  shutdown,   \* m_shutdown
  maySleep,   \* m_may_sleep
  newWork,    \* m_new_work_event is signalled
  doneEvent,  \* m_done_event is signalled
  waitLock,   \* the owner of m_wait_lock
  prepLock,   \* the owner of m_prepare_lock
  pc,         \* where each thread is
  call,       \* the call each client is executing, or "none"
  owed,       \* clients whose latest request no payload run has started on
  serving     \* clients whose request the current payload run started on

flags  == <<stopped, shutdown, maySleep>>
events == <<newWork, doneEvent>>
locks  == <<waitLock, prepLock>>
work   == <<owed, serving>>
vars   == <<state, flags, events, locks, pc, call, work>>

WakeupPCs == {"wk_load", "wk_xchg", "wk_event"}
PrepPCs   == {"prep_test", "prep_store", "prep_clear", "prep_allow"}
WaitPCs   == {"is_stopped", "is_state", "wait_lock", "wait_event", "wait_allow"}
StopPCs   == {"stop_test", "stop_set"}
ClientPCs == {"idle"} \cup WakeupPCs \cup PrepPCs \cup WaitPCs \cup StopPCs
ExitPCs   == {"exit_state", "exit_stop", "exit_event"}
WorkerPCs == {"out", "top", "payload", "switch", "dec_need", "dec_last", "set_done",
              "try_sleep", "dec_done", "sleep"} \cup PrepPCs \cup ExitPCs

\* m_running_state has no initializer.  A value outside the enumeration acts
\* on every test of it like one of the four inside.
Init ==
  /\ state \in SLEEPING .. NEED
  /\ stopped = TRUE /\ shutdown = FALSE /\ maySleep = FALSE
  /\ newWork = FALSE /\ doneEvent = FALSE
  /\ waitLock = None /\ prepLock = None
  /\ pc = [t \in Threads |-> IF t = Worker THEN "out" ELSE "idle"]
  /\ call = [c \in Clients |-> "none"]
  /\ owed = {} /\ serving = {}

Goto(t, from, to) == pc[t] = from /\ pc' = [pc EXCEPT ![t] = to]

\* The destructor is Stop(kBlockAndGiveUp); it is nobody's while another
\* client is inside a call, and nobody calls during or after it.
Alive == \A c \in Clients : call[c] # "kBlockAndGiveUp"
-----------------------------------------------------------------------------
(***************************************************************************)
(* Calls: the request for new work is placed just before Wakeup().         *)
(***************************************************************************)
EntryPC(what) ==
  CASE what = "Wakeup"               -> "wk_load"
    [] what \in {"Wait","WaitYield"} -> "is_stopped"
    [] what = "Prepare"              -> "prep_test"
    [] OTHER                         -> "stop_test"

Begin(c, what) ==
  /\ Alive /\ what \in Calls[c] \ {"AllowSleep"}
  /\ what = "kBlockAndGiveUp" => \A d \in Clients : call[d] = "none"
  /\ Goto(c, "idle", EntryPC(what))
  /\ call' = [call EXCEPT ![c] = what]
  /\ owed' = IF what = "Wakeup" THEN owed \cup {c} ELSE owed
  /\ UNCHANGED <<state, flags, events, locks, serving>>

AllowSleep(c) ==
  /\ Alive /\ pc[c] = "idle" /\ "AllowSleep" \in Calls[c]
  /\ maySleep' = TRUE
  /\ UNCHANGED <<state, stopped, shutdown, events, locks, pc, call, work>>

\* The end of a call; a destroyed object stays destroyed.
Return(c, from) ==
  /\ Goto(c, from, "idle")
  /\ call' = [call EXCEPT ![c] = IF @ = "kBlockAndGiveUp" THEN @ ELSE "none"]

\* Wakeup() returns to its caller, or to the Stop() that called it.
LeaveWakeup(c, from) ==
  IF call[c] \in {"kBlock", "kBlockAndGiveUp"}
    THEN Goto(c, from, "is_stopped") /\ UNCHANGED call
    ELSE Return(c, from)
-----------------------------------------------------------------------------
(***************************************************************************)
(* Wakeup()                                                                *)
(***************************************************************************)
\* Fault: a worker in its last run is taken to be running anyway.
WakeupLoadTooEager(c) ==
  /\ IF state >= LAST THEN LeaveWakeup(c, "wk_load")
                      ELSE Goto(c, "wk_load", "wk_xchg") /\ UNCHANGED call
  /\ UNCHANGED <<state, flags, events, locks, work>>

WakeupLoad(c) ==
  /\ IF state >= NEED THEN LeaveWakeup(c, "wk_load")
                      ELSE Goto(c, "wk_load", "wk_xchg") /\ UNCHANGED call
  /\ UNCHANGED <<state, flags, events, locks, work>>

\* Fault: the event is only set for a worker that is not yet asleep.
WakeupExchangeNoEvent(c) ==
  /\ LeaveWakeup(c, "wk_xchg")
  /\ state' = NEED
  /\ UNCHANGED <<flags, events, locks, work>>

WakeupExchange(c) ==
  /\ IF state = SLEEPING THEN Goto(c, "wk_xchg", "wk_event") /\ UNCHANGED call
                         ELSE LeaveWakeup(c, "wk_xchg")
  /\ state' = NEED
  /\ UNCHANGED <<flags, events, locks, work>>

WakeupEvent(c) ==
  /\ LeaveWakeup(c, "wk_event")
  /\ newWork' = TRUE
  /\ UNCHANGED <<state, flags, doneEvent, locks, work>>

Wakeup(c) == WakeupLoad(c) \/ WakeupExchange(c) \/ WakeupEvent(c)
-----------------------------------------------------------------------------
(***************************************************************************)
(* Wait() and WaitYield().  IsDone() is two loads; it is called without    *)
(* m_wait_lock on entry and with it in the loop.                           *)
(***************************************************************************)
LeaveIsDone(c, from) ==
  IF waitLock = c THEN Goto(c, from, "wait_allow") /\ UNCHANGED call
                  ELSE Return(c, from)

IsDoneStopped(c) ==
  /\ IF stopped THEN LeaveIsDone(c, "is_stopped")
                ELSE Goto(c, "is_stopped", "is_state") /\ UNCHANGED call
  /\ UNCHANGED <<state, flags, events, locks, work>>

IsDoneState(c) ==
  /\ IF state <= DONE
       THEN LeaveIsDone(c, "is_state")
       ELSE /\ Goto(c, "is_state", IF waitLock = c THEN "wait_event" ELSE "wait_lock")
            /\ UNCHANGED call
  /\ UNCHANGED <<state, flags, events, locks, work>>

WaitLock(c) ==
  /\ waitLock = None
  /\ Goto(c, "wait_lock", "is_stopped")
  /\ waitLock' = c
  /\ UNCHANGED <<state, flags, events, prepLock, call, work>>

WaitEvent(c) ==
  /\ doneEvent
  /\ Goto(c, "wait_event", "is_stopped")
  /\ doneEvent' = FALSE
  /\ UNCHANGED <<state, flags, newWork, locks, call, work>>

\* WaitFor() timed out: the yield function of Stop() forces a break, the one
\* of Fifo.cpp only keeps the user interface alive.
WaitYield(c) ==
  /\ call[c] \in {"WaitYield", "kBlockAndGiveUp"}
  /\ ~doneEvent
  /\ Goto(c, "wait_event", "is_stopped")
  /\ stopped' = (stopped \/ call[c] = "kBlockAndGiveUp")
  /\ UNCHANGED <<state, shutdown, maySleep, events, locks, call, work>>

WaitAllow(c) ==
  /\ Return(c, "wait_allow")
  /\ maySleep' = TRUE
  /\ waitLock' = None
  /\ UNCHANGED <<state, stopped, shutdown, events, prepLock, work>>

Wait(c) ==
  IsDoneStopped(c) \/ IsDoneState(c) \/ WaitLock(c) \/ WaitEvent(c) \/ WaitAllow(c)
-----------------------------------------------------------------------------
(***************************************************************************)
(* Stop(): a raised m_shutdown, then Wakeup(), then Wait() or WaitYield(). *)
(***************************************************************************)
StopTest(c) ==
  /\ IF stopped THEN Return(c, "stop_test")
                ELSE Goto(c, "stop_test", "stop_set") /\ UNCHANGED call
  /\ UNCHANGED <<state, flags, events, locks, work>>

\* Fault: nobody interrupts the sleep of the worker.
StopSetNoWakeup(c) ==
  /\ LeaveWakeup(c, "stop_set")
  /\ shutdown' = TRUE
  /\ UNCHANGED <<state, stopped, maySleep, events, locks, work>>

StopSet(c) ==
  /\ Goto(c, "stop_set", "wk_load")
  /\ shutdown' = TRUE
  /\ UNCHANGED <<state, stopped, maySleep, events, locks, call, work>>

Stop(c) == StopTest(c) \/ StopSet(c)
-----------------------------------------------------------------------------
(***************************************************************************)
(* Prepare(), by a client or by the worker at the top of Run().            *)
(***************************************************************************)
LeavePrepare(t, from) ==
  IF t = Worker THEN Goto(t, from, "top") /\ UNCHANGED call ELSE Return(t, from)

PrepareTest(t) ==
  /\ prepLock = None
  /\ IF stopped
       THEN Goto(t, "prep_test", "prep_store") /\ prepLock' = t /\ UNCHANGED call
       ELSE LeavePrepare(t, "prep_test") /\ UNCHANGED prepLock
  /\ stopped' = FALSE
  /\ UNCHANGED <<state, shutdown, maySleep, events, waitLock, work>>

PrepareStore(t) ==
  /\ Goto(t, "prep_store", "prep_clear")
  /\ state' = LAST
  /\ UNCHANGED <<flags, events, locks, call, work>>

PrepareClear(t) ==
  /\ Goto(t, "prep_clear", "prep_allow")
  /\ shutdown' = FALSE
  /\ UNCHANGED <<state, stopped, maySleep, events, locks, call, work>>

PrepareAllow(t) ==
  /\ LeavePrepare(t, "prep_allow")
  /\ maySleep' = TRUE
  /\ prepLock' = None
  /\ UNCHANGED <<state, stopped, shutdown, events, waitLock, work>>

Prepare(t) == PrepareTest(t) \/ PrepareStore(t) \/ PrepareClear(t) \/ PrepareAllow(t)
-----------------------------------------------------------------------------
(***************************************************************************)
(* Run()                                                                   *)
(***************************************************************************)
Run ==
  /\ Alive /\ (SelfPrepare \/ ~stopped)
  /\ Goto(Worker, "out", "prep_test")
  /\ UNCHANGED <<state, flags, events, locks, call, work>>

LoopTest ==
  /\ Goto(Worker, "top", IF shutdown THEN "exit_state" ELSE "payload")
  /\ serving' = IF shutdown THEN serving ELSE owed
  /\ owed' = IF shutdown THEN owed ELSE {}
  /\ UNCHANGED <<state, flags, events, locks, call>>

PayloadEnd ==
  /\ Goto(Worker, "payload", "switch")
  /\ serving' = {}
  /\ UNCHANGED <<state, flags, events, locks, call, owed>>

\* Fault: a sleeping state is decremented like a finished one.
SwitchSleepDecrements ==
  /\ Goto(Worker, "switch",
          CASE state = NEED -> "dec_need"
            [] state = LAST -> "dec_last"
            [] OTHER -> "try_sleep")
  /\ UNCHANGED <<state, flags, events, locks, call, work>>

Switch ==
  /\ Goto(Worker, "switch",
          CASE state = NEED -> "dec_need"
            [] state = LAST -> "dec_last"
            [] state = DONE -> "try_sleep"
            [] OTHER -> "sleep")
  /\ UNCHANGED <<state, flags, events, locks, call, work>>

DecNeed ==
  /\ Goto(Worker, "dec_need", "top")
  /\ state' = state - 1
  /\ UNCHANGED <<flags, events, locks, call, work>>

\* Fault: a store of STATE_DONE in place of the tested decrement.
DecLastStores ==
  /\ Goto(Worker, "dec_last", "set_done")
  /\ state' = DONE
  /\ UNCHANGED <<flags, events, locks, call, work>>

DecLast ==
  /\ Goto(Worker, "dec_last", IF state = LAST THEN "set_done" ELSE "top")
  /\ state' = state - 1
  /\ UNCHANGED <<flags, events, locks, call, work>>

\* Fault: the waiters are not told.
SetDoneSilent ==
  /\ Goto(Worker, "set_done", "try_sleep")
  /\ UNCHANGED <<state, flags, events, locks, call, work>>

SetDone ==
  /\ Goto(Worker, "set_done", "try_sleep")
  /\ doneEvent' = TRUE
  /\ UNCHANGED <<state, flags, newWork, locks, call, work>>

TrySleep ==
  /\ Goto(Worker, "try_sleep", IF maySleep THEN "dec_done" ELSE "top")
  /\ maySleep' = FALSE
  /\ UNCHANGED <<state, stopped, shutdown, events, locks, call, work>>

DecDone ==
  /\ Goto(Worker, "dec_done", IF state = DONE THEN "sleep" ELSE "top")
  /\ state' = state - 1
  /\ UNCHANGED <<flags, events, locks, call, work>>

Sleep ==
  /\ newWork
  /\ Goto(Worker, "sleep", "top")
  /\ newWork' = FALSE
  /\ UNCHANGED <<state, flags, doneEvent, locks, call, work>>

SleepTimeout ==
  /\ TimedSleep /\ ~newWork
  /\ Goto(Worker, "sleep", "top")
  /\ UNCHANGED <<state, flags, events, locks, call, work>>

ExitState ==
  /\ Goto(Worker, "exit_state", "exit_stop")
  /\ state' = DONE
  /\ UNCHANGED <<flags, events, locks, call, work>>

ExitStop ==
  /\ Goto(Worker, "exit_stop", "exit_event")
  /\ stopped' = TRUE
  /\ UNCHANGED <<state, shutdown, maySleep, events, locks, call, work>>

ExitEvent ==
  /\ Goto(Worker, "exit_event", "out")
  /\ doneEvent' = TRUE
  /\ UNCHANGED <<state, flags, newWork, locks, call, work>>

WorkerStep ==
  \/ Prepare(Worker)
  \/ LoopTest \/ PayloadEnd \/ Switch \/ DecNeed \/ DecLast \/ SetDone \/ TrySleep
  \/ DecDone \/ Sleep \/ ExitState \/ ExitStop \/ ExitEvent
-----------------------------------------------------------------------------
ClientStep(c) == Wakeup(c) \/ Wait(c) \/ Stop(c) \/ Prepare(c)

Next ==
  \/ Run \/ WorkerStep \/ SleepTimeout
  \/ \E c \in Clients :
       ClientStep(c) \/ WaitYield(c) \/ AllowSleep(c) \/ \E what \in Calls[c] : Begin(c, what)

\* Every thread that is inside a call and can run is scheduled, a WaitFor() of
\* a client expires, and the thread announced by Prepare() calls Run().  Nobody
\* has to call anything else, and the worker's own timeout is not relied on.
Fairness ==
  /\ WF_vars(WorkerStep)
  /\ WF_vars(~stopped /\ Run)
  /\ \A c \in Clients : WF_vars(ClientStep(c)) /\ WF_vars(WaitYield(c))

Spec == Init /\ [][Next]_vars /\ Fairness
-----------------------------------------------------------------------------
\* The types, and the comment on m_running_state: the unlocked decrements of
\* the worker never leave the range of RUNNING_TYPE, whatever Wakeup() does.
TypeOK ==
  /\ state \in SLEEPING .. NEED
  /\ stopped \in BOOLEAN /\ shutdown \in BOOLEAN /\ maySleep \in BOOLEAN
  /\ newWork \in BOOLEAN /\ doneEvent \in BOOLEAN
  /\ waitLock \in Clients \cup {None}
  /\ prepLock \in Threads \cup {None}
  /\ pc \in [Threads -> ClientPCs \cup WorkerPCs]
  /\ pc[Worker] \in WorkerPCs
  /\ \A c \in Clients : pc[c] \in ClientPCs
  /\ call \in [Clients -> AllCalls \cup {"none"}]
  /\ owed \subseteq Clients /\ serving \subseteq Clients

\* Every request whose Wakeup() took effect has been served by a complete run.
Settled == \A c \in owed \cup serving : pc[c] \in {"wk_load", "wk_xchg"}

\* The loop is between Prepare() and its end, so IsDone() speaks of the work.
Active ==
  /\ ~stopped
  /\ \A t \in Threads : pc[t] # "prep_store"
  /\ pc[Worker] # "exit_stop"

\* Wait() returns when IsDone() finds a state of at most STATE_DONE: at that
\* point a complete payload run has followed every Wakeup() that took effect,
\* however the worker's decrements raced with the exchanges of Wakeup().
DoneMeansServed == Active /\ state <= DONE => Settled

\* Wakeup() skips the event unless it replaced STATE_SLEEPING: a worker that
\* is blocked on the event has no request waiting for it, unless some client
\* is just about to set the event.
NoLostWakeup ==
  pc[Worker] = "sleep" /\ ~newWork /\ (\E c \in owed : pc[c] \notin {"wk_load", "wk_xchg"})
    => \E c \in Clients : pc[c] = "wk_event"

\* Wakeup() "triggers to rerun the payload": a request is served by a payload
\* run that starts after it, unless the loop is being stopped.
WakeupServed ==
  \A c \in Clients : (c \in owed) ~> (c \notin owed \/ shutdown \/ stopped)

\* Wait() and WaitYield() return once the clients stop asking for more, though
\* one Set() of m_done_event wakes one waiter only.
WaitReturns ==
  <>[](\A c \in Clients : pc[c] \in {"idle"} \cup WaitPCs)
    => \A c \in Clients : (pc[c] \in WaitPCs) ~> (pc[c] \notin WaitPCs)

\* Stop() returns, and the m_shutdown it raised makes the worker leave Run(),
\* asleep or busy, unless a Prepare() in progress is about to clear it or the
\* object is destroyed under the worker.
StopQuits ==
  /\ \A c \in Clients : (call[c] = "kBlock") ~> (call[c] = "none")
  /\ (shutdown /\ prepLock = None) ~> (pc[Worker] = "out" \/ ~Alive)

-----------------------------------------------------------------------------
\* The loop as its users see it.  It is on from the end of Prepare() until
\* m_stopped or the destructor; a payload run ends with the decrement.
Prepared == Alive /\ ~stopped /\ \A t \in Threads : pc[t] \notin {"prep_store", "prep_clear"}

Loop == INSTANCE WorkLoop WITH
  on    <- Prepared,
  quit  <- Prepared /\ shutdown,
  level <- IF ~Prepared \/ state <= DONE THEN "done"
           ELSE IF state = LAST THEN "last" ELSE "need",
  run   <- IF ~Prepared THEN "idle"
           ELSE CASE pc[Worker] \in {"payload", "switch", "dec_need", "dec_last"} -> "payload"
                  [] pc[Worker] = "exit_stop" -> "leaving"
                  [] OTHER -> "idle"

\* The unlocked counter of BlockingLoop.h behaves like three levels of work:
\* a run that ends lowers the level by one, a Wakeup() raises it to the top,
\* and only a worker on its way out drops work that was asked for.
ImplementsWorkLoop == Loop!Safety
=============================================================================
