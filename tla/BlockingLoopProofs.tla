------------------------- MODULE BlockingLoopProofs -------------------------
(***************************************************************************)
(* For any number of clients and any mix of calls: the events that a       *)
(* BlockingLoop is built on never lose a signal, BlockingLoop keeps        *)
(* m_running_state in range, IsDone() never reports unfinished work, and   *)
(* the worker never sleeps through a request.                              *)
(*                                                                         *)
(* An event's NoLostSignal is inductive relative to EventTypeOK, because a *)
(* thread only falls asleep in the step in which it found the flag down,   *)
(* and the only step that raises the flag leaves its caller on the way to  *)
(* notify_one().  None of the three results on the loop is inductive.  The *)
(* strengthening says what each place of the worker knows of               *)
(* m_running_state, which only Wakeup() can change behind its back         *)
(* (WorkerKnows), what it has already served (ServedSoFar), and who may be *)
(* inside Prepare() at all (Handover).  Every step of Event is one of the  *)
(* abstract AutoResetEvent, and every step of BlockingLoop one of the      *)
(* abstract WorkLoop, or leaves it alone.                                  *)
(***************************************************************************)
EXTENDS BlockingLoop, Event, TLAPS
-----------------------------------------------------------------------------
(***************************************************************************)
(* m_new_work_event and m_done_event are each a Common::Event.             *)
(***************************************************************************)
\* Event.h: the variables keep their types and m_mutex has one owner.
THEOREM EventTypeCorrect == EventSpec => []EventTypeOK
<1>1. EventInit => EventTypeOK
  BY ThreadAssumption DEF EventInit, EventTypeOK, PCs
<1>2. EventTypeOK /\ [EventNext]_eventVars => EventTypeOK'
  <2> SUFFICES ASSUME EventTypeOK, [EventNext]_eventVars PROVE EventTypeOK'
    OBVIOUS
  <2> USE ThreadAssumption DEF EventTypeOK, PCs, SetPCs, TestPCs, Move, Acquire
  <2>1. ASSUME NEW t \in Users, Set(t) PROVE EventTypeOK'
    BY <2>1 DEF Set
  <2>2. ASSUME NEW t \in Users, Reset(t) PROVE EventTypeOK'
    BY <2>2 DEF Reset
  <2>3. ASSUME NEW t \in Users, NEW isTimed \in BOOLEAN, WaitEnter(t, isTimed)
        PROVE EventTypeOK'
    BY <2>3 DEF WaitEnter
  <2>4. ASSUME NEW t \in Users, SetLock(t) PROVE EventTypeOK'
    BY <2>4 DEF SetLock
  <2>5. ASSUME NEW t \in Users, SetNotify(t) PROVE EventTypeOK'
    BY <2>5 DEF SetNotify
  <2>6. ASSUME NEW t \in Users, WaitMutex(t) PROVE EventTypeOK'
    BY <2>6 DEF WaitMutex
  <2>7. ASSUME NEW t \in Users, WaitTest(t) PROVE EventTypeOK'
    BY <2>7 DEF WaitTest
  <2>8. ASSUME NEW t \in Users, SpuriousWakeup(t) \/ Timeout(t) PROVE EventTypeOK'
    BY <2>8 DEF SpuriousWakeup, Timeout
  <2>9. CASE UNCHANGED eventVars
    BY <2>9 DEF eventVars
  <2> QED
    BY <2>1, <2>2, <2>3, <2>4, <2>5, <2>6, <2>7, <2>8, <2>9 DEF EventNext, Call, Step
<1> QED
  BY <1>1, <1>2, PTL DEF EventSpec

\* Event::Set and Event::Wait: a thread never sleeps on a raised flag with
\* nobody left to wake it.
THEOREM SignalNotLost == EventSpec => []NoLostSignal
<1>1. EventInit => NoLostSignal
  BY DEF EventInit, NoLostSignal
<1>2. EventTypeOK /\ NoLostSignal /\ [EventNext]_eventVars => NoLostSignal'
  <2> SUFFICES ASSUME EventTypeOK, NoLostSignal, [EventNext]_eventVars PROVE NoLostSignal'
    OBVIOUS
  <2> USE DEF EventTypeOK, NoLostSignal, PCs, SetPCs, TestPCs, Move, Acquire
  <2>1. ASSUME NEW t \in Users, Set(t) PROVE NoLostSignal'
    BY <2>1 DEF Set
  <2>2. ASSUME NEW t \in Users, Reset(t) PROVE NoLostSignal'
    BY <2>2 DEF Reset
  <2>3. ASSUME NEW t \in Users, NEW isTimed \in BOOLEAN, WaitEnter(t, isTimed)
        PROVE NoLostSignal'
    BY <2>3 DEF WaitEnter
  <2>4. ASSUME NEW t \in Users, SetLock(t) PROVE NoLostSignal'
    BY <2>4 DEF SetLock
  <2>5. ASSUME NEW t \in Users, SetNotify(t) PROVE NoLostSignal'
    BY <2>5 DEF SetNotify
  <2>6. ASSUME NEW t \in Users, WaitMutex(t) PROVE NoLostSignal'
    BY <2>6 DEF WaitMutex
  <2>7. ASSUME NEW t \in Users, WaitTest(t) PROVE NoLostSignal'
    BY <2>7 DEF WaitTest
  <2>8. ASSUME NEW t \in Users, SpuriousWakeup(t) \/ Timeout(t) PROVE NoLostSignal'
    BY <2>8 DEF SpuriousWakeup, Timeout
  <2>9. CASE UNCHANGED eventVars
    BY <2>9 DEF eventVars
  <2> QED
    BY <2>1, <2>2, <2>3, <2>4, <2>5, <2>6, <2>7, <2>8, <2>9 DEF EventNext, Call, Step
<1> QED
  BY <1>1, <1>2, EventTypeCorrect, PTL DEF EventSpec
-----------------------------------------------------------------------------
(***************************************************************************)
(* Each step of a thread as a step of the auto-reset event.                *)
(***************************************************************************)
\* What the auto-reset event may do, its progress apart.
SafeAutoReset == Abstract!Init /\ [][Abstract!Next]_(Abstract!vars)

LEMMA StepIsAbstract ==
  ASSUME EventTypeOK, [EventNext]_eventVars
  PROVE  [Abstract!Next]_(Abstract!vars)
<1> DEFINE same == flag' = flag /\ Waiting' = Waiting
<1>1. /\ same => Abstract!vars' = Abstract!vars
      /\ flag' = TRUE /\ Waiting' = Waiting => Abstract!Next
      /\ flag' = FALSE /\ Waiting' = Waiting => Abstract!Next
      /\ \A t \in Users :
           /\ t \notin Waiting /\ Waiting' = Waiting \cup {t} /\ flag' = flag
                => Abstract!Next
           /\ flag /\ t \in Waiting /\ flag' = FALSE /\ Waiting' = Waiting \ {t}
                => Abstract!Next
           /\ ~flag /\ t \in Waiting /\ Waiting' = Waiting \ {t} /\ flag' = flag
                => Abstract!Next
  BY DEF Abstract!vars, Abstract!Next, Abstract!Set, Abstract!Reset, Abstract!Arrive,
     Abstract!Take, Abstract!GiveUp
<1>2. place \in [Users -> PCs] /\ flag \in BOOLEAN
  BY DEF EventTypeOK
<1>3. ASSUME NEW t \in Users, Set(t) PROVE flag' = TRUE /\ Waiting' = Waiting
  BY <1>2, <1>3 DEF Set, Move, Waiting, TestPCs
<1>4. ASSUME NEW t \in Users, Reset(t) PROVE flag' = FALSE /\ Waiting' = Waiting
  BY <1>4 DEF Reset, Waiting
<1>5. ASSUME NEW t \in Users, NEW isTimed \in BOOLEAN, WaitEnter(t, isTimed)
      PROVE  Abstract!Next
  <2>1. CASE flag
    BY <1>1, <1>5, <2>1 DEF WaitEnter, Waiting
  <2>2. CASE ~flag
    <3>1. place[t] = "idle" /\ place' = [place EXCEPT ![t] = "wait_lock"] /\ flag' = FALSE
      BY <1>5, <2>2 DEF WaitEnter, Move
    <3>2. flag' = flag
      BY <1>2, <2>2, <3>1
    <3>3. t \notin Waiting /\ Waiting' = Waiting \cup {t}
      BY <1>2, <3>1 DEF Waiting, TestPCs
    <3> QED
      BY <1>1, <3>2, <3>3
  <2> QED
    BY <2>1, <2>2
<1>6. ASSUME NEW t \in Users, SetLock(t) PROVE same
  BY <1>2, <1>6 DEF SetLock, Acquire, Move, Waiting, TestPCs
<1>7. ASSUME NEW t \in Users, SetNotify(t) PROVE same
  <2>1. place[t] = "set_notify" /\ flag' = flag
    BY <1>7 DEF SetNotify
  <2>2. CASE place' = [place EXCEPT ![t] = "idle"]
    BY <1>2, <2>1, <2>2 DEF Waiting, TestPCs
  <2>3. CASE \E s \in Users :
               place[s] = "sleep" /\ place' = [place EXCEPT ![t] = "idle", ![s] = "wait_lock"]
    BY <1>2, <2>1, <2>3 DEF Waiting, TestPCs
  <2> QED
    BY <1>7, <2>2, <2>3 DEF SetNotify
<1>8. ASSUME NEW t \in Users, WaitMutex(t) PROVE same
  BY <1>2, <1>8 DEF WaitMutex, Acquire, Move, Waiting, TestPCs
<1>9. ASSUME NEW t \in Users, WaitTest(t) PROVE [Abstract!Next]_(Abstract!vars)
  <2>1. /\ place[t] \in {"wait_test", "last_test"} /\ flag' = FALSE
        /\ place' = [place EXCEPT ![t] = IF flag \/ place[t] = "last_test" THEN "idle" ELSE "sleep"]
    BY <1>9 DEF WaitTest
  <2>2. t \in Waiting
    BY <2>1 DEF Waiting, TestPCs
  <2>3. CASE flag \/ place[t] = "last_test"
    <3>1. Waiting' = Waiting \ {t}
      BY <1>2, <2>1, <2>3 DEF Waiting, TestPCs
    <3>2. ~flag => flag' = flag
      BY <1>2, <2>1
    <3> QED
      BY <1>1, <2>1, <2>2, <3>1, <3>2
  <2>4. CASE ~(flag \/ place[t] = "last_test")
    <3>1. Waiting' = Waiting
      BY <1>2, <2>1, <2>4 DEF Waiting, TestPCs
    <3>2. flag' = flag
      BY <1>2, <2>1, <2>4
    <3> QED
      BY <1>1, <3>1, <3>2
  <2> QED
    BY <2>3, <2>4
<1>10. ASSUME NEW t \in Users, SpuriousWakeup(t) \/ Timeout(t) PROVE same
  BY <1>2, <1>10 DEF SpuriousWakeup, Timeout, Move, Waiting, TestPCs
<1>11. CASE UNCHANGED eventVars
  BY <1>1, <1>11 DEF eventVars, Waiting
<1> HIDE DEF same
<1> QED
  BY <1>1, <1>3, <1>4, <1>5, <1>6, <1>7, <1>8, <1>9, <1>10, <1>11 DEF EventNext, Call, Step

\* Event.h, however Set(), Reset(), Wait() and WaitFor() interleave: one
\* signal ends one wait, and a wait ends by taking a signal or, while there is
\* none, by giving up.
THEOREM RefinesAutoReset == EventSpec => SafeAutoReset
<1>1. EventInit => Abstract!Init
  BY DEF EventInit, Abstract!Init, Waiting, TestPCs
<1>2. EventTypeOK /\ [EventNext]_eventVars => [Abstract!Next]_(Abstract!vars)
  BY StepIsAbstract
<1> QED
  BY <1>1, <1>2, EventTypeCorrect, PTL DEF EventSpec, SafeAutoReset
-----------------------------------------------------------------------------
(***************************************************************************)
(* The loop.                                                               *)
(***************************************************************************)
InsidePrepare == {"prep_store", "prep_clear", "prep_allow"}
AwayPCs == {"out", "prep_test", "exit_event"}
LoopPCs == {"top", "payload", "switch", "dec_need", "dec_last", "set_done", "try_sleep",
            "dec_done", "sleep", "exit_state"}

Quiet(c) == pc[c] \in {"wk_load", "wk_xchg"}

\* A call and the place inside it agree; a destructor has the object alone.
CallsAgree ==
  \A c \in Clients :
    /\ pc[c] # "idle" => call[c] # "none"
    /\ pc[c] \in PrepPCs => call[c] = "Prepare"
    /\ call[c] = "kBlockAndGiveUp" => \A d \in Clients \ {c} : call[d] = "none"

\* m_prepare_lock is held inside Prepare(), and a client only gets inside
\* while the worker is not in its loop.
Handover ==
  /\ \A t \in Threads : prepLock = t <=> pc[t] \in InsidePrepare
  /\ prepLock \in Clients => pc[Worker] \in AwayPCs
  /\ stopped /\ Alive => pc[Worker] \in AwayPCs /\ prepLock = None

\* What the worker may rely on at each place.
WorkerKnows ==
  /\ ~stopped /\ pc[Worker] \in AwayPCs /\ (\A t \in Threads : pc[t] # "prep_store")
       => state >= LAST
  /\ pc[Worker] \in {"prep_clear", "prep_allow"} => state >= LAST
  /\ pc[Worker] = "dec_need" => state = NEED
  /\ pc[Worker] = "dec_last" => state \in {LAST, NEED}
  /\ pc[Worker] \in {"set_done", "try_sleep", "dec_done"} => state \in {DONE, NEED}
  /\ pc[Worker] = "sleep" => state \in {SLEEPING, NEED}
  /\ pc[Worker] = "exit_state" => shutdown

\* What a low state says of the requests.
ServedSoFar ==
  /\ pc[Worker] \in LoopPCs /\ state <= DONE => \A c \in owed \cup serving : Quiet(c)
  /\ pc[Worker] \in {"switch", "dec_last"} /\ state = LAST
       => \A c \in owed \cup serving : Quiet(c)
  /\ pc[Worker] = "payload" /\ state = LAST => \A c \in owed : Quiet(c)

\* A worker blocked on m_new_work_event is marked as sleeping or about to be
\* signalled.
SleepIsSeen ==
  pc[Worker] = "sleep" /\ ~newWork
    => state = SLEEPING \/ \E c \in Clients : pc[c] = "wk_event"

IInv == TypeOK /\ CallsAgree /\ Handover /\ WorkerKnows /\ ServedSoFar /\ SleepIsSeen

-----------------------------------------------------------------------------
\* The initial state satisfies the inductive invariant.
LEMMA InitIInv == Init => IInv
  BY LoopAssumption DEF Init, IInv, TypeOK, CallsAgree, Handover, WorkerKnows, ServedSoFar,
     SleepIsSeen, Threads, AllCalls, StopModes, ClientPCs, WorkerPCs, WakeupPCs, PrepPCs,
     WaitPCs, StopPCs, ExitPCs, InsidePrepare, AwayPCs, LoopPCs, Alive, Quiet,
     SLEEPING, DONE, LAST, NEED

\* Every step of every thread preserves it.
LEMMA NextIInv == IInv /\ [Next]_vars => IInv'
<1> SUFFICES ASSUME IInv, [Next]_vars PROVE IInv'
  OBVIOUS
<1> USE LoopAssumption
    DEF IInv, TypeOK, CallsAgree, Handover, WorkerKnows, ServedSoFar, SleepIsSeen, Threads,
        AllCalls, StopModes, ClientPCs, WorkerPCs, WakeupPCs, PrepPCs, WaitPCs, StopPCs, ExitPCs,
        InsidePrepare, AwayPCs, LoopPCs, Alive, Quiet, SLEEPING, DONE, LAST, NEED,
        flags, events, locks, work, Goto, Return, LeaveWakeup, LeaveIsDone, LeavePrepare
<1>1. ASSUME NEW c \in Clients, WakeupLoad(c) PROVE IInv'
  BY <1>1 DEF WakeupLoad
<1>2. ASSUME NEW c \in Clients, WakeupExchange(c) PROVE IInv'
  BY <1>2 DEF WakeupExchange
<1>3. ASSUME NEW c \in Clients, WakeupEvent(c) PROVE IInv'
  BY <1>3 DEF WakeupEvent
<1>4. ASSUME NEW c \in Clients, IsDoneStopped(c) PROVE IInv'
  BY <1>4 DEF IsDoneStopped
<1>5. ASSUME NEW c \in Clients, IsDoneState(c) PROVE IInv'
  BY <1>5 DEF IsDoneState
<1>6. ASSUME NEW c \in Clients, WaitLock(c) PROVE IInv'
  BY <1>6 DEF WaitLock
<1>7. ASSUME NEW c \in Clients, WaitEvent(c) PROVE IInv'
  <2>1. TypeOK'
    BY <1>7 DEF WaitEvent
  <2>2. CallsAgree' /\ Handover' /\ WorkerKnows'
    BY <1>7 DEF WaitEvent
  <2>3. ServedSoFar' /\ SleepIsSeen'
    BY <1>7 DEF WaitEvent
  <2> QED
    BY <2>1, <2>2, <2>3
<1>8. ASSUME NEW c \in Clients, WaitAllow(c) PROVE IInv'
  BY <1>8 DEF WaitAllow
<1>9. ASSUME NEW c \in Clients, StopTest(c) PROVE IInv'
  BY <1>9 DEF StopTest
<1>10. ASSUME NEW c \in Clients, StopSet(c) PROVE IInv'
  BY <1>10 DEF StopSet
<1>11. ASSUME NEW c \in Clients, WaitYield(c) PROVE IInv'
  BY <1>11 DEF WaitYield
<1>12. ASSUME NEW c \in Clients, AllowSleep(c) PROVE IInv'
  BY <1>12 DEF AllowSleep
<1>13. ASSUME NEW c \in Clients, NEW what \in Calls[c], Begin(c, what) PROVE IInv'
  BY <1>13 DEF Begin, EntryPC
<1>14. ASSUME NEW t \in Threads, PrepareTest(t) PROVE IInv'
  <2> USE <1>14 DEF PrepareTest
  <2>1. pc' \in [Threads -> ClientPCs \cup WorkerPCs]
    OBVIOUS
  <2>2. pc'[Worker] \in WorkerPCs /\ \A c \in Clients : pc'[c] \in ClientPCs
    OBVIOUS
  <2>3. call' \in [Clients -> AllCalls \cup {"none"}]
    OBVIOUS
  <2>4. prepLock' \in Threads \cup {None}
    OBVIOUS
  <2>5. TypeOK'
    BY <2>1, <2>2, <2>3, <2>4
  <2>6. CallsAgree'
    OBVIOUS
  <2>7. Handover'
    OBVIOUS
  <2>8. WorkerKnows'
    OBVIOUS
  <2>9. ServedSoFar' /\ SleepIsSeen'
    OBVIOUS
  <2> QED
    BY <2>5, <2>6, <2>7, <2>8, <2>9
<1>15. ASSUME NEW t \in Threads, PrepareStore(t) PROVE IInv'
  BY <1>15 DEF PrepareStore
<1>16. ASSUME NEW t \in Threads, PrepareClear(t) PROVE IInv'
  <2>1. TypeOK'
    BY <1>16 DEF PrepareClear
  <2>2. CallsAgree' /\ Handover' /\ WorkerKnows'
    BY <1>16 DEF PrepareClear
  <2>3. ServedSoFar' /\ SleepIsSeen'
    BY <1>16 DEF PrepareClear
  <2> QED
    BY <2>1, <2>2, <2>3
<1>17. ASSUME NEW t \in Threads, PrepareAllow(t) PROVE IInv'
  BY <1>17 DEF PrepareAllow
<1>18. ASSUME Run PROVE IInv'
  BY <1>18 DEF Run
<1>19. ASSUME LoopTest PROVE IInv'
  BY <1>19 DEF LoopTest
<1>20. ASSUME PayloadEnd PROVE IInv'
  BY <1>20 DEF PayloadEnd
<1>21. ASSUME Switch PROVE IInv'
  BY <1>21 DEF Switch
<1>22. ASSUME DecNeed PROVE IInv'
  BY <1>22 DEF DecNeed
<1>23. ASSUME DecLast PROVE IInv'
  BY <1>23 DEF DecLast
<1>24. ASSUME SetDone PROVE IInv'
  BY <1>24 DEF SetDone
<1>25. ASSUME TrySleep PROVE IInv'
  <2>1. TypeOK'
    BY <1>25 DEF TrySleep
  <2>2. CallsAgree' /\ Handover' /\ WorkerKnows'
    BY <1>25 DEF TrySleep
  <2>3. ServedSoFar' /\ SleepIsSeen'
    BY <1>25 DEF TrySleep
  <2> QED
    BY <2>1, <2>2, <2>3
<1>26. ASSUME DecDone PROVE IInv'
  BY <1>26 DEF DecDone
<1>27. ASSUME Sleep PROVE IInv'
  BY <1>27 DEF Sleep
<1>28. ASSUME SleepTimeout PROVE IInv'
  BY <1>28 DEF SleepTimeout
<1>29. ASSUME ExitState PROVE IInv'
  BY <1>29 DEF ExitState
<1>30. ASSUME ExitStop PROVE IInv'
  BY <1>30 DEF ExitStop
<1>31. ASSUME ExitEvent PROVE IInv'
  BY <1>31 DEF ExitEvent
<1>32. CASE UNCHANGED vars
  BY <1>32 DEF vars
<1> QED
  BY <1>1, <1>2, <1>3, <1>4, <1>5, <1>6, <1>7, <1>8, <1>9, <1>10, <1>11, <1>12, <1>13,
     <1>14, <1>15, <1>16, <1>17, <1>18, <1>19, <1>20, <1>21, <1>22, <1>23, <1>24, <1>25,
     <1>26, <1>27, <1>28, <1>29, <1>30, <1>31, <1>32
     DEF Next, WorkerStep, ClientStep, Wakeup, Wait, Stop, Prepare

\* The invariant holds in every reachable state.
LEMMA Inductive == Spec => []IInv
  BY InitIInv, NextIInv, PTL DEF Spec
-----------------------------------------------------------------------------
\* BlockingLoop.h, "must be of type RUNNING_TYPE": the unlocked decrements of
\* Run() never take m_running_state out of its enumeration.
THEOREM TypeCorrect == Spec => []TypeOK
<1>1. IInv => TypeOK
  BY DEF IInv
<1> QED
  BY <1>1, Inductive, PTL

\* BlockingLoop::Wait, "wait for a complete payload run after the last
\* Wakeup() call": IsDone() is only true of a running loop when every request
\* whose Wakeup() took effect has been served.
THEOREM WaitIsSound == Spec => []DoneMeansServed
<1>1. IInv => DoneMeansServed
  <2> SUFFICES ASSUME IInv, Active, state <= DONE PROVE Settled
    BY DEF DoneMeansServed
  <2>1. pc[Worker] \in LoopPCs
    BY DEF IInv, TypeOK, WorkerKnows, Active, WorkerPCs, PrepPCs, ExitPCs, AwayPCs, LoopPCs,
           Threads, DONE, LAST
  <2> QED
    BY <2>1 DEF IInv, ServedSoFar, Settled, Quiet
<1> QED
  BY <1>1, Inductive, PTL

\* BlockingLoop::Wakeup only sets the event when it replaced STATE_SLEEPING:
\* no request is left behind a worker that nobody is going to wake.
THEOREM WakeupNotLost == Spec => []NoLostWakeup
<1>1. IInv => NoLostWakeup
  BY DEF IInv, TypeOK, SleepIsSeen, ServedSoFar, NoLostWakeup, LoopPCs, Quiet, SLEEPING, DONE
<1> QED
  BY <1>1, Inductive, PTL
-----------------------------------------------------------------------------
\* A step of WorkLoop, or one its users do not see.
LoopStep == [Loop!Next]_(Loop!loop)

\* Before Prepare() the loop is off.
LEMMA InitLoop == Init => Loop!Off
<1> SUFFICES ASSUME Init PROVE Loop!Off
  OBVIOUS
<1>1. Prepared = FALSE
  BY DEF Init, Prepared
<1> QED
  BY <1>1 DEF Loop!Off

\* While the loop is not prepared its users see nothing of it.
LEMMA OffStays == ~Prepared /\ ~Prepared' => UNCHANGED Loop!loop
<1> SUFFICES ASSUME Prepared = FALSE, Prepared' = FALSE PROVE UNCHANGED Loop!loop
  BY DEF Prepared
<1> QED
  BY DEF Loop!loop

\* Each step is one of WorkLoop.
LEMMA NextLoop == IInv /\ [Next]_vars => LoopStep
<1> SUFFICES ASSUME IInv, [Next]_vars PROVE LoopStep
  OBVIOUS
<1> USE LoopAssumption
    DEF IInv, TypeOK, CallsAgree, Handover, WorkerKnows, Threads,
        AllCalls, StopModes, ClientPCs, WorkerPCs, WakeupPCs, PrepPCs, WaitPCs, StopPCs, ExitPCs,
        InsidePrepare, AwayPCs, Alive, SLEEPING, DONE, LAST, NEED,
        flags, events, locks, work, Goto, Return, LeaveWakeup, LeaveIsDone, LeavePrepare
<1>1. ASSUME NEW c \in Clients, WakeupLoad(c) PROVE LoopStep
  BY <1>1 DEF WakeupLoad, LoopStep, Prepared, Loop!loop
<1>2. ASSUME NEW c \in Clients, WakeupExchange(c) PROVE LoopStep
  <2>1. CASE ~Prepared /\ ~Prepared'
    BY <2>1, OffStays DEF LoopStep
  <2>2. CASE Prepared \/ Prepared'
    <3>1. Loop!Wakeup
      BY <1>2, <2>2 DEF WakeupExchange, Prepared, Loop!Wakeup
    <3> QED
      BY <3>1 DEF LoopStep, Loop!Next
  <2> QED
    BY <2>1, <2>2
<1>3. ASSUME NEW c \in Clients, WakeupEvent(c) PROVE LoopStep
  BY <1>3 DEF WakeupEvent, LoopStep, Prepared, Loop!loop
<1>4. ASSUME NEW c \in Clients, IsDoneStopped(c) PROVE LoopStep
  BY <1>4 DEF IsDoneStopped, LoopStep, Prepared, Loop!loop
<1>5. ASSUME NEW c \in Clients, IsDoneState(c) PROVE LoopStep
  BY <1>5 DEF IsDoneState, LoopStep, Prepared, Loop!loop
<1>6. ASSUME NEW c \in Clients, WaitLock(c) PROVE LoopStep
  BY <1>6 DEF WaitLock, LoopStep, Prepared, Loop!loop
<1>7. ASSUME NEW c \in Clients, WaitEvent(c) PROVE LoopStep
  BY <1>7 DEF WaitEvent, LoopStep, Prepared, Loop!loop
<1>8. ASSUME NEW c \in Clients, WaitAllow(c) PROVE LoopStep
  BY <1>8 DEF WaitAllow, LoopStep, Prepared, Loop!loop
<1>9. ASSUME NEW c \in Clients, StopTest(c) PROVE LoopStep
  BY <1>9 DEF StopTest, LoopStep, Prepared, Loop!loop
<1>10. ASSUME NEW c \in Clients, StopSet(c) PROVE LoopStep
  <2>1. CASE ~Prepared /\ ~Prepared'
    BY <2>1, OffStays DEF LoopStep
  <2>2. CASE Prepared \/ Prepared'
    <3>1. Loop!RequestStop
      BY <1>10, <2>2 DEF StopSet, Prepared, Loop!RequestStop
    <3> QED
      BY <3>1 DEF LoopStep, Loop!Next
  <2> QED
    BY <2>1, <2>2
<1>11. ASSUME NEW c \in Clients, WaitYield(c) PROVE LoopStep
  BY <1>11 DEF WaitYield, LoopStep, Prepared, Loop!loop
<1>12. ASSUME NEW c \in Clients, AllowSleep(c) PROVE LoopStep
  BY <1>12 DEF AllowSleep, LoopStep, Prepared, Loop!loop
<1>13. ASSUME NEW c \in Clients, NEW what \in Calls[c], Begin(c, what) PROVE LoopStep
  <2>1. CASE ~Prepared /\ ~Prepared'
    BY <2>1, OffStays DEF LoopStep
  <2>2. CASE Prepared \/ Prepared'
    <3>1. CASE what = "kBlockAndGiveUp"
      <4>1. Prepared /\ Prepared' = FALSE
        BY <1>13, <2>2, <3>1 DEF Begin, EntryPC, Prepared
      <4> QED
        BY <4>1 DEF LoopStep, Loop!Next, Loop!Destroy, Loop!TurnOff
    <3>2. CASE what # "kBlockAndGiveUp"
      BY <1>13, <2>2, <3>2 DEF Begin, EntryPC, Prepared, LoopStep, Loop!loop
    <3> QED
      BY <3>1, <3>2
  <2> QED
    BY <2>1, <2>2
<1>14. ASSUME NEW t \in Threads, PrepareTest(t) PROVE LoopStep
  <2>1. CASE ~Prepared /\ ~Prepared'
    BY <2>1, OffStays DEF LoopStep
  <2>2. CASE Prepared \/ Prepared'
    <3>1. UNCHANGED Loop!loop
      BY <1>14, <2>2 DEF PrepareTest, Prepared, Loop!loop
    <3> QED
      BY <3>1 DEF LoopStep
  <2> QED
    BY <2>1, <2>2
<1>15. ASSUME NEW t \in Threads, PrepareStore(t) PROVE LoopStep
  <2>1. CASE ~Prepared /\ ~Prepared'
    BY <2>1, OffStays DEF LoopStep
  <2>2. CASE Prepared \/ Prepared'
    <3> QED
      BY <1>15, <2>2 DEF PrepareStore, Prepared
  <2> QED
    BY <2>1, <2>2
<1>16. ASSUME NEW t \in Threads, PrepareClear(t) PROVE LoopStep
  <2>1. CASE ~Prepared /\ ~Prepared'
    BY <2>1, OffStays DEF LoopStep
  <2>2. CASE Prepared \/ Prepared'
    <3>1. Loop!Prepare
      BY <1>16, <2>2 DEF PrepareClear, Prepared, Loop!Prepare
    <3> QED
      BY <3>1 DEF LoopStep, Loop!Next
  <2> QED
    BY <2>1, <2>2
<1>17. ASSUME NEW t \in Threads, PrepareAllow(t) PROVE LoopStep
  BY <1>17 DEF PrepareAllow, LoopStep, Prepared, Loop!loop
<1>18. ASSUME Run PROVE LoopStep
  BY <1>18 DEF Run, LoopStep, Prepared, Loop!loop
<1>19. ASSUME LoopTest PROVE LoopStep
  <2>1. CASE ~Prepared /\ ~Prepared'
    BY <2>1, OffStays DEF LoopStep
  <2>2. CASE Prepared \/ Prepared'
    <3>1. UNCHANGED Loop!loop \/ Loop!Start
      BY <1>19, <2>2 DEF LoopTest, Prepared, Loop!Start, Loop!loop
    <3> QED
      BY <3>1 DEF LoopStep, Loop!Next
  <2> QED
    BY <2>1, <2>2
<1>20. ASSUME PayloadEnd PROVE LoopStep
  BY <1>20 DEF PayloadEnd, LoopStep, Prepared, Loop!loop
<1>21. ASSUME Switch PROVE LoopStep
  <2>1. CASE ~Prepared /\ ~Prepared'
    BY <2>1, OffStays DEF LoopStep
  <2>2. CASE Prepared \/ Prepared'
    <3>1. CASE state <= DONE
      <4>1. Loop!End
        BY <1>21, <2>2, <3>1 DEF Switch, Prepared, Loop!End
      <4> QED
        BY <4>1 DEF LoopStep, Loop!Next
    <3>2. CASE state > DONE
      BY <1>21, <2>2, <3>2 DEF Switch, Prepared, LoopStep, Loop!loop
    <3> QED
      BY <3>1, <3>2
  <2> QED
    BY <2>1, <2>2
<1>22. ASSUME DecNeed PROVE LoopStep
  <2>1. CASE ~Prepared /\ ~Prepared'
    BY <2>1, OffStays DEF LoopStep
  <2>2. CASE Prepared \/ Prepared'
    <3>1. Loop!End
      BY <1>22, <2>2 DEF DecNeed, Prepared, Loop!End
    <3> QED
      BY <3>1 DEF LoopStep, Loop!Next
  <2> QED
    BY <2>1, <2>2
<1>23. ASSUME DecLast PROVE LoopStep
  <2>1. CASE ~Prepared /\ ~Prepared'
    BY <2>1, OffStays DEF LoopStep
  <2>2. CASE Prepared \/ Prepared'
    <3>1. Loop!End
      BY <1>23, <2>2 DEF DecLast, Prepared, Loop!End
    <3> QED
      BY <3>1 DEF LoopStep, Loop!Next
  <2> QED
    BY <2>1, <2>2
<1>24. ASSUME SetDone PROVE LoopStep
  BY <1>24 DEF SetDone, LoopStep, Prepared, Loop!loop
<1>25. ASSUME TrySleep PROVE LoopStep
  BY <1>25 DEF TrySleep, LoopStep, Prepared, Loop!loop
<1>26. ASSUME DecDone PROVE LoopStep
  <2>1. CASE ~Prepared /\ ~Prepared'
    BY <2>1, OffStays DEF LoopStep
  <2>2. CASE Prepared \/ Prepared'
    <3>1. UNCHANGED Loop!loop \/ Loop!Relax
      BY <1>26, <2>2 DEF DecDone, Prepared, Loop!Relax, Loop!loop
    <3> QED
      BY <3>1 DEF LoopStep, Loop!Next
  <2> QED
    BY <2>1, <2>2
<1>27. ASSUME Sleep PROVE LoopStep
  BY <1>27 DEF Sleep, LoopStep, Prepared, Loop!loop
<1>28. ASSUME SleepTimeout PROVE LoopStep
  BY <1>28 DEF SleepTimeout, LoopStep, Prepared, Loop!loop
<1>29. ASSUME ExitState PROVE LoopStep
  <2>1. CASE ~Prepared /\ ~Prepared'
    BY <2>1, OffStays DEF LoopStep
  <2>2. CASE Prepared \/ Prepared'
    <3>1. Loop!Leave
      BY <1>29, <2>2 DEF ExitState, Prepared, Loop!Leave
    <3> QED
      BY <3>1 DEF LoopStep, Loop!Next
  <2> QED
    BY <2>1, <2>2
<1>30. ASSUME ExitStop PROVE LoopStep
  <2>1. CASE ~Prepared /\ ~Prepared'
    BY <2>1, OffStays DEF LoopStep
  <2>2. CASE Prepared \/ Prepared'
    <3>1. Loop!Return
      BY <1>30, <2>2 DEF ExitStop, Prepared, Loop!Return, Loop!TurnOff
    <3> QED
      BY <3>1 DEF LoopStep, Loop!Next
  <2> QED
    BY <2>1, <2>2
<1>31. ASSUME ExitEvent PROVE LoopStep
  BY <1>31 DEF ExitEvent, LoopStep, Prepared, Loop!loop
<1>32. CASE UNCHANGED vars
  BY <1>32 DEF vars, LoopStep, Prepared, Loop!loop
<1> QED
  BY <1>1, <1>2, <1>3, <1>4, <1>5, <1>6, <1>7, <1>8, <1>9, <1>10, <1>11, <1>12, <1>13, <1>14,
     <1>15, <1>16, <1>17, <1>18, <1>19, <1>20, <1>21, <1>22, <1>23, <1>24, <1>25, <1>26,
     <1>27, <1>28, <1>29, <1>30, <1>31, <1>32
     DEF Next, WorkerStep, ClientStep, Wakeup, Wait, Stop, Prepare

\* BlockingLoop implements WorkLoop, step by step: whatever the unlocked
\* counter goes through, its users see a level that Wakeup() raises and a
\* complete run lowers.  (GpuThread and VideoBuffer build on that.)
THEOREM RefinesWorkLoop == Spec => ImplementsWorkLoop
<1>1. IInv /\ [Next]_vars => [Loop!Next]_(Loop!loop)
  BY NextLoop DEF LoopStep
<1> QED
  BY <1>1, InitLoop, Inductive, PTL DEF Spec, ImplementsWorkLoop, Loop!Safety
=============================================================================
