------------------------------- MODULE Event --------------------------------
(***************************************************************************)
(* Common::Event (Common/Event.h) on top of Common::Flag (Common/Flag.h):  *)
(* a sequentially consistent atomic flag, a mutex and a condition          *)
(* variable.  Any thread may call Set, Reset, Wait and WaitFor.  Set and   *)
(* Wait touch the flag without the mutex on their fast paths; every test   *)
(* of the flag, every acquisition of the mutex and every notification is a *)
(* step of its own.  The names leave room for a module that extends both   *)
(* this one and that of a user of the event.                               *)
(***************************************************************************)
EXTENDS FiniteSets

CONSTANT Users,    \* the threads that share the event
         NoThread  \* the owner of a free mutex

ASSUME ThreadAssumption == NoThread \notin Users

VARIABLES
  flag,   \* m_flag
  mutex,  \* the owner of m_mutex
  place,  \* where each thread is inside a call
  timed   \* the call of the thread is WaitFor, not Wait

eventVars == <<flag, mutex, place, timed>>

SetPCs  == {"set_lock", "set_notify"}
\* The places from which a waiter still tests the flag before it can sleep.
TestPCs == {"wait_lock", "wait_test", "last_lock", "last_test"}
PCs     == {"idle", "sleep"} \cup SetPCs \cup TestPCs

EventInit ==
  /\ flag = FALSE
  /\ mutex = NoThread
  /\ place = [t \in Users |-> "idle"]
  /\ timed = [t \in Users |-> FALSE]

Move(t, from, to) == place[t] = from /\ place' = [place EXCEPT ![t] = to]

Acquire(t, from, to) ==
  /\ mutex = NoThread
  /\ Move(t, from, to)
  /\ mutex' = t
  /\ UNCHANGED <<flag, timed>>
-----------------------------------------------------------------------------
\* Set(): TestAndSet; nothing more to do when the flag was already up.
Set(t) ==
  /\ IF flag THEN place[t] = "idle" /\ UNCHANGED place ELSE Move(t, "idle", "set_lock")
  /\ flag' = TRUE
  /\ UNCHANGED <<mutex, timed>>

SetLock(t) == Acquire(t, "set_lock", "set_notify")

\* notify_one() wakes one sleeper, if there is one, and the guard unlocks.
SetNotify(t) ==
  LET sleepers == {s \in Users : place[s] = "sleep"}
  IN  /\ place[t] = "set_notify"
      /\ \/ sleepers = {} /\ place' = [place EXCEPT ![t] = "idle"]
         \/ \E s \in sleepers :
              place' = [place EXCEPT ![t] = "idle", ![s] = "wait_lock"]
      /\ mutex' = NoThread
      /\ UNCHANGED <<flag, timed>>

Reset(t) == place[t] = "idle" /\ flag' = FALSE /\ UNCHANGED <<mutex, place, timed>>
-----------------------------------------------------------------------------
\* Wait() and WaitFor(): TestAndClear without the mutex.
WaitEnter(t, isTimed) ==
  /\ IF flag THEN place[t] = "idle" /\ UNCHANGED <<place, timed>>
             ELSE /\ Move(t, "idle", "wait_lock")
                  /\ timed' = [timed EXCEPT ![t] = isTimed]
  /\ flag' = FALSE
  /\ UNCHANGED mutex

\* Fault: a waiter sleeps without testing the flag again under the mutex.
WaitMutexNoTest(t) ==
  /\ mutex = NoThread
  /\ Move(t, "wait_lock", "sleep")
  /\ UNCHANGED <<flag, mutex, timed>>

WaitMutex(t) == Acquire(t, "wait_lock", "wait_test") \/ Acquire(t, "last_lock", "last_test")

\* Fault: the predicate reads the flag and leaves it up.
WaitTestKeepsFlag(t) ==
  /\ place[t] \in {"wait_test", "last_test"}
  /\ place' = [place EXCEPT ![t] = IF flag \/ @ = "last_test" THEN "idle" ELSE "sleep"]
  /\ mutex' = NoThread
  /\ UNCHANGED <<flag, timed>>

\* The predicate of wait()/wait_for(): TestAndClear under the mutex.  When it
\* fails the thread sleeps and frees the mutex in one step, except after a
\* timeout, when wait_for() returns the predicate's value.
WaitTest(t) ==
  /\ place[t] \in {"wait_test", "last_test"}
  /\ place' = [place EXCEPT ![t] = IF flag \/ @ = "last_test" THEN "idle" ELSE "sleep"]
  /\ flag' = FALSE
  /\ mutex' = NoThread
  /\ UNCHANGED timed

\* A condition variable may wake a thread without a notification.
SpuriousWakeup(t) == Move(t, "sleep", "wait_lock") /\ UNCHANGED <<flag, mutex, timed>>

Timeout(t) == timed[t] /\ Move(t, "sleep", "last_lock") /\ UNCHANGED <<flag, mutex, timed>>
-----------------------------------------------------------------------------
\* The steps a thread that is inside a call takes by itself.
Step(t) == SetLock(t) \/ SetNotify(t) \/ WaitMutex(t) \/ WaitTest(t)

Call(t) ==
  \/ Set(t) \/ Reset(t)
  \/ \E isTimed \in BOOLEAN : WaitEnter(t, isTimed)

EventNext == \E t \in Users : Call(t) \/ Step(t) \/ SpuriousWakeup(t) \/ Timeout(t)

\* A thread that can run is scheduled; nobody is obliged to call, and the
\* library is not obliged to wake anyone spuriously.
EventSpec == EventInit /\ [][EventNext]_eventVars /\ \A t \in Users : WF_eventVars(Step(t))
-----------------------------------------------------------------------------
\* The variables have their types and the mutex has one owner, the thread
\* that is in a critical section of Set or Wait.
EventTypeOK ==
  /\ flag \in BOOLEAN
  /\ mutex \in Users \cup {NoThread}
  /\ place \in [Users -> PCs]
  /\ timed \in [Users -> BOOLEAN]
  /\ \A t \in Users : place[t] \in {"set_notify", "wait_test", "last_test"} <=> mutex = t

\* Event::Set tests the flag outside the mutex and Event::Wait sleeps inside
\* it: no interleaving leaves a thread asleep on a raised flag with nobody on
\* the way to notify it or to take the signal in its place.
NoLostSignal ==
  flag /\ (\E s \in Users : place[s] = "sleep")
    => \E t \in Users : place[t] \in SetPCs \cup TestPCs

\* The threads inside a call of Wait() or WaitFor() that has not returned.
Waiting == {t \in Users : place[t] \in TestPCs \cup {"sleep"}}

Abstract == INSTANCE AutoResetEvent WITH Threads <- Users, waiting <- Waiting

\* Event implements the auto-reset event, its progress promise included: a
\* signal that stays up while a thread is in Wait is taken.
ImplementsAutoReset == Abstract!Spec
=============================================================================
