-------------------------------- MODULE CPU ---------------------------------
(***************************************************************************)
(* The execution state of the emulated CPU (Core/HW/CPU.cpp): the CPU      *)
(* thread in Run(), host threads that pause, resume, single-step, lock and *)
(* power down, and breakpoints (Break()) from whichever thread runs        *)
(* emulated code.                                                          *)
(*                                                                         *)
(* Everything between taking s_state_change_lock and giving it up is one   *)
(* step; a thread that holds the lock across steps is in stateLock.  The   *)
(* 100 ms waits on s_state_cpu_idle_cvar let go of the lock and take it    *)
(* back; the waits of the CPU thread on s_state_cpu_cvar have no timeout.  *)
(* s_state is also read, and with breakpoints written, without the lock.   *)
(***************************************************************************)
EXTENDS Naturals

CONSTANTS
  Hosts,       \* the threads that control the CPU thread
  CpuThread,   \* the CPU thread
  NoThread,    \* the owner of a free mutex, the sync event of no step
  Calls,       \* what the hosts call
  Breakpoints, \* a JIT may be at a breakpoint or have watchpoints when it resumes
  MaxSteps     \* bound on StepOpcode() calls

AllCalls == {"pause", "resume", "lock", "debugger", "step", "stop"}

ASSUME CPUAssumption ==
  /\ CpuThread \notin Hosts /\ NoThread \notin Hosts \cup {CpuThread}
  /\ Calls \subseteq AllCalls /\ Breakpoints \in BOOLEAN /\ MaxSteps \in Nat

VARIABLES
  state,         \* s_state
  active,        \* s_state_cpu_thread_active
  locked,        \* s_state_paused_and_locked
  breakRequest,  \* s_state_system_request_stepping
  stepRequest,   \* s_state_cpu_step_instruction
  stepSync,      \* the host whose event is s_state_cpu_step_instruction_sync
  steppingLock,  \* the owner of s_stepping_lock
  stateLock,     \* the owner of s_state_change_lock between steps
  adjacent,      \* the argument of the last RunAdjacentSystems()
  cpc,           \* where the CPU thread is in Run()
  pc,            \* where each host is
  call,          \* what each host is calling
  wasUnpaused,   \* what PauseAndLock(true) returned to each host
  isStopping,    \* s_is_stopping of Core.cpp, set before it calls Stop()
  \* History: which hosts wait for the event of a step, what was last asked
  \* for, whether some Stop() has returned, and how many steps were asked for.
  asking, wanted, stopReturned, steps

flags == <<active, locked, breakRequest>>
step == <<stepRequest, stepSync, asking>>
locks == <<steppingLock, stateLock>>
host == <<pc, call, wasUnpaused, isStopping>>
history == <<wanted, stopReturned, steps>>
vars == <<state, flags, step, locks, adjacent, cpc, host, history>>

States == {"Running", "Stepping", "PowerDown"}
\* Where the CPU thread runs emulated code, or has just done so.
Inside == {"enter", "breakpoint", "run", "leave", "single"}
CpuPCs == {"lock", "top", "check", "step_test", "sleep_locked", "woken_locked", "sleep_step",
           "woken_step", "done"} \cup Inside
\* Where a host waits for the CPU thread to become inactive; it sleeps there
\* while it does not hold s_state_change_lock.
IdleWaits == {"pausing", "locking", "stopping"}
\* Where a host holds PauseAndLock(), and where it holds s_stepping_lock.
Holding == {"held", "unlocking"}
InSteppingLock == {"entered", "pausing", "lock_set", "locking"} \cup Holding
HostPCs == {"idle", "stepping_lock", "stop"} \cup InSteppingLock \cup IdleWaits

Free == stateLock = NoThread
IsStepping == state = "Stepping"

\* Init(), and the Break() that ends the setup in EmuThread().
Init ==
  /\ state = "Stepping"
  /\ active = FALSE /\ locked = FALSE /\ breakRequest = FALSE
  /\ stepRequest = FALSE /\ stepSync = NoThread /\ asking = {}
  /\ steppingLock = NoThread /\ stateLock = NoThread
  /\ adjacent = FALSE
  /\ cpc = "lock"
  /\ pc = [h \in Hosts |-> "idle"] /\ call = [h \in Hosts |-> "none"]
  /\ wasUnpaused = [h \in Hosts |-> FALSE] /\ isStopping = FALSE
  /\ wanted = "pause" /\ stopReturned = FALSE /\ steps = 0

RunAdjacentSystems(running) == adjacent' = running

\* PowerDown cannot be left.
SetStateLocked(s) == state' = IF state = "PowerDown" THEN state ELSE s

FlushStepSyncEventLocked ==
  /\ stepRequest' = FALSE /\ stepSync' = NoThread
  /\ asking' = asking \ {stepSync}

\* s_state_cpu_cvar.notify_one(): only the CPU thread waits there.
NotifyCpu ==
  cpc' = CASE cpc = "sleep_locked" -> "woken_locked"
           [] cpc = "sleep_step" -> "woken_step"
           [] OTHER -> cpc
-----------------------------------------------------------------------------
(***************************************************************************)
(* Run(), on the CPU thread.                                               *)
(***************************************************************************)
CpuGoto(to, owner) == cpc' = to /\ stateLock' = owner

\* The lock is taken on entry and when a wait on s_state_cpu_cvar ends.
RunLock ==
  /\ Free
  /\ \/ cpc = "lock" /\ CpuGoto("top", CpuThread)
     \/ cpc = "woken_locked" /\ CpuGoto("check", CpuThread)
     \/ cpc = "woken_step" /\ CpuGoto("step_test", CpuThread)
  /\ UNCHANGED <<state, flags, step, steppingLock, adjacent, host, history>>

SpuriousWakeup ==
  /\ cpc \in {"sleep_locked", "sleep_step"}
  /\ NotifyCpu
  /\ UNCHANGED <<state, flags, step, locks, adjacent, host, history>>

RunTop ==
  /\ cpc = "top"
  /\ IF state = "PowerDown" THEN CpuGoto("done", NoThread) ELSE CpuGoto("check", CpuThread)
  /\ UNCHANGED <<state, flags, step, steppingLock, adjacent, host, history>>

\* The wait until nobody has paused and locked, and the switch.
RunCheck ==
  /\ cpc = "check"
  /\ CASE locked -> CpuGoto("sleep_locked", NoThread) /\ UNCHANGED active
       [] ~locked /\ state = "Running" -> CpuGoto("enter", NoThread) /\ active' = TRUE
       [] ~locked /\ IsStepping -> CpuGoto("step_test", CpuThread) /\ UNCHANGED active
       [] OTHER -> CpuGoto("top", CpuThread) /\ UNCHANGED active
  /\ UNCHANGED <<state, locked, breakRequest, step, steppingLock, adjacent, host, history>>

\* Fault: the step is done although the CPU thread was locked meanwhile.
StepTestIgnoresLock ==
  /\ cpc = "step_test"
  /\ \/ /\ IsStepping /\ ~stepRequest
        /\ CpuGoto("sleep_step", NoThread) /\ UNCHANGED <<active, step>>
     \/ /\ ~IsStepping
        /\ FlushStepSyncEventLocked
        /\ CpuGoto("top", CpuThread) /\ UNCHANGED active
     \/ /\ IsStepping /\ stepRequest
        /\ active' = TRUE
        /\ CpuGoto("single", NoThread) /\ UNCHANGED step
  /\ UNCHANGED <<state, locked, breakRequest, steppingLock, adjacent, host, history>>

\* The wait for a step or for another state.
StepTest ==
  /\ cpc = "step_test"
  /\ \/ /\ IsStepping /\ ~stepRequest
        /\ CpuGoto("sleep_step", NoThread) /\ UNCHANGED <<active, step>>
     \/ /\ ~IsStepping
        /\ FlushStepSyncEventLocked
        /\ CpuGoto("top", CpuThread) /\ UNCHANGED active
     \/ /\ IsStepping /\ stepRequest /\ locked
        /\ CpuGoto("top", CpuThread) /\ UNCHANGED <<active, step>>
     \/ /\ IsStepping /\ stepRequest /\ ~locked
        /\ active' = TRUE
        /\ CpuGoto("single", NoThread) /\ UNCHANGED step
  /\ UNCHANGED <<state, locked, breakRequest, steppingLock, adjacent, host, history>>

SingleStep ==
  /\ cpc = "single" /\ Free
  /\ active' = FALSE
  /\ FlushStepSyncEventLocked
  /\ CpuGoto("top", CpuThread)
  /\ UNCHANGED <<state, locked, breakRequest, steppingLock, adjacent, host, history>>

\* The single step off a breakpoint writes s_state without the lock, before
\* and after.
BreakpointStep ==
  /\ Breakpoints
  /\ \/ cpc = "enter" /\ cpc' = "breakpoint" /\ state' = "Stepping"
     \/ cpc = "breakpoint" /\ cpc' = "run" /\ state' = "Running"
  /\ UNCHANGED <<flags, step, locks, adjacent, host, history>>

\* PowerPC::RunLoop() runs until it sees that the state has changed.
RunLoop ==
  /\ \/ cpc = "enter" /\ cpc' = "run"
     \/ cpc = "run" /\ state # "Running" /\ cpc' = "leave"
  /\ UNCHANGED <<state, flags, step, locks, adjacent, host, history>>

\* Fault: s_state_cpu_thread_active is not cleared.
RunLeaveStaysActive ==
  /\ cpc = "leave" /\ Free
  /\ CpuGoto("top", CpuThread)
  /\ UNCHANGED <<state, flags, step, steppingLock, adjacent, host, history>>

RunLeave ==
  /\ cpc = "leave" /\ Free
  /\ active' = FALSE
  /\ CpuGoto("top", CpuThread)
  /\ UNCHANGED <<state, locked, breakRequest, step, steppingLock, adjacent, host, history>>

CpuStep == RunTop \/ RunCheck \/ StepTest \/ BreakpointStep \/ RunLoop
CpuAcquires == RunLock \/ SingleStep \/ RunLeave
-----------------------------------------------------------------------------
(***************************************************************************)
(* Break(), from the CPU thread, the GPU thread or a host that runs        *)
(* emulated code under PauseAndLock.                                       *)
(***************************************************************************)
\* Fault: the breakpoint is not remembered for the unlock.
BreakForgotten ==
  /\ Free
  /\ IF locked
       THEN UNCHANGED <<state, breakRequest, adjacent>>
       ELSE SetStateLocked("Stepping") /\ RunAdjacentSystems(FALSE) /\ UNCHANGED breakRequest
  /\ wanted' = "pause"
  /\ UNCHANGED <<active, locked, step, locks, cpc, host, stopReturned, steps>>

Break ==
  /\ Free
  /\ IF locked
       THEN breakRequest' = TRUE /\ UNCHANGED <<state, adjacent>>
       ELSE SetStateLocked("Stepping") /\ RunAdjacentSystems(FALSE) /\ UNCHANGED breakRequest
  /\ wanted' = "pause"
  /\ UNCHANGED <<active, locked, step, locks, cpc, host, stopReturned, steps>>
-----------------------------------------------------------------------------
(***************************************************************************)
(* The hosts.                                                              *)
(***************************************************************************)
Goto(h, from, to) == pc[h] = from /\ pc' = [pc EXCEPT ![h] = to]
Return(h) == pc' = [pc EXCEPT ![h] = "idle"] /\ call' = [call EXCEPT ![h] = "none"]

\* EnableStepping() and PauseAndLock(true) begin with s_stepping_lock.  Core.cpp
\* does not call them once it is stopping; the debugger only locks while the
\* CPU is stepping.
Begin(h, c) ==
  /\ c \in Calls \cap {"pause", "resume", "lock", "debugger"}
  /\ IF c = "debugger" THEN IsStepping ELSE ~isStopping
  /\ Goto(h, "idle", "stepping_lock")
  /\ call' = [call EXCEPT ![h] = c]
  /\ UNCHANGED <<state, flags, step, locks, adjacent, cpc, wasUnpaused, isStopping, history>>

TakeSteppingLock(h) ==
  /\ steppingLock = NoThread
  /\ Goto(h, "stepping_lock", "entered")
  /\ steppingLock' = h
  /\ UNCHANGED <<state, flags, step, stateLock, adjacent, cpc, call, wasUnpaused, isStopping,
                 history>>

\* EnableStepping(true), up to its wait
Pause(h) ==
  /\ call[h] = "pause" /\ Free
  /\ Goto(h, "entered", "pausing")
  /\ stateLock' = h
  /\ SetStateLocked("Stepping")
  /\ wanted' = "pause"
  /\ UNCHANGED <<flags, step, steppingLock, adjacent, cpc, call, wasUnpaused, isStopping,
                 stopReturned, steps>>

\* Fault: RunAdjacentSystems() is left to somebody else.
PauseEndKeepsAdjacent(h) ==
  /\ pc[h] = "pausing" /\ stateLock = h /\ ~active
  /\ stateLock' = NoThread /\ steppingLock' = NoThread
  /\ Return(h)
  /\ UNCHANGED <<state, flags, step, adjacent, cpc, wasUnpaused, isStopping, history>>

PauseEnd(h) ==
  /\ pc[h] = "pausing" /\ stateLock = h /\ ~active
  /\ RunAdjacentSystems(FALSE)
  /\ stateLock' = NoThread /\ steppingLock' = NoThread
  /\ Return(h)
  /\ UNCHANGED <<state, flags, step, cpc, wasUnpaused, isStopping, history>>

\* EnableStepping(false)
Resume(h) ==
  /\ pc[h] = "entered" /\ call[h] = "resume" /\ Free
  /\ SetStateLocked("Running")
  /\ IF state # "PowerDown"
       THEN NotifyCpu /\ RunAdjacentSystems(TRUE) /\ wanted' = "run"
       ELSE UNCHANGED <<cpc, adjacent, wanted>>
  /\ steppingLock' = NoThread
  /\ Return(h)
  /\ UNCHANGED <<flags, step, stateLock, wasUnpaused, isStopping, stopReturned, steps>>

\* PauseAndLock(true): s_state is read first and written then.
LockRead(h) ==
  /\ call[h] \in {"lock", "debugger"} /\ Free
  /\ Goto(h, "entered", "lock_set")
  /\ stateLock' = h
  /\ locked' = TRUE
  /\ wasUnpaused' = [wasUnpaused EXCEPT ![h] = state = "Running"]
  /\ UNCHANGED <<state, active, breakRequest, step, steppingLock, adjacent, cpc, call, isStopping,
                 history>>

LockSet(h) ==
  /\ Goto(h, "lock_set", "locking")
  /\ SetStateLocked("Stepping")
  /\ UNCHANGED <<flags, step, locks, adjacent, cpc, call, wasUnpaused, isStopping, history>>

\* The callers do not have the adjacent systems controlled here.
LockEnd(h) ==
  /\ stateLock = h /\ ~active
  /\ Goto(h, "locking", "held")
  /\ stateLock' = NoThread
  /\ UNCHANGED <<state, flags, step, steppingLock, adjacent, cpc, call, wasUnpaused, isStopping,
                 history>>

\* Core::PauseAndLock(false) returns at once when the core is stopping: the
\* lock is never released then.  The debugger calls CPU::PauseAndLock() itself.
EndLock(h) ==
  /\ pc[h] = "held"
  /\ IF call[h] = "lock" /\ isStopping
       THEN Return(h)
       ELSE Goto(h, "held", "unlocking") /\ UNCHANGED call
  /\ UNCHANGED <<state, flags, step, locks, adjacent, cpc, wasUnpaused, isStopping, history>>

\* PauseAndLock(false): Core::PauseAndLock() hands back what the lock
\* returned and has the adjacent systems controlled, the debugger does neither.
Unlock(h) ==
  /\ pc[h] = "unlocking" /\ Free
  /\ LET running == state # "PowerDown" /\ ~breakRequest
                      /\ call[h] = "lock" /\ wasUnpaused[h]
     IN state' = IF running THEN "Running" ELSE state
  /\ breakRequest' = FALSE /\ locked' = FALSE
  /\ NotifyCpu
  /\ IF call[h] = "lock" THEN RunAdjacentSystems(state' = "Running") ELSE UNCHANGED adjacent
  /\ steppingLock' = NoThread
  /\ Return(h)
  /\ UNCHANGED <<active, step, stateLock, wasUnpaused, isStopping, history>>

\* Fault: the event of a step that was not served yet is dropped.
StepOpcodeReplaces(h) ==
  /\ "step" \in Calls /\ steps < MaxSteps
  /\ pc[h] = "idle" /\ Free
  /\ steps' = steps + 1
  /\ IF IsStepping
       THEN /\ asking' = asking \cup {h}
            /\ stepRequest' = TRUE /\ stepSync' = h
            /\ NotifyCpu
       ELSE asking' = asking \ {h} /\ UNCHANGED <<stepRequest, stepSync, cpc>>
  /\ UNCHANGED <<state, flags, locks, adjacent, host, wanted, stopReturned>>

\* StepOpcode(event): the event is set at once when nothing will be stepped,
\* and for an earlier caller that was not served yet.
StepOpcode(h) ==
  /\ "step" \in Calls /\ steps < MaxSteps
  /\ pc[h] = "idle" /\ Free
  /\ steps' = steps + 1
  /\ IF IsStepping
       THEN /\ asking' = (asking \ {stepSync}) \cup {h}
            /\ stepRequest' = TRUE /\ stepSync' = h
            /\ NotifyCpu
       ELSE asking' = asking \ {h} /\ UNCHANGED <<stepRequest, stepSync, cpc>>
  /\ UNCHANGED <<state, flags, locks, adjacent, host, wanted, stopReturned>>

\* Core::Stop() returns if it was called before; s_is_stopping is set well
\* before CPU::Stop() is reached.
CoreStop(h) ==
  /\ "stop" \in Calls /\ ~isStopping
  /\ Goto(h, "idle", "stop")
  /\ call' = [call EXCEPT ![h] = "stop"]
  /\ isStopping' = TRUE
  /\ UNCHANGED <<state, flags, step, locks, adjacent, cpc, wasUnpaused, history>>

\* Shutdown(), once the CPU thread has ended, calls Stop() again.
Shutdown(h) ==
  /\ cpc = "done"
  /\ Goto(h, "idle", "stop")
  /\ call' = [call EXCEPT ![h] = "stop"]
  /\ UNCHANGED <<state, flags, step, locks, adjacent, cpc, wasUnpaused, isStopping, history>>

\* Fault: a CPU thread that waits for a step is not woken.
StopSilent(h) ==
  /\ Free
  /\ Goto(h, "stop", "stopping")
  /\ stateLock' = h
  /\ state' = "PowerDown"
  /\ UNCHANGED <<flags, step, steppingLock, adjacent, cpc, call, wasUnpaused, isStopping, history>>

\* Stop(), up to its wait
Stop(h) ==
  /\ Free
  /\ Goto(h, "stop", "stopping")
  /\ stateLock' = h
  /\ state' = "PowerDown"
  /\ NotifyCpu
  /\ UNCHANGED <<flags, step, steppingLock, adjacent, call, wasUnpaused, isStopping, history>>

StopEnd(h) ==
  /\ pc[h] = "stopping" /\ stateLock = h /\ ~active
  /\ RunAdjacentSystems(FALSE)
  /\ FlushStepSyncEventLocked
  /\ stateLock' = NoThread
  /\ stopReturned' = TRUE
  /\ Return(h)
  /\ UNCHANGED <<state, flags, steppingLock, cpc, wasUnpaused, isStopping, wanted, steps>>

\* wait_for() on s_state_cpu_idle_cvar gives the lock up ...
IdleWait(h) ==
  /\ pc[h] \in IdleWaits /\ stateLock = h /\ active
  /\ stateLock' = NoThread
  /\ UNCHANGED <<state, flags, step, steppingLock, adjacent, cpc, host, history>>

\* ... and takes it again when notified, after 100 ms, or spuriously.
IdleWake(h) ==
  /\ pc[h] \in IdleWaits /\ Free
  /\ stateLock' = h
  /\ UNCHANGED <<state, flags, step, steppingLock, adjacent, cpc, host, history>>

\* The steps of a call that need no lock, or already have it.
HostStep(h) == LockSet(h) \/ IdleWait(h) \/ PauseEnd(h) \/ LockEnd(h) \/ EndLock(h) \/ StopEnd(h)

\* The steps that take a lock.
HostAcquires(h) ==
  Pause(h) \/ Resume(h) \/ LockRead(h) \/ Unlock(h) \/ Stop(h) \/ IdleWake(h)
-----------------------------------------------------------------------------
Next ==
  \/ CpuStep \/ CpuAcquires \/ SpuriousWakeup \/ Break
  \/ \E h \in Hosts :
       \/ HostStep(h) \/ HostAcquires(h) \/ TakeSteppingLock(h)
       \/ StepOpcode(h) \/ CoreStop(h) \/ Shutdown(h)
       \/ \E c \in AllCalls : Begin(h, c)

\* Every thread is scheduled, RunLoop() reads s_state again and again, and a
\* thread that keeps asking for a mutex gets it; nobody has to call anything
\* and no wakeup is spurious by right.
Fairness ==
  /\ WF_vars(CpuStep) /\ SF_vars(CpuAcquires)
  /\ \A h \in Hosts :
       WF_vars(HostStep(h)) /\ SF_vars(HostAcquires(h)) /\ SF_vars(TakeSteppingLock(h))

Spec == Init /\ [][Next]_vars /\ Fairness
-----------------------------------------------------------------------------
\* Types of all variables; s_state_cpu_thread_active, which the hosts go by,
\* tells where the CPU thread is.
TypeOK ==
  /\ state \in States
  /\ active \in BOOLEAN /\ locked \in BOOLEAN /\ breakRequest \in BOOLEAN
  /\ active <=> cpc \in Inside
  /\ stepRequest \in BOOLEAN /\ stepSync \in Hosts \cup {NoThread} /\ asking \subseteq Hosts
  /\ steppingLock \in Hosts \cup {NoThread}
  /\ stateLock \in Hosts \cup {CpuThread, NoThread}
  /\ adjacent \in BOOLEAN
  /\ cpc \in CpuPCs
  /\ pc \in [Hosts -> HostPCs] /\ call \in [Hosts -> AllCalls \cup {"none"}]
  /\ wasUnpaused \in [Hosts -> BOOLEAN]
  /\ isStopping \in BOOLEAN /\ wanted \in {"pause", "run"}
  /\ stopReturned \in BOOLEAN /\ steps \in 0 .. MaxSteps

\* CPU.h: while PauseAndLock() is held "the CPU Thread will not perform any
\* action", whatever steps, breakpoints and power-downs arrive meanwhile, and
\* there is one holder at most.
LockIsExclusive ==
  \A h \in Hosts : pc[h] \in Holding =>
    /\ cpc \notin Inside
    /\ \A g \in Hosts \ {h} : pc[g] \notin Holding

\* StepOpcode() and FlushStepSyncEventLocked() never drop the event of a
\* caller: whoever still waits for a step is the one that will be signalled.
StepIsRemembered ==
  /\ asking \subseteq {stepSync}
  /\ asking # {} => stepRequest

\* What was asked for last is what happens: a pause or a breakpoint is not
\* undone by the end of someone's PauseAndLock(), nor is a running game left
\* paused by it.
StateIsWanted ==
  /\ wanted = "pause" => state # "Running"
  /\ wanted = "run" /\ ~locked => state # "Stepping"

\* RunAdjacentSystems() keeps the GPU and the sound in step with the CPU:
\* when nobody is in the middle of a change they run iff the CPU does.
AdjacentFollows ==
  ~locked /\ (\A h \in Hosts : pc[h] \notin IdleWaits) => (adjacent <=> state = "Running")

\* The comment in Stop(): "State::PowerDown is a priority state which will
\* stick permanently", and CPU.h: "Once started, State::PowerDown cannot be
\* stopped."  With Breakpoints this does not hold, and no run checks it: the
\* single step off a breakpoint stores Running without the lock.
PowerDownSticks == (\E h \in Hosts : pc[h] = "stopping") \/ stopReturned => state = "PowerDown"

\* A host went away with s_stepping_lock, because the core was stopping when it
\* came to unlock.
Abandoned == \E h \in Hosts : steppingLock = h /\ pc[h] \notin InSteppingLock

\* Nobody waits for ever for the CPU thread, for a lock or for the other
\* hosts: EnableStepping() and PauseAndLock() return, unless a stop made
\* somebody keep the lock, and Stop() returns in any case.
CallsReturn ==
  \A h \in Hosts :
    /\ pc[h] # "idle" ~> pc[h] = "idle" \/ Abandoned
    /\ pc[h] \in {"stop", "stopping"} ~> pc[h] = "idle"

\* Stop() ends Run(), also when the CPU thread waited for a step or was locked,
\* unless the lock was never released because of the stop itself.
PowerDownEnds == state = "PowerDown" ~> cpc = "done" \/ Abandoned
=============================================================================
