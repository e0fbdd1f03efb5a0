----------------------------- MODULE CPUProofs ------------------------------
(***************************************************************************)
(* For any number of hosts and any mix of calls: PauseAndLock() excludes   *)
(* the CPU thread and no step is forgotten; and where the single step off  *)
(* a breakpoint and the debugger's lock play no part, the last request     *)
(* decides the state and the adjacent systems follow it.                   *)
(*                                                                         *)
(* The strengthening ties each place of a thread to the two mutexes and to *)
(* s_state_paused_and_locked (Owners, the CPU thread can only become       *)
(* active where it holds the lock and sees that flag down), and says what  *)
(* a host that is about to unlock knows of the last request (Pending).     *)
(***************************************************************************)
EXTENDS CPU, TLAPS

LockPCs == {"lock_set", "locking"} \cup Holding

\* Who holds which mutex, and when the CPU thread is paused and locked.
Owners ==
  /\ stateLock = CpuThread <=> cpc \in {"top", "check", "step_test"}
  /\ \A h \in Hosts :
       /\ stateLock = h => pc[h] \in IdleWaits \cup {"lock_set"}
       /\ pc[h] = "lock_set" => stateLock = h
       /\ pc[h] \in InSteppingLock => steppingLock = h
       /\ pc[h] \in LockPCs => locked
  /\ locked => steppingLock \in Hosts /\ pc[steppingLock] \notin {"entered", "pausing"}

IInv == TypeOK /\ Owners /\ LockIsExclusive /\ StepIsRemembered

\* Nothing but the calls of Core.cpp, and no single step off a breakpoint.
Plain == ~Breakpoints /\ "debugger" \notin Calls

\* What the calls in progress know of the last request.
Pending ==
  /\ breakRequest => locked /\ wanted = "pause"
  /\ locked /\ state = "Running" => pc[steppingLock] = "lock_set"
  /\ \A h \in Hosts :
       /\ call[h] # "debugger"
       /\ pc[h] \in LockPCs /\ wanted = "pause" /\ wasUnpaused[h] => breakRequest
       /\ pc[h] \in LockPCs /\ wanted = "run" => wasUnpaused[h] \/ state = "PowerDown"
       /\ pc[h] \in LockPCs => call[h] = "lock"
       /\ pc[h] = "pausing" => wanted = "pause"
       /\ pc[h] = "stopping" => state = "PowerDown"

PlainInv == Pending /\ StateIsWanted /\ AdjacentFollows

-----------------------------------------------------------------------------
\* The state that Init() and the setup leave satisfies the invariant.
LEMMA InitIInv == Init => IInv
<1> SUFFICES ASSUME Init PROVE IInv
  OBVIOUS
<1> USE CPUAssumption DEF Init, Inside, IdleWaits, LockPCs, Holding, InSteppingLock
<1>1. TypeOK
  <2>1. pc \in [Hosts -> HostPCs]
    BY DEF HostPCs
  <2>2. call \in [Hosts -> AllCalls \cup {"none"}] /\ wasUnpaused \in [Hosts -> BOOLEAN]
    OBVIOUS
  <2>3. active \in BOOLEAN /\ locked \in BOOLEAN /\ breakRequest \in BOOLEAN
          /\ stepRequest \in BOOLEAN /\ adjacent \in BOOLEAN /\ isStopping \in BOOLEAN /\ stopReturned \in BOOLEAN
    OBVIOUS
  <2>4. active <=> cpc \in Inside
    OBVIOUS
  <2>5. state \in States /\ cpc \in CpuPCs /\ steps \in 0 .. MaxSteps
    BY DEF States, CpuPCs
  <2> QED
    BY <2>1, <2>2, <2>3, <2>4, <2>5 DEF TypeOK
<1>2. Owners
  BY DEF Owners
<1>3. LockIsExclusive /\ StepIsRemembered
  BY DEF LockIsExclusive, StepIsRemembered
<1> QED
  BY <1>1, <1>2, <1>3 DEF IInv

\* Every step of every thread preserves it.
LEMMA NextIInv == IInv /\ [Next]_vars => IInv'
<1> SUFFICES ASSUME IInv, [Next]_vars PROVE IInv'
  OBVIOUS
<1> USE CPUAssumption
    DEF IInv, TypeOK, Owners, LockIsExclusive, StepIsRemembered, States, Inside, CpuPCs,
        IdleWaits, Holding, InSteppingLock, HostPCs, LockPCs, AllCalls, Free, IsStepping,
        SetStateLocked, NotifyCpu,
        FlushStepSyncEventLocked, RunAdjacentSystems, CpuGoto, Goto, Return, flags, step, locks,
        host, history
<1>1. CASE RunLock
  BY <1>1 DEF RunLock
<1>2. CASE RunTop
  BY <1>2 DEF RunTop
<1>3. CASE RunCheck
  <2>1. TypeOK'
    <3>1. cpc' \in CpuPCs /\ active' \in BOOLEAN
      BY <1>3 DEF RunCheck
    <3>2. active' <=> cpc' \in Inside
      BY <1>3 DEF RunCheck
    <3>3. stateLock' \in Hosts \cup {CpuThread, NoThread}
      BY <1>3 DEF RunCheck
    <3>4. UNCHANGED <<state, locked, breakRequest, step, steppingLock, adjacent, host, history>>
      BY <1>3 DEF RunCheck
    <3> QED
      BY <3>1, <3>2, <3>3, <3>4
  <2>2. Owners'
    BY <1>3 DEF RunCheck
  <2>3. LockIsExclusive'
    BY <1>3 DEF RunCheck
  <2>4. StepIsRemembered'
    BY <1>3 DEF RunCheck
  <2> QED
    BY <2>1, <2>2, <2>3, <2>4
<1>4. CASE StepTest
  <2>1. TypeOK'
    <3>1. state' \in States /\ cpc' \in CpuPCs
      BY <1>4 DEF StepTest
    <3>2. active' \in BOOLEAN /\ locked' \in BOOLEAN /\ breakRequest' \in BOOLEAN
      BY <1>4 DEF StepTest
    <3>3. active' <=> cpc' \in Inside
      BY <1>4 DEF StepTest
    <3>4. stepRequest' \in BOOLEAN /\ stepSync' \in Hosts \cup {NoThread} /\ asking' \subseteq Hosts
      BY <1>4 DEF StepTest
    <3>5. steppingLock' \in Hosts \cup {NoThread} /\ stateLock' \in Hosts \cup {CpuThread, NoThread}
      BY <1>4 DEF StepTest
    <3>6. adjacent' \in BOOLEAN /\ isStopping' \in BOOLEAN /\ stopReturned' \in BOOLEAN
      BY <1>4 DEF StepTest
    <3>7. pc' \in [Hosts -> HostPCs] /\ call' \in [Hosts -> AllCalls \cup {"none"}]
      BY <1>4 DEF StepTest
    <3>8. wasUnpaused' \in [Hosts -> BOOLEAN] /\ wanted' \in {"pause", "run"}
            /\ steps' \in 0 .. MaxSteps
      BY <1>4 DEF StepTest
    <3> QED
      BY <3>1, <3>2, <3>3, <3>4, <3>5, <3>6, <3>7, <3>8
  <2>2. Owners'
    BY <1>4 DEF StepTest
  <2>3. LockIsExclusive'
    BY <1>4 DEF StepTest
  <2>4. StepIsRemembered'
    BY <1>4 DEF StepTest
  <2> QED
    BY <2>1, <2>2, <2>3, <2>4
<1>5. CASE BreakpointStep
  BY <1>5 DEF BreakpointStep
<1>6. CASE RunLoop
  BY <1>6 DEF RunLoop
<1>7. CASE SingleStep
  BY <1>7 DEF SingleStep
<1>8. CASE RunLeave
  <2>1. TypeOK'
    BY <1>8 DEF RunLeave
  <2>2. Owners'
    BY <1>8 DEF RunLeave
  <2>3. LockIsExclusive'
    BY <1>8 DEF RunLeave
  <2>4. StepIsRemembered'
    BY <1>8 DEF RunLeave
  <2> QED
    BY <2>1, <2>2, <2>3, <2>4
<1>9. CASE SpuriousWakeup
  BY <1>9 DEF SpuriousWakeup
<1>10. CASE Break
  <2>1. TypeOK'
    <3>1. state' \in States /\ cpc' \in CpuPCs
      BY <1>10 DEF Break
    <3>2. active' \in BOOLEAN /\ locked' \in BOOLEAN /\ breakRequest' \in BOOLEAN
      BY <1>10 DEF Break
    <3>3. active' <=> cpc' \in Inside
      BY <1>10 DEF Break
    <3>4. stepRequest' \in BOOLEAN /\ stepSync' \in Hosts \cup {NoThread} /\ asking' \subseteq Hosts
      BY <1>10 DEF Break
    <3>5. steppingLock' \in Hosts \cup {NoThread} /\ stateLock' \in Hosts \cup {CpuThread, NoThread}
      BY <1>10 DEF Break
    <3>6. adjacent' \in BOOLEAN /\ isStopping' \in BOOLEAN /\ stopReturned' \in BOOLEAN
      BY <1>10 DEF Break
    <3>7. pc' \in [Hosts -> HostPCs] /\ call' \in [Hosts -> AllCalls \cup {"none"}]
      BY <1>10 DEF Break
    <3>8. wasUnpaused' \in [Hosts -> BOOLEAN] /\ wanted' \in {"pause", "run"}
            /\ steps' \in 0 .. MaxSteps
      BY <1>10 DEF Break
    <3> QED
      BY <3>1, <3>2, <3>3, <3>4, <3>5, <3>6, <3>7, <3>8
  <2>2. Owners'
    BY <1>10 DEF Break
  <2>3. LockIsExclusive'
    BY <1>10 DEF Break
  <2>4. StepIsRemembered'
    BY <1>10 DEF Break
  <2> QED
    BY <2>1, <2>2, <2>3, <2>4
<1>11. ASSUME NEW h \in Hosts, LockSet(h) PROVE IInv'
  <2>1. TypeOK'
    BY <1>11 DEF LockSet
  <2>2. Owners'
    BY <1>11 DEF LockSet
  <2>3. LockIsExclusive'
    BY <1>11 DEF LockSet
  <2>4. StepIsRemembered'
    BY <1>11 DEF LockSet
  <2> QED
    BY <2>1, <2>2, <2>3, <2>4
<1>12. ASSUME NEW h \in Hosts, IdleWait(h) PROVE IInv'
  <2>1. TypeOK'
    BY <1>12 DEF IdleWait
  <2>2. Owners'
    BY <1>12 DEF IdleWait
  <2>3. LockIsExclusive'
    BY <1>12 DEF IdleWait
  <2>4. StepIsRemembered'
    BY <1>12 DEF IdleWait
  <2> QED
    BY <2>1, <2>2, <2>3, <2>4
<1>13. ASSUME NEW h \in Hosts, PauseEnd(h) PROVE IInv'
  <2>1. TypeOK'
    <3>1. state' \in States /\ cpc' \in CpuPCs
      BY <1>13 DEF PauseEnd
    <3>2. active' \in BOOLEAN /\ locked' \in BOOLEAN /\ breakRequest' \in BOOLEAN
      BY <1>13 DEF PauseEnd
    <3>3. active' <=> cpc' \in Inside
      BY <1>13 DEF PauseEnd
    <3>4. stepRequest' \in BOOLEAN /\ stepSync' \in Hosts \cup {NoThread} /\ asking' \subseteq Hosts
      BY <1>13 DEF PauseEnd
    <3>5. steppingLock' \in Hosts \cup {NoThread} /\ stateLock' \in Hosts \cup {CpuThread, NoThread}
      BY <1>13 DEF PauseEnd
    <3>6. adjacent' \in BOOLEAN /\ isStopping' \in BOOLEAN /\ stopReturned' \in BOOLEAN
      BY <1>13 DEF PauseEnd
    <3>7. pc' \in [Hosts -> HostPCs] /\ call' \in [Hosts -> AllCalls \cup {"none"}]
      BY <1>13 DEF PauseEnd
    <3>8. wasUnpaused' \in [Hosts -> BOOLEAN] /\ wanted' \in {"pause", "run"}
            /\ steps' \in 0 .. MaxSteps
      BY <1>13 DEF PauseEnd
    <3> QED
      BY <3>1, <3>2, <3>3, <3>4, <3>5, <3>6, <3>7, <3>8
  <2>2. Owners'
    BY <1>13 DEF PauseEnd
  <2>3. LockIsExclusive'
    BY <1>13 DEF PauseEnd
  <2>4. StepIsRemembered'
    BY <1>13 DEF PauseEnd
  <2> QED
    BY <2>1, <2>2, <2>3, <2>4
<1>14. ASSUME NEW h \in Hosts, LockEnd(h) PROVE IInv'
  <2>1. TypeOK'
    BY <1>14 DEF LockEnd
  <2>2. Owners'
    BY <1>14 DEF LockEnd
  <2>3. LockIsExclusive'
    BY <1>14 DEF LockEnd
  <2>4. StepIsRemembered'
    BY <1>14 DEF LockEnd
  <2> QED
    BY <2>1, <2>2, <2>3, <2>4
<1>15. ASSUME NEW h \in Hosts, StopEnd(h) PROVE IInv'
  <2>1. TypeOK'
    BY <1>15 DEF StopEnd
  <2>2. Owners'
    BY <1>15 DEF StopEnd
  <2>3. LockIsExclusive'
    BY <1>15 DEF StopEnd
  <2>4. StepIsRemembered'
    BY <1>15 DEF StopEnd
  <2> QED
    BY <2>1, <2>2, <2>3, <2>4
<1>16. ASSUME NEW h \in Hosts, Pause(h) PROVE IInv'
  <2>1. TypeOK'
    BY <1>16 DEF Pause
  <2>2. Owners'
    BY <1>16 DEF Pause
  <2>3. LockIsExclusive'
    BY <1>16 DEF Pause
  <2>4. StepIsRemembered'
    BY <1>16 DEF Pause
  <2> QED
    BY <2>1, <2>2, <2>3, <2>4
<1>17. ASSUME NEW h \in Hosts, Resume(h) PROVE IInv'
  <2>1. TypeOK'
    <3>1. state' \in States /\ cpc' \in CpuPCs
      BY <1>17 DEF Resume
    <3>2. active' \in BOOLEAN /\ locked' \in BOOLEAN /\ breakRequest' \in BOOLEAN
      BY <1>17 DEF Resume
    <3>3. active' <=> cpc' \in Inside
      BY <1>17 DEF Resume
    <3>4. stepRequest' \in BOOLEAN /\ stepSync' \in Hosts \cup {NoThread} /\ asking' \subseteq Hosts
      BY <1>17 DEF Resume
    <3>5. steppingLock' \in Hosts \cup {NoThread} /\ stateLock' \in Hosts \cup {CpuThread, NoThread}
      BY <1>17 DEF Resume
    <3>6. adjacent' \in BOOLEAN /\ isStopping' \in BOOLEAN /\ stopReturned' \in BOOLEAN
      BY <1>17 DEF Resume
    <3>7. pc' \in [Hosts -> HostPCs] /\ call' \in [Hosts -> AllCalls \cup {"none"}]
      BY <1>17 DEF Resume
    <3>8. wasUnpaused' \in [Hosts -> BOOLEAN] /\ wanted' \in {"pause", "run"}
            /\ steps' \in 0 .. MaxSteps
      BY <1>17 DEF Resume
    <3> QED
      BY <3>1, <3>2, <3>3, <3>4, <3>5, <3>6, <3>7, <3>8
  <2>2. Owners'
    BY <1>17 DEF Resume
  <2>3. LockIsExclusive'
    BY <1>17 DEF Resume
  <2>4. StepIsRemembered'
    BY <1>17 DEF Resume
  <2> QED
    BY <2>1, <2>2, <2>3, <2>4
<1>18. ASSUME NEW h \in Hosts, LockRead(h) PROVE IInv'
  <2>1. TypeOK'
    BY <1>18 DEF LockRead
  <2>2. Owners'
    BY <1>18 DEF LockRead
  <2>3. LockIsExclusive'
    BY <1>18 DEF LockRead
  <2>4. StepIsRemembered'
    BY <1>18 DEF LockRead
  <2> QED
    BY <2>1, <2>2, <2>3, <2>4
<1>19. ASSUME NEW h \in Hosts, Unlock(h) PROVE IInv'
  <2>1. TypeOK'
    BY <1>19 DEF Unlock
  <2>2. Owners'
    BY <1>19 DEF Unlock
  <2>3. LockIsExclusive'
    BY <1>19 DEF Unlock
  <2>4. StepIsRemembered'
    BY <1>19 DEF Unlock
  <2> QED
    BY <2>1, <2>2, <2>3, <2>4
<1>20. ASSUME NEW h \in Hosts, IdleWake(h) PROVE IInv'
  <2>1. TypeOK'
    BY <1>20 DEF IdleWake
  <2>2. Owners'
    BY <1>20 DEF IdleWake
  <2>3. LockIsExclusive'
    BY <1>20 DEF IdleWake
  <2>4. StepIsRemembered'
    BY <1>20 DEF IdleWake
  <2> QED
    BY <2>1, <2>2, <2>3, <2>4
<1>21. ASSUME NEW h \in Hosts, TakeSteppingLock(h) PROVE IInv'
  <2>1. TypeOK'
    BY <1>21 DEF TakeSteppingLock
  <2>2. Owners'
    BY <1>21 DEF TakeSteppingLock
  <2>3. LockIsExclusive'
    BY <1>21 DEF TakeSteppingLock
  <2>4. StepIsRemembered'
    BY <1>21 DEF TakeSteppingLock
  <2> QED
    BY <2>1, <2>2, <2>3, <2>4
<1>22. ASSUME NEW h \in Hosts, StepOpcode(h) PROVE IInv'
  <2>1. TypeOK'
    <3>1. state' \in States /\ cpc' \in CpuPCs
      BY <1>22 DEF StepOpcode
    <3>2. active' \in BOOLEAN /\ locked' \in BOOLEAN /\ breakRequest' \in BOOLEAN
      BY <1>22 DEF StepOpcode
    <3>3. active' <=> cpc' \in Inside
      BY <1>22 DEF StepOpcode
    <3>4. stepRequest' \in BOOLEAN /\ stepSync' \in Hosts \cup {NoThread} /\ asking' \subseteq Hosts
      BY <1>22 DEF StepOpcode
    <3>5. steppingLock' \in Hosts \cup {NoThread} /\ stateLock' \in Hosts \cup {CpuThread, NoThread}
      BY <1>22 DEF StepOpcode
    <3>6. adjacent' \in BOOLEAN /\ isStopping' \in BOOLEAN /\ stopReturned' \in BOOLEAN
      BY <1>22 DEF StepOpcode
    <3>7. pc' \in [Hosts -> HostPCs] /\ call' \in [Hosts -> AllCalls \cup {"none"}]
      BY <1>22 DEF StepOpcode
    <3>8. wasUnpaused' \in [Hosts -> BOOLEAN] /\ wanted' \in {"pause", "run"}
            /\ steps' \in 0 .. MaxSteps
      BY <1>22 DEF StepOpcode
    <3> QED
      BY <3>1, <3>2, <3>3, <3>4, <3>5, <3>6, <3>7, <3>8
  <2>2. Owners'
    BY <1>22 DEF StepOpcode
  <2>3. LockIsExclusive'
    BY <1>22 DEF StepOpcode
  <2>4. StepIsRemembered'
    BY <1>22 DEF StepOpcode
  <2> QED
    BY <2>1, <2>2, <2>3, <2>4
<1>23. ASSUME NEW h \in Hosts, Stop(h) PROVE IInv'
  <2>1. TypeOK'
    BY <1>23 DEF Stop
  <2>2. Owners'
    BY <1>23 DEF Stop
  <2>3. LockIsExclusive'
    BY <1>23 DEF Stop
  <2>4. StepIsRemembered'
    BY <1>23 DEF Stop
  <2> QED
    BY <2>1, <2>2, <2>3, <2>4
<1>24. ASSUME NEW h \in Hosts, NEW c \in AllCalls, Begin(h, c) PROVE IInv'
  <2>1. TypeOK'
    BY <1>24 DEF Begin
  <2>2. Owners'
    BY <1>24 DEF Begin
  <2>3. LockIsExclusive'
    BY <1>24 DEF Begin
  <2>4. StepIsRemembered'
    BY <1>24 DEF Begin
  <2> QED
    BY <2>1, <2>2, <2>3, <2>4
<1>25. ASSUME NEW h \in Hosts, EndLock(h) PROVE IInv'
  <2>1. TypeOK'
    BY <1>25 DEF EndLock
  <2>2. Owners'
    BY <1>25 DEF EndLock
  <2>3. LockIsExclusive'
    BY <1>25 DEF EndLock
  <2>4. StepIsRemembered'
    BY <1>25 DEF EndLock
  <2> QED
    BY <2>1, <2>2, <2>3, <2>4
<1>26. ASSUME NEW h \in Hosts, CoreStop(h) PROVE IInv'
  <2>1. TypeOK'
    BY <1>26 DEF CoreStop
  <2>2. Owners'
    BY <1>26 DEF CoreStop
  <2>3. LockIsExclusive'
    BY <1>26 DEF CoreStop
  <2>4. StepIsRemembered'
    BY <1>26 DEF CoreStop
  <2> QED
    BY <2>1, <2>2, <2>3, <2>4
<1>27. ASSUME NEW h \in Hosts, Shutdown(h) PROVE IInv'
  <2>1. TypeOK'
    BY <1>27 DEF Shutdown
  <2>2. Owners'
    BY <1>27 DEF Shutdown
  <2>3. LockIsExclusive'
    BY <1>27 DEF Shutdown
  <2>4. StepIsRemembered'
    BY <1>27 DEF Shutdown
  <2> QED
    BY <2>1, <2>2, <2>3, <2>4
<1>28. CASE UNCHANGED vars
  BY <1>28 DEF vars, history, locks, host
<1> QED
  BY <1>1, <1>2, <1>3, <1>4, <1>5, <1>6, <1>7, <1>8, <1>9, <1>10, <1>11, <1>12, <1>13,
     <1>14, <1>15, <1>16, <1>17, <1>18, <1>19, <1>20, <1>21, <1>22, <1>23, <1>24, <1>25,
     <1>26, <1>27, <1>28 DEF
     Next, CpuStep, CpuAcquires, HostStep, HostAcquires

\* The invariant holds throughout.
LEMMA Inductive == Spec => []IInv
  BY InitIInv, NextIInv, PTL DEF Spec
-----------------------------------------------------------------------------
\* The variables of CPU.cpp keep their types, and s_state_cpu_thread_active
\* tells where the CPU thread is.
THEOREM TypeCorrect == Spec => []TypeOK
<1>1. IInv => TypeOK
  BY DEF IInv
<1> QED BY <1>1, Inductive, PTL

\* PauseAndLock() keeps its promise of CPU.h: its one holder may touch the
\* state of the CPU thread, with any number of hosts and with breakpoints.
THEOREM LockExcludes == Spec => []LockIsExclusive
<1>1. IInv => LockIsExclusive
  BY DEF IInv
<1> QED BY <1>1, Inductive, PTL

\* StepOpcode() and the CPU thread never forget a caller's event.
THEOREM StepsRemembered == Spec => []StepIsRemembered
<1>1. IInv => StepIsRemembered
  BY DEF IInv
<1> QED BY <1>1, Inductive, PTL
-----------------------------------------------------------------------------
\* Init() pauses the CPU and the adjacent systems.
LEMMA InitPlain == Init => PlainInv
  BY DEF Init, PlainInv, Pending, StateIsWanted, AdjacentFollows, LockPCs, Holding, IdleWaits

\* Without breakpoint steps and the debugger every step keeps the last
\* request, and the adjacent systems, in force.
LEMMA NextPlain == Plain /\ IInv /\ PlainInv /\ [Next]_vars => PlainInv'
<1> SUFFICES ASSUME Plain, IInv, PlainInv, [Next]_vars PROVE PlainInv'
  OBVIOUS
<1> USE CPUAssumption
    DEF Plain, IInv, TypeOK, Owners, PlainInv, Pending, StateIsWanted, AdjacentFollows, States,
        Inside, CpuPCs, IdleWaits, Holding, InSteppingLock, HostPCs, LockPCs, AllCalls, Free,
        IsStepping, SetStateLocked,
        NotifyCpu, FlushStepSyncEventLocked, RunAdjacentSystems, CpuGoto, Goto, Return, flags,
        step, locks, host, history
<1>1. CASE RunLock
  BY <1>1 DEF RunLock
<1>2. CASE RunTop
  BY <1>2 DEF RunTop
<1>3. CASE RunCheck
  BY <1>3 DEF RunCheck
<1>4. CASE StepTest
  BY <1>4 DEF StepTest
<1>5. CASE BreakpointStep
  BY <1>5 DEF BreakpointStep
<1>6. CASE RunLoop
  BY <1>6 DEF RunLoop
<1>7. CASE SingleStep
  BY <1>7 DEF SingleStep
<1>8. CASE RunLeave
  BY <1>8 DEF RunLeave
<1>9. CASE SpuriousWakeup
  BY <1>9 DEF SpuriousWakeup
<1>10. CASE Break
  <2>1. Pending'
    BY <1>10 DEF Break
  <2>2. StateIsWanted'
    BY <1>10 DEF Break
  <2>3. AdjacentFollows'
    BY <1>10 DEF Break
  <2> QED
    BY <2>1, <2>2, <2>3
<1>11. ASSUME NEW h \in Hosts, LockSet(h) PROVE PlainInv'
  BY <1>11 DEF LockSet
<1>12. ASSUME NEW h \in Hosts, IdleWait(h) PROVE PlainInv'
  BY <1>12 DEF IdleWait
<1>13. ASSUME NEW h \in Hosts, PauseEnd(h) PROVE PlainInv'
  BY <1>13 DEF PauseEnd
<1>14. ASSUME NEW h \in Hosts, LockEnd(h) PROVE PlainInv'
  BY <1>14 DEF LockEnd
<1>15. ASSUME NEW h \in Hosts, StopEnd(h) PROVE PlainInv'
  BY <1>15 DEF StopEnd
<1>16. ASSUME NEW h \in Hosts, Pause(h) PROVE PlainInv'
  BY <1>16 DEF Pause
<1>17. ASSUME NEW h \in Hosts, Resume(h) PROVE PlainInv'
  BY <1>17 DEF Resume
<1>18. ASSUME NEW h \in Hosts, LockRead(h) PROVE PlainInv'
  BY <1>18 DEF LockRead
<1>19. ASSUME NEW h \in Hosts, Unlock(h) PROVE PlainInv'
  BY <1>19 DEF Unlock
<1>20. ASSUME NEW h \in Hosts, IdleWake(h) PROVE PlainInv'
  BY <1>20 DEF IdleWake
<1>21. ASSUME NEW h \in Hosts, TakeSteppingLock(h) PROVE PlainInv'
  BY <1>21 DEF TakeSteppingLock
<1>22. ASSUME NEW h \in Hosts, StepOpcode(h) PROVE PlainInv'
  BY <1>22 DEF StepOpcode
<1>23. ASSUME NEW h \in Hosts, Stop(h) PROVE PlainInv'
  BY <1>23 DEF Stop
<1>24. ASSUME NEW h \in Hosts, NEW c \in AllCalls, Begin(h, c) PROVE PlainInv'
  BY <1>24 DEF Begin
<1>25. ASSUME NEW h \in Hosts, EndLock(h) PROVE PlainInv'
  BY <1>25 DEF EndLock
<1>26. ASSUME NEW h \in Hosts, CoreStop(h) PROVE PlainInv'
  BY <1>26 DEF CoreStop
<1>27. ASSUME NEW h \in Hosts, Shutdown(h) PROVE PlainInv'
  BY <1>27 DEF Shutdown
<1>28. CASE UNCHANGED vars
  BY <1>28 DEF vars, history, locks, host
<1> QED
  BY <1>1, <1>2, <1>3, <1>4, <1>5, <1>6, <1>7, <1>8, <1>9, <1>10, <1>11, <1>12, <1>13,
     <1>14, <1>15, <1>16, <1>17, <1>18, <1>19, <1>20, <1>21, <1>22, <1>23, <1>24, <1>25,
     <1>26, <1>27, <1>28 DEF
     Next, CpuStep, CpuAcquires, HostStep, HostAcquires

\* A pause or a breakpoint is never undone by another thread's unlock, and a
\* running game is never left paused by one, for any number of hosts.
THEOREM LastRequestWins == Plain => (Spec => []StateIsWanted)
<1> SUFFICES ASSUME Plain PROVE Spec => []StateIsWanted
  OBVIOUS
<1>1. IInv /\ PlainInv /\ [Next]_vars => PlainInv'
  BY NextPlain
<1>2. PlainInv => StateIsWanted
  BY DEF PlainInv
<1> QED BY <1>1, <1>2, InitPlain, Inductive, PTL DEF Spec

\* The GPU and the sound run iff the CPU does, whenever nobody is changing it.
THEOREM AdjacentInStep == Plain => (Spec => []AdjacentFollows)
<1> SUFFICES ASSUME Plain PROVE Spec => []AdjacentFollows
  OBVIOUS
<1>1. IInv /\ PlainInv /\ [Next]_vars => PlainInv'
  BY NextPlain
<1>2. PlainInv => AdjacentFollows
  BY DEF PlainInv
<1> QED BY <1>1, <1>2, InitPlain, Inductive, PTL DEF Spec
=============================================================================
