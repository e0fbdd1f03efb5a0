----------------------------- MODULE GpuThread ------------------------------
(***************************************************************************)
(* Dual-core mode: the GPU thread in RunGpuLoop() (VideoCommon/Fifo.cpp),  *)
(* the CPU thread that feeds it, and the host thread that pauses, resumes  *)
(* and stops the emulation.  The parts are WorkLoop (s_gpu_mainloop, which *)
(* BlockingLoop implements), AsyncRequests and CommandProcessor; this      *)
(* module adds s_emu_running_state, the handshake over s_sync_ticks, and   *)
(* the order in which each thread does things.                             *)
(*                                                                         *)
(* The CPU thread executes games ("guest") and, at any time there, a due   *)
(* event of CoreTiming.  Of CPU.cpp only s_state and the activity of the   *)
(* CPU thread appear; CPU.tla has the rest.                                *)
(***************************************************************************)
EXTENDS Integers, AsyncRequests, CommandProcessor

CONSTANTS
  SyncGPU,      \* bSyncGPU
  MinDistance,  \* iSyncGpuMinDistance
  MaxDistance,  \* iSyncGpuMaxDistance
  Slot,         \* the emulated ticks between two SyncGPUCallback()s
  Cycles,       \* the ticks that a chunk costs the GPU
  MaxTicks,     \* bound on s_sync_ticks
  FrameStep,    \* the host advances the emulation by frames
  HostCalls     \* what else the host does

ASSUME GpuAssumption ==
  /\ SyncGPU \in BOOLEAN /\ FrameStep \in BOOLEAN
  /\ MinDistance \in Int /\ MaxDistance \in Int /\ MinDistance <= 0 /\ 0 < MaxDistance
  /\ Slot \in Nat \ {0} /\ Cycles \in Nat
  /\ MaxTicks \in Int
  /\ HostCalls \subseteq {"pause", "stop"}

VARIABLES
  level, run, on, quit,  \* s_gpu_mainloop
  running,    \* s_emu_running_state
  ticks,      \* s_sync_ticks
  syncEvent,  \* s_sync_wakeup_event is signalled
  suspended,  \* s_syncing_suspended
  callbacks,  \* how many SyncGPUCallback events are pending
  oldTicks,   \* old, in WaitForGpuThread()
  state,      \* s_state of CPU.cpp
  cpu,        \* where the CPU thread is
  gpu,        \* where the GPU thread is
  first,      \* the GPU thread has not yet been in the loop of this payload
  polling,    \* history: the loop was done when the GPU thread began to test its condition
  host        \* where the host thread is

loop == <<level, run, on, quit>>
sync == <<ticks, syncEvent, suspended, callbacks, oldTicks>>
payload == <<first, polling>>
vars == <<loop, requests, cp, running, sync, state, cpu, gpu, payload, host>>

Loop == INSTANCE WorkLoop

\* Fifo::Init() has prepared the loop and EmuThread() has called CPU::Break().
Init ==
  /\ Loop!Ready /\ RequestsInit /\ CPInit
  /\ running = FALSE
  /\ ticks = 0 /\ syncEvent = FALSE /\ suspended = TRUE /\ callbacks = 0 /\ oldTicks = 0
  /\ state = "stepping" /\ cpu = "inactive"
  /\ gpu = "enable" /\ first = TRUE /\ polling = FALSE
  /\ host = "idle"

CpuGoto(from, to) == cpu = from /\ cpu' = to
GpuGoto(from, to) == gpu = from /\ gpu' = to
HostGoto(from, to) == host = from /\ host' = to
-----------------------------------------------------------------------------
(***************************************************************************)
(* RunGpu(), called on the CPU thread.                                     *)
(***************************************************************************)
\* Fault: the callback is scheduled once more each time.
RunGpuForgets ==
  /\ Loop!Wakeup
  /\ callbacks' = IF SyncGPU /\ suspended THEN callbacks + 1 ELSE callbacks
  /\ UNCHANGED <<ticks, syncEvent, oldTicks, suspended>>

RunGpu ==
  /\ Loop!Wakeup
  /\ callbacks' = IF SyncGPU /\ suspended THEN callbacks + 1 ELSE callbacks
  /\ suspended' = (suspended /\ ~SyncGPU)
  /\ UNCHANGED <<ticks, syncEvent, oldTicks>>

\* The call at the end of the operations below.
CallRunGpu ==
  /\ CpuGoto("run_gpu", "guest")
  /\ RunGpu
  /\ UNCHANGED <<requests, cp, running, state, gpu, payload, host>>

\* FlushGpu() waits for the loop to be done, also with what it did not ask for.
Flush ==
  /\ CpuGoto("flush", "run_gpu")
  /\ Loop!IsDone
  /\ UNCHANGED <<loop, requests, cp, running, sync, state, gpu, payload, host>>
-----------------------------------------------------------------------------
(***************************************************************************)
(* The game writes to the gather pipe and to the registers.                *)
(***************************************************************************)
\* GatherPipeBursted()
Burst ==
  /\ ctrl.link => dist < Size
  /\ CpuGoto("guest", "store_marks")
  /\ CPUReadDistance
  /\ UNCHANGED <<loop, requests, running, sync, state, gpu, payload, host>>

BurstStoreMarks ==
  /\ CpuGoto("store_marks", "set_int")
  /\ CPUStoreMarks
  /\ UNCHANGED <<loop, requests, running, sync, state, gpu, payload, host>>

\* An unlinked FIFO of the CPU may be the one the GPU reads, and is then
\* flushed first.
BurstSetInterrupt ==
  /\ cpu = "set_int"
  /\ cpu' \in IF ctrl.link THEN {"add"} ELSE {"run_gpu"} \cup (IF dist > 0 THEN {"flush"} ELSE {})
  /\ CPUSetInterrupt
  /\ UNCHANGED <<loop, requests, running, sync, state, gpu, payload, host>>

BurstAdd ==
  /\ CpuGoto("add", "run_gpu")
  /\ AddChunk
  /\ UNCHANGED <<loop, requests, running, sync, state, gpu, payload, host>>

Control(value) ==
  /\ CpuGoto("guest", "control")
  /\ WriteCtrl(value)
  /\ UNCHANGED <<loop, requests, running, sync, state, gpu, payload, host>>

ControlStore ==
  /\ CpuGoto("control", "control")
  /\ StoreEnable
  /\ UNCHANGED <<loop, requests, running, sync, state, gpu, payload, host>>

\* Fault: the GPU may still be reading when the register is off.
ControlNoFlush ==
  /\ CpuGoto("control", "run_gpu")
  /\ StoreReadEnable
  /\ UNCHANGED <<loop, requests, running, sync, state, gpu, payload, host>>

ControlRead ==
  /\ CpuGoto("control", IF readEnable /\ ~ctrl.read THEN "flush" ELSE "run_gpu")
  /\ StoreReadEnable
  /\ UNCHANGED <<loop, requests, running, sync, state, gpu, payload, host>>

Breakpoint(ptr) ==
  /\ cpu = "guest"
  /\ WriteBreakpoint(ptr)
  /\ UNCHANGED <<loop, requests, running, sync, state, cpu, gpu, payload, host>>

\* Video_AccessEFB(), Video_BeginField(), Video_GetQueryResult(),
\* Video_GetBoundingBox(); the mutex is held while RunGpu() is called.
Request(request) ==
  /\ CpuGoto("guest", IF Queues /\ Blocking(request) THEN "cond_wait" ELSE "guest")
  /\ PushEvent(request)
  /\ IF Queues THEN RunGpu ELSE UNCHANGED <<loop, sync>>
  /\ UNCHANGED <<cp, running, state, gpu, payload, host>>

\* A spurious wakeup finds the queue not yet empty and sleeps again.
CondWait ==
  /\ notified
  /\ CpuGoto("cond_wait", "guest")
  /\ WaitReturns
  /\ UNCHANGED <<loop, cp, running, sync, state, gpu, payload, host>>
-----------------------------------------------------------------------------
(***************************************************************************)
(* Events of CoreTiming on the CPU thread.                                 *)
(***************************************************************************)
\* Fault: the GPU thread is not woken to look at the registers again.
InterruptEventQuiet ==
  /\ CpuGoto("guest", "guest")
  /\ UpdateInterrupts
  /\ UNCHANGED <<loop, requests, running, sync, state, gpu, payload, host>>

InterruptEvent ==
  /\ CpuGoto("guest", "run_gpu")
  /\ UpdateInterrupts
  /\ UNCHANGED <<loop, requests, running, sync, state, gpu, payload, host>>

\* WaitForGpuThread(): the ticks are added, then the loop is looked at.
SyncCallback ==
  /\ callbacks > 0 /\ ticks + Slot <= MaxTicks
  /\ CpuGoto("guest", "sync_test")
  /\ callbacks' = callbacks - 1
  /\ oldTicks' = ticks /\ ticks' = ticks + Slot
  /\ UNCHANGED <<loop, requests, cp, running, syncEvent, suspended, state, gpu, payload, host>>

\* The end of SyncGPUCallback().
Reschedule(again) ==
  /\ suspended' = ~again
  /\ callbacks' = IF again THEN callbacks + 1 ELSE callbacks
  /\ oldTicks' = 0

SyncTest ==
  LET now  == oldTicks + Slot
      idle == oldTicks >= 0 /\ Loop!IsDone
  IN  /\ CpuGoto("sync_test", IF ~idle /\ now >= MaxDistance THEN "sync_wait" ELSE "guest")
      /\ IF ~idle /\ oldTicks < MinDistance /\ now >= MinDistance
           THEN Loop!Wakeup ELSE UNCHANGED loop
      /\ IF ~idle /\ now >= MaxDistance
           THEN UNCHANGED <<suspended, callbacks, oldTicks>> ELSE Reschedule(~idle)
      /\ UNCHANGED <<requests, cp, running, ticks, syncEvent, state, gpu, payload, host>>

SyncWait ==
  /\ syncEvent
  /\ CpuGoto("sync_wait", "guest")
  /\ syncEvent' = FALSE
  /\ Reschedule(TRUE)
  /\ UNCHANGED <<loop, requests, cp, running, ticks, state, gpu, payload, host>>

\* The CPU thread starts and leaves PowerPC::RunLoop(); it looks at s_state
\* between two blocks of code only, and may finish some after a change.
CpuEnter ==
  /\ state = "running" /\ host # "resume"
  /\ CpuGoto("inactive", "guest")
  /\ UNCHANGED <<loop, requests, cp, running, sync, state, gpu, payload, host>>

CpuLeave ==
  /\ state # "running"
  /\ CpuGoto("guest", "inactive")
  /\ UNCHANGED <<loop, requests, cp, running, sync, state, gpu, payload, host>>

\* What a call of the CPU thread does once it has begun.
CpuStep ==
  \/ CallRunGpu \/ Flush \/ BurstStoreMarks \/ BurstSetInterrupt \/ BurstAdd
  \/ ControlStore \/ ControlRead \/ CondWait \/ SyncTest \/ SyncWait

Guest ==
  \/ Burst
  \/ \E value \in Ctrls : Control(value)
  \/ \E ptr \in Ptrs : Breakpoint(ptr)
  \/ \E request \in Requests : Request(request)
-----------------------------------------------------------------------------
(***************************************************************************)
(* RunGpuLoop() on the GPU thread.                                         *)
(***************************************************************************)
EnableRequests ==
  /\ GpuGoto("enable", "pass")
  /\ SetEnable(TRUE)
  /\ UNCHANGED <<loop, cp, running, sync, state, cpu, payload, host>>

StopPassthrough ==
  /\ GpuGoto("pass", "idle")
  /\ SetPassthrough(FALSE)
  /\ UNCHANGED <<loop, cp, running, sync, state, cpu, payload, host>>

\* The loop polls, or wakes up at the latest after 100 milliseconds.
StartPayload ==
  /\ GpuGoto("idle", "test")
  /\ Loop!Start
  /\ UNCHANGED <<requests, cp, running, sync, state, cpu, payload, host>>

Relax ==
  /\ gpu = "idle"
  /\ Loop!Relax
  /\ UNCHANGED <<requests, cp, running, sync, state, cpu, gpu, payload, host>>

\* "Do nothing while paused"
TestRunning ==
  /\ IF running THEN GpuGoto("test", "pull") /\ UNCHANGED loop
                ELSE GpuGoto("test", "idle") /\ Loop!End
  /\ UNCHANGED <<requests, cp, running, sync, state, cpu, payload, host>>

AfterPull == IF first THEN "read_dist" ELSE "loop"

\* PullEvents() tests m_empty without the mutex.
Pull ==
  /\ GpuGoto("pull", IF empty THEN AfterPull ELSE "pull_lock")
  /\ UNCHANGED <<loop, requests, cp, running, sync, state, cpu, payload, host>>

PullLock ==
  /\ PullBegin
  /\ GpuGoto("pull_lock", IF handling' = <<>> THEN AfterPull ELSE "handle")
  /\ UNCHANGED <<loop, cp, running, sync, state, cpu, payload, host>>

Handle ==
  /\ PullHandled
  /\ GpuGoto("handle", IF handling' = <<>> THEN AfterPull ELSE "handle")
  /\ UNCHANGED <<loop, cp, running, sync, state, cpu, payload, host>>

\* The end of a frame step, while a swap is handled: CPU::Break() stops the
\* GPU loop and does not wait for the CPU thread.
Break ==
  /\ FrameStep /\ state # "down"
  /\ gpu = "handle" /\ handling[1] = "swap"
  /\ state' = "stepping" /\ running' = FALSE
  /\ UNCHANGED <<loop, requests, cp, sync, cpu, gpu, payload, host>>

ReadDist ==
  /\ GpuGoto("read_dist", "store_marks")
  /\ GPUReadDistance
  /\ UNCHANGED <<loop, requests, running, sync, state, cpu, payload, host>>

StoreMarks ==
  /\ GpuGoto("store_marks", "decide")
  /\ GPUStoreMarks
  /\ UNCHANGED <<loop, requests, running, sync, state, cpu, payload, host>>

AfterStatus == IF first THEN "loop" ELSE "sub_ticks"

Decide ==
  /\ GpuGoto("decide", IF GPUWantsChange THEN "schedule" ELSE AfterStatus)
  /\ GPUDecide
  /\ UNCHANGED <<loop, requests, running, sync, state, cpu, payload, host>>

Schedule ==
  /\ GpuGoto("schedule", AfterStatus)
  /\ GPUSchedule
  /\ UNCHANGED <<loop, requests, running, sync, state, cpu, payload, host>>

\* The condition of the loop and the break at its top, load by load.  Only the
\* GPU thread raises s_interrupt_waiting and takes from the distance, so that
\* their loads may be put together with the next one.
LoopTest ==
  /\ GpuGoto("loop", IF ~intWaiting /\ readEnable THEN "loop_bp" ELSE "rest")
  /\ first' = FALSE
  /\ polling' = (level = "done" /\ gpu' # "rest")
  /\ UNCHANGED <<loop, requests, cp, running, sync, state, cpu, host>>

LoopTestEnable ==
  /\ GpuGoto("loop_bp", CASE dist = 0 -> "rest"
                           [] dist > 0 /\ "bp" \in enabled -> "loop_ptr"
                           [] OTHER -> "loop_ticks")
  /\ polling' = (polling /\ gpu' # "rest")
  /\ UNCHANGED <<loop, requests, cp, running, sync, state, cpu, first, host>>

LoopTestBreakpoint ==
  /\ GpuGoto("loop_ptr", IF readPtr # bp THEN "loop_ticks" ELSE "rest")
  /\ polling' = (polling /\ gpu' # "rest")
  /\ UNCHANGED <<loop, requests, cp, running, sync, state, cpu, first, host>>

LoopTestTicks ==
  /\ GpuGoto("loop_ticks", IF SyncGPU => ticks >= MinDistance THEN "chunk" ELSE "rest")
  /\ polling' = (polling /\ gpu' # "rest")
  /\ UNCHANGED <<loop, requests, cp, running, sync, state, cpu, first, host>>

\* ReadDataFromFifo() and OpcodeDecoder::Run()
Chunk ==
  /\ GpuGoto("chunk", "read_dist")
  /\ GPUChunkRead
  /\ polling' = FALSE
  /\ UNCHANGED <<loop, requests, running, sync, state, cpu, first, host>>

SubTicks ==
  /\ GpuGoto("sub_ticks", "pull")
  /\ IF SyncGPU
       THEN /\ ticks' = ticks - Cycles
            /\ syncEvent' = (syncEvent \/ (ticks >= MaxDistance /\ ticks - Cycles < MaxDistance))
       ELSE UNCHANGED <<ticks, syncEvent>>
  /\ UNCHANGED <<loop, requests, cp, running, suspended, callbacks, oldTicks, state, cpu, payload,
                 host>>

\* Fault: the ticks are skipped behind the back of a CPU thread that waits.
RestSilent ==
  /\ GpuGoto("rest", "idle")
  /\ ticks' = IF ticks > 0 THEN 0 ELSE ticks
  /\ first' = TRUE
  /\ Loop!End
  /\ UNCHANGED <<requests, cp, running, syncEvent, suspended, callbacks, oldTicks, state, cpu,
                 polling, host>>

\* "fast skip remaining GPU time if fifo is empty"
Rest ==
  /\ GpuGoto("rest", "idle")
  /\ ticks' = IF ticks > 0 THEN 0 ELSE ticks
  /\ syncEvent' = (syncEvent \/ ticks >= MaxDistance)
  /\ first' = TRUE
  /\ Loop!End
  /\ UNCHANGED <<requests, cp, running, suspended, callbacks, oldTicks, state, cpu, polling, host>>

LeaveLoop ==
  /\ GpuGoto("idle", "leaving")
  /\ Loop!Leave
  /\ UNCHANGED <<requests, cp, running, sync, state, cpu, payload, host>>

ReturnFromLoop ==
  /\ GpuGoto("leaving", "disable")
  /\ Loop!Return
  /\ UNCHANGED <<requests, cp, running, sync, state, cpu, payload, host>>

DisableRequests ==
  /\ GpuGoto("disable", "unpass")
  /\ SetEnable(FALSE)
  /\ UNCHANGED <<loop, cp, running, sync, state, cpu, payload, host>>

StartPassthrough ==
  /\ GpuGoto("unpass", "out")
  /\ SetPassthrough(TRUE)
  /\ UNCHANGED <<loop, cp, running, sync, state, cpu, payload, host>>

GpuStep ==
  \/ EnableRequests \/ StopPassthrough \/ StartPayload \/ TestRunning
  \/ Pull \/ PullLock \/ Handle \/ ReadDist \/ StoreMarks \/ Decide \/ Schedule
  \/ LoopTest \/ LoopTestEnable \/ LoopTestBreakpoint \/ LoopTestTicks \/ Chunk \/ SubTicks \/ Rest
  \/ LeaveLoop \/ ReturnFromLoop \/ DisableRequests \/ StartPassthrough
-----------------------------------------------------------------------------
(***************************************************************************)
(* The host.  It pauses and resumes with s_state_change_lock held, so that *)
(* the CPU thread cannot become active before the GPU loop runs.           *)
(***************************************************************************)
\* CPU::EnableStepping(true)
Pause ==
  /\ "pause" \in HostCalls /\ state # "down"
  /\ HostGoto("idle", "pause")
  /\ state' = "stepping"
  /\ UNCHANGED <<loop, requests, cp, running, sync, cpu, gpu, payload>>

PauseGpu ==
  /\ cpu = "inactive"
  /\ HostGoto("pause", "idle")
  /\ running' = FALSE
  /\ UNCHANGED <<loop, requests, cp, sync, state, cpu, gpu, payload>>

\* CPU::EnableStepping(false) of a paused console, with EmulatorState(true)
\* in two steps.
Resume ==
  /\ state = "stepping"
  /\ HostGoto("idle", "resume")
  /\ state' = "running" /\ running' = TRUE
  /\ UNCHANGED <<loop, requests, cp, sync, cpu, gpu, payload>>

ResumeGpu ==
  /\ HostGoto("resume", "idle")
  /\ Loop!Wakeup
  /\ UNCHANGED <<requests, cp, running, sync, state, cpu, gpu, payload>>

\* Core::Stop(): the GPU loop is paused, then CPU::Stop() waits for the CPU
\* thread, then ExitGpuLoop().
Stop ==
  /\ "stop" \in HostCalls /\ state # "down"
  /\ HostGoto("idle", "stop_cpu")
  /\ running' = FALSE
  /\ UNCHANGED <<loop, requests, cp, sync, state, cpu, gpu, payload>>

StopCpu ==
  /\ HostGoto("stop_cpu", "stop_wait")
  /\ state' = "down"
  /\ UNCHANGED <<loop, requests, cp, running, sync, cpu, gpu, payload>>

StopGpu ==
  /\ cpu = "inactive"
  /\ HostGoto("stop_wait", "exit_flush")
  /\ running' = FALSE
  /\ DisableRead
  /\ UNCHANGED <<loop, requests, sync, state, cpu, gpu, payload>>

ExitFlush ==
  /\ Loop!IsDone
  /\ HostGoto("exit_flush", "exit_stop")
  /\ running' = TRUE
  /\ UNCHANGED <<loop, requests, cp, sync, state, cpu, gpu, payload>>

ExitStop ==
  /\ HostGoto("exit_stop", "exit_wakeup")
  /\ Loop!RequestStop
  /\ UNCHANGED <<requests, cp, running, sync, state, cpu, gpu, payload>>

ExitWakeup ==
  /\ HostGoto("exit_wakeup", "stopped")
  /\ Loop!Wakeup
  /\ UNCHANGED <<requests, cp, running, sync, state, cpu, gpu, payload>>

HostStep == PauseGpu \/ ResumeGpu \/ StopCpu \/ StopGpu \/ ExitFlush \/ ExitStop \/ ExitWakeup
-----------------------------------------------------------------------------
Next ==
  \/ Guest \/ InterruptEvent \/ SyncCallback \/ CpuStep
  \/ CpuEnter \/ CpuLeave
  \/ GpuStep \/ Relax \/ Break
  \/ Pause \/ Resume \/ Stop \/ HostStep

\* Threads that can run are scheduled, the sleep of the loop times out, the
\* CPU thread gets to the events that are due and to a change of s_state.
\* Nothing is assumed of the game or of the host between its calls.
Fairness ==
  /\ WF_vars(CpuStep) /\ WF_vars(CpuEnter) /\ SF_vars(CpuLeave)
  /\ SF_vars(InterruptEvent) /\ SF_vars(SyncCallback)
  /\ WF_vars(GpuStep)
  /\ WF_vars(HostStep)

Spec == Init /\ [][Next]_vars /\ Fairness
-----------------------------------------------------------------------------
TypeOK ==
  /\ RequestsTypeOK /\ CPTypeOK
  /\ level \in {"need", "last", "done"} /\ run \in {"idle", "payload", "leaving"}
  /\ on \in BOOLEAN /\ quit \in BOOLEAN /\ running \in BOOLEAN /\ first \in BOOLEAN
  /\ polling \in BOOLEAN
  /\ syncEvent \in BOOLEAN /\ suspended \in BOOLEAN
  /\ ticks \in Int /\ oldTicks \in Int /\ callbacks \in 0 .. 1
  /\ state \in {"running", "stepping", "down"}
  /\ cpu \in {"inactive", "guest", "run_gpu", "flush", "store_marks", "set_int", "add",
              "control", "cond_wait", "sync_test", "sync_wait"}
  /\ gpu \in {"enable", "pass", "idle", "test", "pull", "pull_lock", "handle", "read_dist",
              "store_marks", "decide", "schedule", "loop", "loop_bp", "loop_ptr", "loop_ticks",
              "chunk", "sub_ticks", "rest", "leaving", "disable", "unpass", "out"}
  /\ host \in {"idle", "pause", "resume", "stop_cpu", "stop_wait", "exit_flush", "exit_stop",
               "exit_wakeup", "stopped"}

\* A blocking PushEvent() returns when the queue is empty: by then the GPU
\* thread has handled the request and all before it, unless it has left.
BlockingMeansHandled == cpu = "cond_wait" /\ queue = <<>> => unhandled = 0 \/ ~enable

\* No watermark or breakpoint interrupt is lost or left over: when the loop
\* is done, no event is pending and the CPU thread is between two calls, the
\* interrupt is the one that the registers call for, however both threads
\* overwrote each other's flags.
InterruptMatchesFifo ==
  /\ level = "done" /\ run = "idle" /\ running /\ host = "idle" /\ on
  /\ ~intWaiting
  /\ cpu \in {"guest", "inactive"}
  => intSet = Interrupt(AtBreakpoint, Marks(dist))

\* SetCpControlRegister() flushes when it switches the reading off, so that
\* the game may move the pointers: the GPU is then not inside a chunk.  The
\* flush covers every payload that Wakeup() asked for, and no other: one of a
\* loop that is done and still polls is not waited for, and may have loaded the
\* old flags before they were stored.
DisabledMeansStopped ==
  ~readEnable /\ cpu # "flush" /\ host # "exit_flush" => gpu # "chunk" \/ polling

\* SyncGPUCallback() is pending exactly when syncing is not suspended; two of
\* them would count the emulated time twice.
OneCallback ==
  SyncGPU => callbacks + (IF cpu \in {"sync_test", "sync_wait"} THEN 1 ELSE 0)
               = (IF suspended THEN 0 ELSE 1)

\* While the loop runs, a CPU thread that waits for the GPU thread goes on:
\* in a blocking request, in a flush and in WaitForGpuThread().
CpuWaits == cpu \in {"cond_wait", "flush", "sync_wait"}
CpuGoesOn == CpuWaits ~> (~CpuWaits \/ ~running)

\* A chunk that the GPU may read is read, though RunGpu() is called once per
\* chunk at most and the GPU stops for interrupts and for the CPU's clock.
\* Only requests that follow each other forever keep the GPU from it, since
\* PullEvents() goes on until it finds the queue empty.
FifoDrains ==
  \A ptr \in Ptrs :
    ~<>[](/\ readPtr = ptr /\ dist > 0 /\ readEnable /\ ~AtBreakpoint
          /\ running /\ state = "running" /\ handling = <<>>)

\* Core::Stop() ends.  This does not hold, and no run checks it: Stop() pauses
\* the GPU loop before the CPU thread, which may be waiting for it.
StopEnds == (host = "stop_cpu") ~> (host = "stopped" /\ gpu = "out")
=============================================================================
