---------------------------- MODULE VideoBuffer -----------------------------
(***************************************************************************)
(* s_video_buffer of VideoCommon/Fifo.cpp.  In normal dual-core mode the   *)
(* GPU thread copies chunks of the game's FIFO into it and decodes them.   *)
(* In the deterministic mode of movies and netplay the CPU thread copies   *)
(* and preprocesses them, putting what commands refer to into the aux      *)
(* buffer, and the GPU thread only decodes; SyncGPU() waits for it and     *)
(* moves what is left to the front.  The mode changes and states are saved *)
(* and loaded while the console is locked.                                 *)
(*                                                                         *)
(* Pointers are counted in chunks.  A chunk holds the end of a command     *)
(* (one that needs aux data if it is a "list") or only a part of one (a    *)
(* "head").  The host takes the place of the CPU thread while it holds     *)
(* PauseAndLock(), so both are cpu here.  The mode has no CPU clock: a     *)
(* callback finds enough ticks for all there is, and bSyncGPU, which gives *)
(* the normal mode a callback too, is off (GpuThread.tla has it on).  The  *)
(* loop is not stopped before the CPU thread is, so SyncGPU() always finds *)
(* it running.                                                             *)
(***************************************************************************)
EXTENDS Integers, Sequences

CONSTANTS
  BufSize,     \* FIFO_SIZE of the video buffer
  AuxSize,     \* FIFO_SIZE of the aux buffer
  MaxChunks,   \* bound on the chunks that the game sends
  MaxSaved,    \* bound on the chunks sent before a state is saved
  Kinds,       \* the kinds of the chunks that the game sends
  LockPaused,  \* PauseAndLock() may find the console paused
  SlowGpu,     \* a polling payload may still run when the console is locked
  Breaks       \* CPU::Break() may come in the deterministic mode

ASSUME BufferAssumption ==
  /\ BufSize \in Nat \ {0} /\ AuxSize \in Nat \ {0} /\ MaxChunks \in Nat /\ MaxSaved \in Nat
  /\ Kinds \subseteq {"plain", "list", "head"}
  /\ LockPaused \in BOOLEAN /\ SlowGpu \in BOOLEAN /\ Breaks \in BOOLEAN

VARIABLES
  level, run, on, quit,  \* s_gpu_mainloop
  running,    \* s_emu_running_state
  det,        \* s_use_deterministic_gpu_thread
  suspended,  \* s_syncing_suspended: SyncGPUCallback() is not scheduled
  stream,     \* the kinds of the chunks that the game has sent
  taken,      \* how many of them have left the game's FIFO
  buf,        \* s_video_buffer: numbers of chunks
  read, write, seen, pp,  \* s_video_buffer_..._ptr; pp is pp_read_ptr
  aux,        \* the aux data from s_fifo_aux_read_ptr to s_fifo_aux_write_ptr
  auxWrite,   \* s_fifo_aux_write_ptr
  cpu,        \* where the CPU thread is
  why,        \* for whom it is in SyncGPU()
  unpause,    \* PauseAndLock() found the console running
  waking,     \* a resume of the active CPU thread has still to call Wakeup()
  saved,      \* the last savestate, if any
  gpu,        \* where the GPU thread is
  gseen, gwrite, gread,  \* the seen_ptr, write_ptr and read position of the payload
  done        \* how many chunks were decoded, or dropped by a reset

loop == <<level, run, on, quit>>
ptrs == <<read, write, seen, pp>>
auxs == <<aux, auxWrite>>
gpus == <<gpu, gseen, gwrite, gread, done>>
host == <<running, det, suspended, unpause, waking, saved>>
vars == <<loop, host, stream, taken, buf, ptrs, auxs, cpu, why, gpus>>

Loop == INSTANCE WorkLoop

Init ==
  /\ Loop!Ready
  /\ running = TRUE /\ det \in BOOLEAN /\ suspended = TRUE
  /\ unpause = FALSE /\ waking = FALSE /\ saved = <<>>
  /\ stream = <<>> /\ taken = 0
  /\ buf = [p \in 0 .. BufSize - 1 |-> 0]
  /\ read = 0 /\ write = 0 /\ seen = 0 /\ pp = 0
  /\ aux = <<>> /\ auxWrite = 0
  /\ cpu = "guest" /\ why = "none"
  /\ gpu = "idle" /\ gseen = 0 /\ gwrite = 0 /\ gread = 0 /\ done = 0

Kind(chunk) == IF chunk \in DOMAIN stream THEN stream[chunk] ELSE "plain"

\* The ends of commands in b, between two positions.
Ends(b, from, to) == {p \in from + 1 .. to : Kind(b[p - 1]) # "head"}

Largest(S) == CHOOSE p \in S : \A q \in S : q <= p
Smallest(S) == CHOOSE p \in S : \A q \in S : p <= q

\* OpcodeDecoder::Run() returns the start of the first incomplete command.
Decoded(b, from, to) == Largest(Ends(b, from, to) \cup {from})

\* memmove() to the front of the buffer
Moved(b, from, to) == [p \in DOMAIN b |-> IF p < to - from THEN b[from + p] ELSE b[p]]

CpuGoto(from, to) == cpu = from /\ cpu' = to
GpuGoto(from, to) == gpu = from /\ gpu' = to
-----------------------------------------------------------------------------
(***************************************************************************)
(* The game.  A command is never longer than the buffer.  RunGpu() wakes   *)
(* the loop in normal mode and schedules the callback in the other one.    *)
(***************************************************************************)
RunGpuSchedules ==
  /\ suspended' = (suspended /\ ~det)
  /\ UNCHANGED <<running, det, unpause, waking, saved>>

Burst(kind) ==
  /\ Len(stream) < MaxChunks
  /\ kind = "head" => \E i \in Len(stream) - BufSize + 2 .. Len(stream) : Kind(i) # "head"
  /\ CpuGoto("guest", IF det THEN "guest" ELSE "run_gpu")
  /\ stream' = Append(stream, kind)
  /\ RunGpuSchedules
  /\ UNCHANGED <<loop, taken, buf, ptrs, auxs, why, gpus>>

\* RunGpu() in normal mode, and the end of EmulatorState(true)
RunGpu ==
  /\ CpuGoto("run_gpu", "guest")
  /\ Loop!Wakeup
  /\ UNCHANGED <<host, stream, taken, buf, ptrs, auxs, why, gpus>>
-----------------------------------------------------------------------------
(***************************************************************************)
(* SyncGPU().  GPU threads that poll read the pointers while it moves them. *)
(***************************************************************************)
Returns(reason) ==
  CASE reason = "wrap" -> "copy"
    [] reason = "aux" -> "push"
    [] reason = "game" -> "guest"
    [] reason = "reset" -> "reset"
    [] reason = "lock" -> "pause"

SyncGPU(from, reason) ==
  /\ CpuGoto(from, IF det THEN "sync_wait" ELSE Returns(reason))
  /\ why' = IF det THEN reason ELSE "none"

SyncWait ==
  /\ CpuGoto("sync_wait", "move_aux")
  /\ Loop!IsDone
  /\ UNCHANGED <<loop, host, stream, taken, buf, ptrs, auxs, why, gpus>>

\* For aux space, only the aux data moves (may_move_read_ptr is false).
MoveAux ==
  /\ CpuGoto("move_aux", IF why = "aux" THEN Returns(why) ELSE "move_data")
  /\ why' = IF why = "aux" THEN "none" ELSE why
  /\ auxWrite' = Len(aux)
  /\ UNCHANGED <<loop, host, stream, taken, buf, ptrs, aux, gpus>>

MoveData ==
  /\ CpuGoto("move_data", "store_write")
  /\ buf' = Moved(buf, pp, write)
  /\ UNCHANGED <<loop, host, stream, taken, ptrs, auxs, why, gpus>>

\* "This change always decreases the pointers.  We write seen_ptr after
\* write_ptr here, and read it before in RunGpuLoop"
StoreWrite ==
  /\ CpuGoto("store_write", "store_read")
  /\ write' = write - pp
  /\ UNCHANGED <<loop, host, stream, taken, buf, read, seen, pp, auxs, why, gpus>>

StoreRead ==
  /\ CpuGoto("store_read", "store_seen")
  /\ pp' = 0 /\ read' = 0
  /\ UNCHANGED <<loop, host, stream, taken, buf, write, seen, auxs, why, gpus>>

StoreSeen ==
  /\ CpuGoto("store_seen", Returns(why)) /\ why' = "none"
  /\ seen' = write
  /\ UNCHANGED <<loop, host, stream, taken, buf, read, write, pp, auxs, gpus>>

\* Video_BeginField(), Video_GetQueryResult() and Video_GetBoundingBox()
GameSync ==
  /\ SyncGPU("guest", "game")
  /\ UNCHANGED <<loop, host, stream, taken, buf, ptrs, auxs, gpus>>

\* A write of FIFO_RW_DISTANCE_HI, when the game sends nothing, drops what
\* is left of a command: SyncGPU() and ResetVideoBuffer().
GameReset ==
  /\ taken = Len(stream)
  /\ SyncGPU("guest", "reset")
  /\ UNCHANGED <<loop, host, stream, taken, buf, ptrs, auxs, gpus>>

Reset ==
  /\ CpuGoto("reset", "reset_seen")
  /\ read' = 0 /\ write' = 0
  /\ UNCHANGED <<loop, host, stream, taken, buf, seen, pp, auxs, why, gpus>>

ResetSeen ==
  /\ CpuGoto("reset_seen", IF det THEN "guest" ELSE "run_gpu")
  /\ seen' = 0 /\ pp' = 0
  /\ aux' = <<>> /\ auxWrite' = 0
  /\ done' = taken
  /\ RunGpuSchedules
  /\ UNCHANGED <<loop, stream, taken, buf, read, write, why, gpu, gseen, gwrite, gread>>
-----------------------------------------------------------------------------
(***************************************************************************)
(* RunGpuOnCpu() and ReadDataFromFifoOnCPU(), from SyncGPUCallback().      *)
(***************************************************************************)
\* One that was scheduled before the mode changed finds nothing to do.
Callback ==
  /\ ~suspended
  /\ CpuGoto("guest", IF det THEN "read" ELSE "guest")
  /\ suspended' = ~det
  /\ UNCHANGED <<loop, running, det, unpause, waking, saved, stream, taken, buf, ptrs, auxs, why,
                 gpus>>

ReadChunk ==
  /\ taken < Len(stream)
  /\ IF write = BufSize THEN SyncGPU("read", "wrap") ELSE CpuGoto("read", "copy") /\ UNCHANGED why
  /\ UNCHANGED <<loop, host, stream, taken, buf, ptrs, auxs, gpus>>

CallbackEnd ==
  /\ taken = Len(stream)
  /\ CpuGoto("read", "guest")
  /\ suspended' = TRUE
  /\ UNCHANGED <<loop, running, det, unpause, waking, saved, stream, taken, buf, ptrs, auxs, why,
                 gpus>>

Copy ==
  /\ CpuGoto("copy", "push")
  /\ buf' = [buf EXCEPT ![write] = taken + 1]
  /\ UNCHANGED <<loop, host, stream, taken, ptrs, auxs, why, gpus>>

\* Fault: a command that has only begun counts as preprocessed.
PushSkipsHead ==
  LET list == Kind(taken + 1) = "list" IN
  /\ IF list /\ auxWrite = AuxSize
       THEN SyncGPU("push", "aux") /\ UNCHANGED <<auxs, pp>>
       ELSE /\ CpuGoto("push", "publish") /\ UNCHANGED why
            /\ aux' = IF list THEN Append(aux, taken + 1) ELSE aux
            /\ auxWrite' = IF list THEN auxWrite + 1 ELSE auxWrite
            /\ pp' = write + 1
  /\ UNCHANGED <<loop, host, stream, taken, buf, read, write, seen, gpus>>

\* Fault: the size of the aux buffer is not looked at.
PushOverruns ==
  LET list == Kind(taken + 1) = "list" IN
  /\ CpuGoto("push", "publish")
  /\ aux' = IF list THEN Append(aux, taken + 1) ELSE aux
  /\ auxWrite' = IF list THEN auxWrite + 1 ELSE auxWrite
  /\ pp' = Decoded(buf, pp, write + 1)
  /\ UNCHANGED <<loop, host, stream, taken, buf, read, write, seen, why, gpus>>

\* OpcodeDecoder::Run<true>() with PushFifoAuxBuffer()
Push ==
  LET list == Kind(taken + 1) = "list" IN
  /\ IF list /\ auxWrite = AuxSize
       THEN SyncGPU("push", "aux") /\ UNCHANGED <<auxs, pp>>
       ELSE /\ CpuGoto("push", "publish") /\ UNCHANGED why
            /\ aux' = IF list THEN Append(aux, taken + 1) ELSE aux
            /\ auxWrite' = IF list THEN auxWrite + 1 ELSE auxWrite
            /\ pp' = Decoded(buf, pp, write + 1)
  /\ UNCHANGED <<loop, host, stream, taken, buf, read, write, seen, gpus>>

Publish ==
  /\ CpuGoto("publish", "wake")
  /\ write' = write + 1 /\ taken' = taken + 1
  /\ UNCHANGED <<loop, host, stream, buf, read, seen, pp, auxs, why, gpus>>

\* Fault: the loop is left to poll.
WakeNobody ==
  /\ CpuGoto("wake", "read")
  /\ UNCHANGED <<loop, host, stream, taken, buf, ptrs, auxs, why, gpus>>

Wake ==
  /\ CpuGoto("wake", "read")
  /\ Loop!Wakeup
  /\ UNCHANGED <<host, stream, taken, buf, ptrs, auxs, why, gpus>>
-----------------------------------------------------------------------------
(***************************************************************************)
(* RunGpuLoop() on the GPU thread.                                         *)
(***************************************************************************)
StartPayload ==
  /\ GpuGoto("idle", "test")
  /\ Loop!Start
  /\ UNCHANGED <<host, stream, taken, buf, ptrs, auxs, cpu, why, gseen, gwrite, gread, done>>

Relax ==
  /\ gpu = "idle"
  /\ Loop!Relax
  /\ UNCHANGED <<host, stream, taken, buf, ptrs, auxs, cpu, why, gpus>>

EndPayload ==
  /\ GpuGoto("end", "idle")
  /\ Loop!End
  /\ gseen' = 0 /\ gwrite' = 0 /\ gread' = 0
  /\ UNCHANGED <<host, stream, taken, buf, ptrs, auxs, cpu, why, done>>

\* "Do nothing while paused", and the choice of the mode.
TestRunning ==
  /\ GpuGoto("test", IF ~running THEN "end" ELSE IF det THEN "load_seen" ELSE "normal")
  /\ UNCHANGED <<loop, host, stream, taken, buf, ptrs, auxs, cpu, why, gseen, gwrite, gread, done>>

LoadSeen ==
  /\ GpuGoto("load_seen", "load_write")
  /\ gseen' = seen
  /\ UNCHANGED <<loop, host, stream, taken, buf, ptrs, auxs, cpu, why, gwrite, gread, done>>

LoadWrite ==
  /\ GpuGoto("load_write", IF write > gseen THEN "decode" ELSE "end")
  /\ gwrite' = write /\ gread' = read
  /\ UNCHANGED <<loop, host, stream, taken, buf, ptrs, auxs, cpu, why, gseen, done>>

\* One command, with its aux data.
Decode ==
  LET end == Smallest(Ends(buf, gread, gwrite)) IN
  /\ gpu = "decode" /\ Ends(buf, gread, gwrite) # {}
  /\ gread' = end
  /\ aux' = IF Kind(buf[end - 1]) = "list" /\ aux # <<>> THEN Tail(aux) ELSE aux
  /\ done' = done + (end - gread)
  /\ UNCHANGED <<loop, host, stream, taken, buf, ptrs, auxWrite, cpu, why, gpu, gseen, gwrite>>

DecodeEnd ==
  /\ Ends(buf, gread, gwrite) = {}
  /\ GpuGoto("decode", "decoded")
  /\ read' = gread
  /\ UNCHANGED <<loop, host, stream, taken, buf, write, seen, pp, auxs, cpu, why, gseen, gwrite,
                 gread, done>>

\* Fault: what is left of an incomplete command counts as not seen.
SeenIsRead ==
  /\ GpuGoto("decoded", "end")
  /\ seen' = gread
  /\ UNCHANGED <<loop, host, stream, taken, buf, read, write, pp, auxs, cpu, why, gseen, gwrite,
                 gread, done>>

Seen ==
  /\ GpuGoto("decoded", "end")
  /\ seen' = gwrite
  /\ UNCHANGED <<loop, host, stream, taken, buf, read, write, pp, auxs, cpu, why, gseen, gwrite,
                 gread, done>>

\* Normal mode: ReadDataFromFifo(), which moves data if the buffer is full,
\* and OpcodeDecoder::Run().
NormalChunk ==
  LET full == write = BufSize
      from == IF full THEN 0 ELSE read
      to   == IF full THEN write - read ELSE write
      b    == [(IF full THEN Moved(buf, read, write) ELSE buf) EXCEPT ![to] = taken + 1]
      end  == Decoded(b, from, to + 1)
  IN  /\ gpu = "normal" /\ taken < Len(stream)
      /\ buf' = b /\ write' = to + 1 /\ read' = end
      /\ taken' = taken + 1
      /\ done' = done + (end - from)
      /\ UNCHANGED <<loop, host, stream, seen, pp, auxs, cpu, why, gpu, gseen, gwrite, gread>>

NormalEnd ==
  /\ taken = Len(stream)
  /\ GpuGoto("normal", "end")
  /\ UNCHANGED <<loop, host, stream, taken, buf, ptrs, auxs, cpu, why, gseen, gwrite, gread, done>>
-----------------------------------------------------------------------------
(***************************************************************************)
(* The host.  The CPU thread is inactive, or waits for the lock to end.    *)
(***************************************************************************)
\* CPU::EnableStepping()
Pause ==
  /\ ~waking
  /\ CpuGoto("guest", "paused")
  /\ running' = FALSE
  /\ UNCHANGED <<loop, det, suspended, unpause, waking, saved, stream, taken, buf, ptrs, auxs, why,
                 gpus>>

Resume ==
  /\ CpuGoto("paused", "run_gpu")
  /\ running' = TRUE
  /\ UNCHANGED <<loop, det, suspended, unpause, waking, saved, stream, taken, buf, ptrs, auxs, why,
                 gpus>>

\* s_state_paused_and_locked
Locking ==
  why = "lock" \/ cpu \in {"pause", "pause_wait", "locked", "load_read", "unlock"}

\* CPU::Break(), by the GPU thread when it has copied a frame or by the CPU
\* thread for a movie.  The CPU thread goes on until it looks at its state.
Break ==
  /\ running /\ ~waking /\ ~Locking
  /\ cpu = "guest" \/ gpu \in {"normal", "decode"}
  /\ Breaks \/ ~det
  /\ running' = FALSE
  /\ UNCHANGED <<loop, det, suspended, unpause, waking, saved, stream, taken, buf, ptrs, auxs, cpu,
                 why, gpus>>

Halt ==
  /\ ~running
  /\ CpuGoto("guest", "paused")
  /\ UNCHANGED <<loop, host, stream, taken, buf, ptrs, auxs, why, gpus>>

\* EnableStepping(false) before the CPU thread has looked: it just goes on,
\* beside the host that calls EmulatorState(true).
ResumeActive ==
  /\ ~running /\ ~Locking /\ cpu # "paused"
  /\ running' = TRUE /\ waking' = TRUE
  /\ UNCHANGED <<loop, det, suspended, unpause, saved, stream, taken, buf, ptrs, auxs, cpu, why,
                 gpus>>

ResumeWakeup ==
  /\ waking /\ waking' = FALSE
  /\ Loop!Wakeup
  /\ UNCHANGED <<running, det, suspended, unpause, saved, stream, taken, buf, ptrs, auxs, cpu, why,
                 gpus>>

\* Core::PauseAndLock(true), up to SyncGPU()
Lock ==
  /\ (cpu = "guest" /\ running /\ ~waking) \/ (LockPaused /\ cpu = "paused")
  /\ SyncGPU(cpu, "lock")
  /\ unpause' = (cpu = "guest")
  /\ UNCHANGED <<loop, running, det, suspended, waking, saved, stream, taken, buf, ptrs, auxs, gpus>>

LockPause ==
  /\ CpuGoto("pause", "pause_wait")
  /\ running' = FALSE
  /\ UNCHANGED <<loop, det, suspended, unpause, waking, saved, stream, taken, buf, ptrs, auxs, why,
                 gpus>>

\* Only the normal mode waits for the loop after EmulatorState(false), and
\* neither mode for a payload that the loop had begun of its own accord.
LockWait ==
  /\ det \/ Loop!IsDone
  /\ SlowGpu \/ gpu = "idle"
  /\ CpuGoto("pause_wait", "locked")
  /\ UNCHANGED <<loop, host, stream, taken, buf, ptrs, auxs, why, gpus>>

\* A Break() that came meanwhile has asked for stepping
\* (s_state_system_request_stepping).
Unlock(asked) ==
  /\ CpuGoto("unlock", IF unpause /\ ~asked THEN "run_gpu" ELSE "paused")
  /\ running' = (unpause /\ ~asked)
  /\ unpause' = FALSE
  /\ UNCHANGED <<loop, det, suspended, waking, saved, stream, taken, buf, ptrs, auxs, why, gpus>>

\* Fault: seen_ptr is not brought back to what the normal mode has read.
UpdateWantDeterminismSeen ==
  /\ CpuGoto("locked", "unlock")
  /\ det' = ~det
  /\ IF det' THEN pp' = read ELSE UNCHANGED pp
  /\ UNCHANGED <<loop, running, suspended, unpause, waking, saved, stream, taken, buf, read, write,
                 seen, auxs, why, gpus>>

UpdateWantDeterminism ==
  /\ CpuGoto("locked", "unlock")
  /\ det' = ~det
  /\ IF det' THEN seen' = read /\ pp' = read ELSE UNCHANGED <<seen, pp>>
  /\ UNCHANGED <<loop, running, suspended, unpause, waking, saved, stream, taken, buf, read, write,
                 auxs, why, gpus>>

\* DoState(), with the game's memory.
Save ==
  /\ Len(stream) <= MaxSaved
  /\ CpuGoto("locked", "unlock")
  /\ saved' = <<[stream |-> stream, taken |-> taken, buf |-> buf, read |-> read, write |-> write,
                 done |-> done, suspended |-> suspended]>>
  /\ UNCHANGED <<loop, running, det, suspended, unpause, waking, stream, taken, buf, ptrs, auxs, why,
                 gpus>>

Load ==
  /\ saved # <<>>
  /\ CpuGoto("locked", "load_read")
  /\ stream' = saved[1].stream /\ taken' = saved[1].taken /\ done' = saved[1].done
  /\ buf' = saved[1].buf
  /\ write' = saved[1].write
  /\ suspended' = saved[1].suspended
  /\ UNCHANGED <<loop, running, det, unpause, waking, saved, read, seen, pp, auxs, why, gpu, gseen,
                 gwrite, gread>>

\* "We're good and paused, right?"
LoadRead ==
  /\ CpuGoto("load_read", "unlock")
  /\ read' = saved[1].read
  /\ IF det THEN seen' = saved[1].read /\ pp' = saved[1].read ELSE UNCHANGED <<seen, pp>>
  /\ UNCHANGED <<loop, host, stream, taken, buf, write, auxs, why, gpus>>
-----------------------------------------------------------------------------
CpuStep ==
  \/ RunGpu \/ SyncWait \/ MoveAux \/ MoveData \/ StoreWrite \/ StoreRead \/ StoreSeen
  \/ Reset \/ ResetSeen
  \/ ReadChunk \/ CallbackEnd \/ Copy \/ Push \/ Publish \/ Wake
  \/ LockPause \/ LockWait \/ LoadRead \/ Halt

GpuStep ==
  \/ StartPayload \/ EndPayload \/ TestRunning \/ LoadSeen \/ LoadWrite
  \/ Decode \/ DecodeEnd \/ Seen \/ NormalChunk \/ NormalEnd

Next ==
  \/ CpuStep \/ GpuStep \/ Relax \/ Callback
  \/ \E kind \in Kinds : Burst(kind)
  \/ GameSync \/ GameReset
  \/ Pause \/ Resume \/ Break \/ ResumeActive \/ ResumeWakeup
  \/ Lock \/ (\E asked \in BOOLEAN : Unlock(asked))
  \/ UpdateWantDeterminism \/ Save \/ Load

\* Both threads are scheduled, a resume that has begun ends, and CoreTiming
\* runs the callback if it is scheduled.  The game and the host need not do
\* anything.
Fairness ==
  WF_vars(CpuStep) /\ WF_vars(GpuStep) /\ WF_vars(ResumeWakeup) /\ SF_vars(Callback)

Spec == Init /\ [][Next]_vars /\ Fairness
-----------------------------------------------------------------------------
Positions == 0 .. BufSize

TypeOK ==
  /\ level \in {"need", "last", "done"} /\ run \in {"idle", "payload"} /\ on /\ ~quit
  /\ running \in BOOLEAN /\ det \in BOOLEAN /\ suspended \in BOOLEAN
  /\ unpause \in BOOLEAN /\ waking \in BOOLEAN
  /\ stream \in Seq(Kinds) /\ taken \in 0 .. Len(stream) /\ done \in 0 .. taken
  /\ buf \in [0 .. BufSize - 1 -> 0 .. MaxChunks]
  /\ read \in Positions /\ write \in Positions /\ seen \in Positions /\ pp \in Positions
  /\ gseen \in Positions /\ gwrite \in Positions /\ gread \in Positions
  /\ aux \in Seq(1 .. MaxChunks) /\ auxWrite \in 0 .. AuxSize /\ Len(aux) <= auxWrite

\* The GPU thread decodes every chunk once and in order, whoever copied and
\* moved it, and pops the aux data that the CPU thread pushed for it.
DecodesInOrder ==
  gpu = "decode" =>
    /\ \A p \in gread .. gwrite - 1 : buf[p] = done + 1 + p - gread
    /\ \A i, j \in DOMAIN aux : i < j => aux[i] < aux[j]
    /\ \A p \in gread .. gwrite - 1 :
         Kind(buf[p]) = "list" <=> \E i \in DOMAIN aux : aux[i] = buf[p]
    /\ \A i \in DOMAIN aux : aux[i] > done

\* The alert "aux fifo not synced" in SyncGPU() stays away.
AuxSynced == cpu = "move_aux" /\ why # "aux" => aux = <<>>

\* When SyncGPU() has waited, the GPU thread has decoded all that the CPU
\* thread has preprocessed: what the move leaves behind is not needed.
SyncMeansDecoded == AuxSynced /\ (cpu = "move_aux" => taken - done = write - pp)

\* While the CPU thread moves or resets the buffers the GPU thread is not
\* using them: "'write_ptr > seen_ptr' there cannot become spuriously true".
OneOwner ==
  cpu \in {"move_aux", "move_data", "store_write", "store_read", "store_seen", "reset",
           "reset_seen"}
  => gpu \notin {"decode", "decoded"}

\* What the game has sent is decoded, up to an incomplete command, unless the
\* console is paused or, in the deterministic mode, RunGpu() was not called
\* since the mode changed with data left in the game's FIFO.
Pending == \E n \in done + 1 .. Len(stream) : stream[n] # "head"
Suspended == det /\ suspended /\ taken < Len(stream)
StreamDrains == ~<>[](running /\ Pending /\ ~Suspended)
=============================================================================
