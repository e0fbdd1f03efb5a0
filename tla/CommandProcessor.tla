-------------------------- MODULE CommandProcessor --------------------------
(***************************************************************************)
(* The FIFO registers of VideoCommon/CommandProcessor.cpp in dual-core     *)
(* mode and the interrupt that both threads derive from them.  Addresses   *)
(* and distances are counted in chunks of 32 bytes; the ring from CPBase   *)
(* to CPEnd has Size of them.                                              *)
(*                                                                         *)
(* bFF_HiWatermark and bFF_LoWatermark are written by both threads without *)
(* a lock: each side reads the distance, stores the two flags, and decides *)
(* from whatever flags it then finds.  s_interrupt_set is written on the   *)
(* CPU thread only; the GPU thread raises s_interrupt_waiting and          *)
(* schedules an event that lets the CPU thread do it.  The enable bits of  *)
(* the control register reach the GPU thread one store after the other.    *)
(***************************************************************************)
EXTENDS Naturals, Sequences

CONSTANTS
  Size,         \* chunks in the ring
  HiWatermark,  \* fifo.CPHiWatermark
  LoWatermark,  \* fifo.CPLoWatermark
  Ctrls         \* the values that are written to CTRL_REGISTER

\* The enable bits besides GPReadEnable, in the order in which
\* SetCpControlRegister() copies them: the interrupt of the breakpoint, the
\* breakpoint, the overflow and the underflow interrupt.
Order == <<"bpInt", "bp", "hi", "lo">>
Enables == {"bpInt", "bp", "hi", "lo"}
Ptrs == 0 .. Size - 1

CtrlRegs == [read : BOOLEAN, link : BOOLEAN, bits : SUBSET Enables]

ASSUME CPAssumption ==
  /\ Size \in Nat \ {0}
  /\ HiWatermark \in Nat /\ LoWatermark \in Nat
  /\ Ctrls \subseteq CtrlRegs

VARIABLES
  dist,        \* fifo.CPReadWriteDistance
  readPtr,     \* fifo.CPReadPointer
  bp,          \* fifo.CPBreakpoint
  ctrl,        \* m_CPCtrlReg
  enabled,     \* which of fifo.bFF_BPInt, bFF_BPEnable, ..., are set
  readEnable,  \* fifo.bFF_GPReadEnable
  atBp,        \* fifo.bFF_Breakpoint
  marks,       \* the watermark flags that are set: "hi", "lo"
  intSet,      \* s_interrupt_set, and INT_CAUSE_CP
  intWaiting,  \* s_interrupt_waiting
  intEvents,   \* the userdata of the pending et_UpdateInterrupts events
  cpuMarks,    \* what SetCPStatusFromCPU() is about to store in the flags
  gpuMarks,    \* what SetCPStatusFromGPU() is about to store in the flags
  gpuInt       \* the interrupt that SetCPStatusFromGPU() is about to schedule

regs  == <<dist, readPtr, bp, ctrl, enabled, readEnable>>
ints  == <<intSet, intWaiting, intEvents>>
local == <<cpuMarks, gpuMarks, gpuInt>>
cp    == <<regs, atBp, marks, ints, local>>

CPInit ==
  /\ dist = 0 /\ readPtr = 0 /\ bp = 0
  /\ ctrl = [read |-> FALSE, link |-> FALSE, bits |-> {}]
  /\ enabled = {}
  /\ readEnable = FALSE
  /\ atBp = FALSE /\ marks = {}
  /\ intSet = FALSE /\ intWaiting = FALSE /\ intEvents = <<>>
  /\ cpuMarks = {} /\ gpuMarks = {} /\ gpuInt = FALSE

Marks(d) ==
  (IF d > HiWatermark THEN {"hi"} ELSE {}) \cup (IF d < LoWatermark THEN {"lo"} ELSE {})

AtBreakpoint == "bp" \in enabled /\ readPtr = bp

\* The interrupt for the given flags.
Interrupt(flag, m) ==
  /\ ctrl.read
  /\ (flag /\ "bpInt" \in enabled) \/ m \cap enabled # {}
-----------------------------------------------------------------------------
(***************************************************************************)
(* SetCPStatusFromCPU(), which nobody else's s_interrupt_set can overtake. *)
(***************************************************************************)
CPUReadDistance ==
  /\ cpuMarks' = Marks(dist)
  /\ UNCHANGED <<regs, atBp, marks, ints, gpuMarks, gpuInt>>

CPUStoreMarks ==
  /\ marks' = cpuMarks /\ cpuMarks' = {}
  /\ UNCHANGED <<regs, atBp, ints, gpuMarks, gpuInt>>

CPUSetInterrupt ==
  /\ intSet' = IF intWaiting THEN intSet ELSE Interrupt(atBp, marks)
  /\ UNCHANGED <<regs, atBp, marks, intWaiting, intEvents, local>>
-----------------------------------------------------------------------------
(***************************************************************************)
(* SetCPStatusFromGPU()                                                    *)
(***************************************************************************)
GPUReadDistance ==
  /\ atBp' = AtBreakpoint
  /\ gpuMarks' = Marks(dist)
  /\ UNCHANGED <<regs, marks, ints, cpuMarks, gpuInt>>

GPUStoreMarks ==
  /\ marks' = gpuMarks /\ gpuMarks' = {}
  /\ UNCHANGED <<regs, atBp, ints, cpuMarks, gpuInt>>

\* The interrupt has to change, and no change is on its way.
GPUWantsChange == Interrupt(atBp, marks) # intSet /\ ~intWaiting

GPUDecide ==
  /\ gpuInt' = (GPUWantsChange /\ Interrupt(atBp, marks))
  /\ UNCHANGED <<regs, atBp, marks, ints, cpuMarks, gpuMarks>>

GPUSchedule ==
  /\ intWaiting' = TRUE
  /\ intEvents' = Append(intEvents, gpuInt)
  /\ gpuInt' = FALSE
  /\ UNCHANGED <<regs, atBp, marks, intSet, cpuMarks, gpuMarks>>

\* The GPU thread has decoded one chunk.
GPUChunkRead ==
  /\ readPtr' = (readPtr + 1) % Size
  /\ dist' = dist - 1
  /\ UNCHANGED <<bp, ctrl, enabled, readEnable, atBp, marks, ints, local>>
-----------------------------------------------------------------------------
(***************************************************************************)
(* What the CPU thread does besides.  All of it but a write of FIFO_BP is  *)
(* followed by RunGpu().                                                   *)
(***************************************************************************)
\* GatherPipeBursted() with the FIFOs linked; the game does not overrun it.
AddChunk ==
  /\ dist < Size
  /\ dist' = dist + 1
  /\ UNCHANGED <<readPtr, bp, ctrl, enabled, readEnable, atBp, marks, ints, local>>

\* A write of CTRL_REGISTER ...
WriteCtrl(value) ==
  /\ ctrl' = value
  /\ UNCHANGED <<dist, readPtr, bp, enabled, readEnable, atBp, marks, ints, local>>

\* ... and SetCpControlRegister(), up to FlushGpu(): a store for each flag, of
\* which those that change nothing are left out, and GPReadEnable last.
Stale(bit) == (bit \in enabled) # (bit \in ctrl.bits)

StoreEnable ==
  \E i \in 1 .. 4 :
    /\ Stale(Order[i]) /\ \A j \in 1 .. i - 1 : ~Stale(Order[j])
    /\ enabled' = IF Order[i] \in ctrl.bits THEN enabled \cup {Order[i]} ELSE enabled \ {Order[i]}
    /\ UNCHANGED <<dist, readPtr, bp, ctrl, readEnable, atBp, marks, ints, local>>

StoreReadEnable ==
  /\ \A bit \in Enables : ~Stale(bit)
  /\ readEnable' = ctrl.read
  /\ UNCHANGED <<dist, readPtr, bp, ctrl, enabled, atBp, marks, ints, local>>

\* A write of FIFO_BP; games stop the GPU for it, since nothing wakes it.
WriteBreakpoint(ptr) ==
  /\ ~readEnable
  /\ bp' = ptr
  /\ UNCHANGED <<dist, readPtr, ctrl, enabled, readEnable, atBp, marks, ints, local>>

\* Fault: the GPU thread is not told that it may go on.
UpdateInterruptsStaysWaiting ==
  /\ intEvents # <<>>
  /\ intSet' = Head(intEvents)
  /\ intEvents' = Tail(intEvents)
  /\ UNCHANGED <<regs, atBp, marks, intWaiting, local>>

\* UpdateInterrupts(), from the event, up to RunGpu().
UpdateInterrupts ==
  /\ intEvents # <<>>
  /\ intSet' = Head(intEvents)
  /\ intEvents' = Tail(intEvents)
  /\ intWaiting' = FALSE
  /\ UNCHANGED <<regs, atBp, marks, local>>

\* ExitGpuLoop() switches the reading off behind the back of the register.
DisableRead ==
  /\ readEnable' = FALSE
  /\ UNCHANGED <<dist, readPtr, bp, ctrl, enabled, atBp, marks, ints, local>>
-----------------------------------------------------------------------------
CPTypeOK ==
  /\ dist \in 0 .. Size /\ readPtr \in Ptrs /\ bp \in Ptrs
  /\ ctrl \in CtrlRegs /\ enabled \subseteq Enables /\ readEnable \in BOOLEAN
  /\ atBp \in BOOLEAN
  /\ marks \subseteq {"hi", "lo"} /\ cpuMarks \subseteq {"hi", "lo"}
  /\ gpuMarks \subseteq {"hi", "lo"}
  /\ intSet \in BOOLEAN /\ intWaiting \in BOOLEAN /\ gpuInt \in BOOLEAN
  /\ intEvents \in Seq(BOOLEAN) /\ Len(intEvents) <= 1
=============================================================================
