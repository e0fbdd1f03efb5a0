------------------------------ MODULE WorkLoop ------------------------------
(***************************************************************************)
(* What Common::BlockingLoop promises to the threads that use it, without  *)
(* its counter, events and locks: a level of work that Wakeup() raises and *)
(* every complete run of the payload lowers by one, so that a run starts   *)
(* after the last Wakeup() before the level says "done".  The worker also  *)
(* polls: it may run the payload when nothing is asked for.                *)
(* BlockingLoop.tla is shown to implement this module; GpuThread.tla and   *)
(* VideoBuffer.tla use it for s_gpu_mainloop.                              *)
(***************************************************************************)
VARIABLES
  level,  \* the work asked for: "need", "last" or "done"
  run,    \* the worker: "idle", in the "payload", or "leaving" Run()
  on,     \* between Prepare() and the end of Run()
  quit    \* somebody called Stop()

loop == <<level, run, on, quit>>

Off == level = "done" /\ run = "idle" /\ on = FALSE /\ quit = FALSE
Ready == level = "last" /\ run = "idle" /\ on = TRUE /\ quit = FALSE

\* Prepare() asks for one run; a Wakeup() may already have come.
Prepare ==
  /\ ~on /\ on' = TRUE
  /\ level' \in {"last", "need"}
  /\ run' = "idle" /\ quit' = FALSE

Wakeup ==
  /\ level' = IF on THEN "need" ELSE level
  /\ UNCHANGED <<run, on, quit>>

RequestStop ==
  /\ quit' = on
  /\ UNCHANGED <<level, run, on>>

\* A worker that went to sleep while Wakeup() was called lowers the level, too.
Relax ==
  /\ on /\ run = "idle" /\ level = "need"
  /\ level' = "last"
  /\ UNCHANGED <<run, on, quit>>

Start ==
  /\ on /\ ~quit /\ run = "idle"
  /\ run' = "payload"
  /\ UNCHANGED <<level, on, quit>>

End ==
  /\ on /\ run = "payload"
  /\ run' = "idle"
  /\ level' = IF level = "need" THEN "last" ELSE "done"
  /\ UNCHANGED <<on, quit>>

Leave ==
  /\ on /\ quit /\ run = "idle"
  /\ run' = "leaving" /\ level' = "done"
  /\ UNCHANGED <<on, quit>>

TurnOff == level' = "done" /\ run' = "idle" /\ on' = FALSE /\ quit' = FALSE

Return == on /\ run = "leaving" /\ TurnOff

\* The destructor: nobody uses the loop any more, whatever the worker does.
Destroy == on /\ TurnOff

Next ==
  \/ Prepare \/ Wakeup \/ RequestStop
  \/ Relax \/ Start \/ End \/ Leave \/ Return \/ Destroy

Safety == Off /\ [][Next]_loop

\* IsDone() and IsRunning().
IsDone == ~on \/ level = "done"
IsRunning == on /\ ~quit
=============================================================================
