--------------------------- MODULE MCBlockingLoop ---------------------------
(* A user of a running loop beside the owner that starts and stops it. *)
EXTENDS BlockingLoop, TLC

CONSTANTS User, Owner

\* The user calls what Fifo.cpp and CommandBufferManager call while the loop
\* runs, the owner everything from Prepare() to the destructor.
UserAndOwner ==
  User :> {"Wakeup", "Wait", "AllowSleep"} @@ Owner :> {"Prepare", "WaitYield"} \cup StopModes
=============================================================================
