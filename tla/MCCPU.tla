------------------------------- MODULE MCCPU --------------------------------
(* Instances of CPU; the sets of calls tell the runs apart. *)
EXTENDS CPU

\* Without the lock of the debugger, which never resumes what it locked.
CoreCalls == {"pause", "resume", "lock", "step", "stop"}
=============================================================================
