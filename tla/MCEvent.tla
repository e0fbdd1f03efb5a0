------------------------------ MODULE MCEvent -------------------------------
(* Three threads, each of which may set, reset and wait. *)
EXTENDS Event
=============================================================================
