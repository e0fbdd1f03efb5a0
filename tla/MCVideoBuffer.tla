---------------------------- MODULE MCVideoBuffer ---------------------------
(* Buffers of a few chunks, so that they are full and moved all the time. *)
EXTENDS VideoBuffer
=============================================================================
