---------------------------- MODULE MCDVDThread -----------------------------
(* Instances of DVDThread: a few reads, a disc change, states, restarts. *)
EXTENDS DVDThread
=============================================================================
