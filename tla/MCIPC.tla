------------------------------- MODULE MCIPC --------------------------------
(* Two commands, so that replies may overtake, a hook and a reload. *)
EXTENDS IPC
=============================================================================
