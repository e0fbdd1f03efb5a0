---------------------------- MODULE MCGpuThread -----------------------------
(* Small rings, and the values that the game writes to the control register. *)
EXTENDS GpuThread

Reads(bits) == [read |-> TRUE, link |-> TRUE, bits |-> bits]
Off(linked) == [read |-> FALSE, link |-> linked, bits |-> {}]

AllInts == {Reads(Enables), Off(FALSE)}
HighInt == {Reads({"hi"}), Off(TRUE)}

Ahead == -1
=============================================================================
