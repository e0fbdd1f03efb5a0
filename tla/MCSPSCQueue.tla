---------------------------- MODULE MCSPSCQueue -----------------------------
(* Five cells: up to three elements behind the empty one and one in Pop(). *)
EXTENDS SPSCQueue, TLC

CellSymmetry == Permutations(Cells)
=============================================================================
