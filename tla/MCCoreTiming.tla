---------------------------- MODULE MCCoreTiming ----------------------------
(* Small clocks: slices of a few cycles, and overclocking that rounds. *)
EXTENDS CoreTiming

RoundingFactors == {<<3, 2>>, <<2, 3>>}
PastAndFuture == {-1, 2}
AtOnce == {0}
ToGameCube == {<<2, 3>>}
=============================================================================
