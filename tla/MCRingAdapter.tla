---------------------------- MODULE MCRingAdapter ----------------------------
(* Model checking of RingAdapter.                                           *)
EXTENDS RingAdapter, TLC

MCValues == Producers \X (1 .. Writes)
Symmetry == Permutations(Producers)
=============================================================================
