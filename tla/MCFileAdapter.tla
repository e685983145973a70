---------------------------- MODULE MCFileAdapter ----------------------------
(* Model checking of FileAdapter.                                           *)
EXTENDS FileAdapter, TLC

Symmetry == Permutations(Producers)
=============================================================================
