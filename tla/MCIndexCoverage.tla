-------------------------- MODULE MCIndexCoverage --------------------------
(***************************************************************************)
(* IndexCoverage model-checked.                                            *)
(***************************************************************************)
EXTENDS IndexCoverage, TLC
CONSTANTS w1, w2, b1, b2
Interchangeable == Permutations({w1, w2}) \cup Permutations({b1, b2})
=============================================================================
