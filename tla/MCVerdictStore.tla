---------------------------- MODULE MCVerdictStore ----------------------------
(***************************************************************************)
(* One anchor with two chips and one with a single chip.                   *)
(***************************************************************************)
EXTENDS VerdictStore, TLC

CONSTANTS p1, p2, p3

MCBatches == {<<p1, p2>>, <<p3>>}

Symmetry == Permutations(Threads) \cup Permutations(Contents)

=============================================================================
