----------------------------- MODULE MC_LfsTree -----------------------------
(* The two directories fs_init makes, on a disk of nine blocks.  The blocks but  *)
(* those of the root are alike; two sets of swaps of them are enough to profit.  *)
EXTENDS LfsTree, TLC

CONSTANTS b2, b3, b4, b5, b6, b7, b8, f, labels, settings

MCDirs == <<labels, settings>>

Spare == Permutations({b2, b3, b4, b5}) \cup Permutations({b6, b7, b8})
=============================================================================
