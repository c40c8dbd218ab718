---------------------------- MODULE MCAnchorEscrow ----------------------------
(***************************************************************************)
(* Model-checking instance of AnchorEscrow.                                *)
(***************************************************************************)
EXTENDS AnchorEscrow, TLC

CONSTANTS alice, bob, gold, silver, s1, s2

\* Mints and seeds are interchangeable.
Symmetry == Permutations(MINTS) \cup Permutations(SEEDS)
=============================================================================
