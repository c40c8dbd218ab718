---------------------------- MODULE MCAccelEscrow ----------------------------
(***************************************************************************)
(* Model-checking instances of AccelEscrow.                                *)
(***************************************************************************)
EXTENDS AccelEscrow, TLC

CONSTANTS alice, bob, gold, silver, high, low

\* Mints are interchangeable, and so are bumps.
Symmetry == Permutations(MINTS) \cup Permutations(BUMPS)
=============================================================================
