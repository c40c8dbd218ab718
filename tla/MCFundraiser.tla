---------------------------- MODULE MCFundraiser ----------------------------
(***************************************************************************)
(* Model-checking instances of Fundraiser.                                 *)
(***************************************************************************)
EXTENDS Fundraiser, TLC

CONSTANTS c1, c2, b1, b2

\* Contributors and bumps are interchangeable: no property names one of them.
Symmetry == Permutations(CONTRIBUTORS) \cup Permutations(BUMPS)
=============================================================================
