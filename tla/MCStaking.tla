------------------------------ MODULE MCStaking ------------------------------
(***************************************************************************)
(* Model-checking instance of Staking.                                     *)
(***************************************************************************)
EXTENDS Staking

CONSTANTS nft1, nft2, alice, bob
=============================================================================
