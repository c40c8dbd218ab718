---------------------------- MODULE MCTransferHook ----------------------------
(***************************************************************************)
(* Model-checking instance of TransferHook.                                *)
(***************************************************************************)
EXTENDS TransferHook

CONSTANTS alice, bob, a1, a2
=============================================================================
