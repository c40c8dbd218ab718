---------------------------- MODULE MCSharedQueue ----------------------------
(***************************************************************************)
(* Model-checking instance of SharedQueue.                                 *)
(***************************************************************************)
EXTENDS SharedQueue

\* The tasks of the GPT program.
Contexts == 1..MaxContexts
=============================================================================
