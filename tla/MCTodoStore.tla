----------------------------- MODULE MCTodoStore -----------------------------
(***************************************************************************)
(* Model-checking instances of TodoStore.                                  *)
(***************************************************************************)
EXTENDS TodoStore, TLC

CONSTANTS p1, p2, f1, f2, f3

\* Files are told apart only by their names and contents.
Symmetry == Permutations(FILES) \cup Permutations(PROCS)
=============================================================================
