------------------------------ MODULE TodoQueue ------------------------------
(***************************************************************************)
(* What the persistent-todo command line promises: a FIFO queue of         *)
(* numbered tasks, each command taking effect as a whole or not at all.    *)
(***************************************************************************)
EXTENDS Integers, Sequences

VARIABLES
    queue,      \* ids of the pending tasks, the oldest first
    next_id,    \* id of the next task
    completed   \* ids of the completed tasks, in the order of completion

vars == <<queue, next_id, completed>>

Init ==
    /\ queue = <<>>
    /\ next_id = 0
    /\ completed = <<>>

Add ==
    /\ queue' = Append(queue, next_id)
    /\ next_id' = next_id + 1
    /\ UNCHANGED completed

Done ==
    /\ queue # <<>>
    /\ queue' = Tail(queue)
    /\ completed' = Append(completed, Head(queue))
    /\ UNCHANGED next_id

Next == Add \/ Done

Spec == Init /\ [][Next]_vars

---------------------------------------------------------------------------

(* Every task ever added was completed or is pending, once, in the order of the
   additions: main's load, enqueue or dequeue, and save lose and repeat nothing. *)
EachOnceInOrder == completed \o queue = [i \in 1..next_id |-> i - 1]

=============================================================================
