------------------------------ MODULE Register ------------------------------
(***************************************************************************)
(* What a user account promises wherever it lives: one value that changes  *)
(* when somebody writes and at no other time.  Randomness is written as    *)
(* often as it was asked for, at most.                                     *)
(***************************************************************************)
EXTENDS Integers

CONSTANTS
    DATA,      \* what can be written
    Zero,      \* what a new register holds
    NoValue    \* there is no register

VARIABLES
    value,     \* the data and the number of the write it comes from
    written,   \* writes so far
    owed       \* requests for randomness not answered yet

vars == <<value, written, owed>>

Init ==
    /\ value = NoValue
    /\ written = 0
    /\ owed = 0

Put(d) ==
    /\ written' = written + 1
    /\ value' = [data |-> d, version |-> written + 1]

Create ==
    /\ value = NoValue
    /\ Put(Zero)
    /\ UNCHANGED owed

Write(d) ==
    /\ value # NoValue
    /\ Put(d)
    /\ UNCHANGED owed

Ask ==
    /\ value # NoValue
    /\ owed' = owed + 1
    /\ UNCHANGED <<value, written>>

Answer(d) ==
    /\ value # NoValue
    /\ owed > 0
    /\ owed' = owed - 1
    /\ Put(d)

Remove ==
    /\ value # NoValue
    /\ value' = NoValue
    /\ UNCHANGED <<written, owed>>

Next ==
    \/ Create \/ Ask \/ Remove
    \/ \E d \in DATA : Write(d) \/ Answer(d)

Spec == Init /\ [][Next]_vars

=============================================================================
