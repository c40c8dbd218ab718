--------------------------- MODULE DelegatedState ---------------------------
(***************************************************************************)
(* The user account of the er-state-account program.  Delegated, it lives  *)
(* in an ephemeral rollup as a copy, and the base layer has what the       *)
(* commits that have landed so far say.  Its data is written by its owner, *)
(* by answers of the VRF oracle, and by scheduled_update, which anybody    *)
(* may send and TukTuk sends when a queued task runs.                      *)
(***************************************************************************)
EXTENDS Integers, Sequences

CONSTANTS
    NoAccount,
    MAX_U64,        \* largest data
    IDS,            \* ids of the TukTuk queue
    NoTask,         \* an id that is free
    UpdateTask,     \* a task that sends scheduled_update
    OTHERTASKS,     \* tasks of other programs in the same queue
    MaxWrites,      \* bound on writes
    MaxCommits,     \* bound on commits that wait to land
    MaxRequests     \* bound on requests that wait for an answer, on each layer

DATA == 0..MAX_U64
Account == [data : DATA, version : Nat]
LAYERS == {"base", "rollup"}

ASSUME StateAssumption ==
    /\ MAX_U64 \in Nat
    /\ NoAccount \notin Account
    /\ NoTask # UpdateTask
    /\ OTHERTASKS \cap {NoTask, UpdateTask} = {}

VARIABLES
    account,    \* the account on the base layer
    copy,       \* the account in the rollup
    layer,      \* who writes it: "base", "rollup", or nobody while "leaving" the rollup
    flight,     \* commits on their way to the base layer, oldest first
    requests,   \* randomness asked for and not delivered, on each layer
    tasks,      \* the TukTuk queue
    written     \* writes so far: numbers the versions of the data

own == <<account, copy, layer, flight, requests, written>>
vars == <<account, copy, layer, flight, requests, written, tasks>>

Init ==
    /\ account = NoAccount
    /\ copy = NoAccount
    /\ layer = "base"
    /\ flight = <<>>
    /\ requests = [l \in LAYERS |-> 0]
    /\ tasks = [id \in IDS |-> NoTask]
    /\ written = 0

---------------------------------------------------------------------------
(* Writing. *)

Seen(l) == IF l = "base" THEN account ELSE copy

\* A layer loads the account as the program's own and for writing.
Writable(l) == layer = l /\ Seen(l) # NoAccount

Version(d) == [data |-> d, version |-> written + 1]

Write(l, d) ==
    /\ Writable(l)
    /\ written < MaxWrites
    /\ written' = written + 1
    /\ IF l = "base" THEN account' = Version(d) /\ UNCHANGED copy
                     ELSE copy' = Version(d) /\ UNCHANGED account

\* bug: adds without a look at the width
Incremented_unchecked(d) == d + 1

Incremented(d) == IF d = MAX_U64 THEN d ELSE d + 1

---------------------------------------------------------------------------
(* Instructions of the owner. *)

Initialize ==
    /\ layer = "base"
    /\ account = NoAccount
    /\ written < MaxWrites
    /\ account' = Version(0)
    /\ written' = written + 1
    /\ UNCHANGED <<copy, layer, flight, requests, tasks>>

Update(l, d) ==
    /\ Write(l, d)
    /\ UNCHANGED <<layer, flight, requests, tasks>>

Commit(state, last) == Append(flight, [state |-> state, last |-> last])

\* bug: also undelegates, with what may be the old data
UpdateCommit_undelegate(d) ==
    /\ Len(flight) < MaxCommits
    /\ Write("rollup", d)
    /\ layer' = "leaving"
    /\ \E state \in {copy, copy'} : flight' = Commit(state, TRUE)
    /\ UNCHANGED <<requests, tasks>>

\* commit_accounts runs before Anchor stores the new data: the rollup may pick up
\* either.
UpdateCommit(d) ==
    /\ Len(flight) < MaxCommits
    /\ Write("rollup", d)
    /\ \E state \in {copy, copy'} : flight' = Commit(state, FALSE)
    /\ UNCHANGED <<layer, requests, tasks>>

\* Each layer's request needs an account that this layer can load; the rollup
\* can also read one that is not delegated to it.
RequestRandomUpdate(l) ==
    /\ account # NoAccount
    /\ layer \in {"base", l}
    /\ requests[l] < MaxRequests
    /\ requests' = [requests EXCEPT ![l] = @ + 1]
    /\ UNCHANGED <<account, copy, layer, flight, tasks, written>>

Delegate ==
    /\ Writable("base")
    /\ layer' = "rollup"
    /\ copy' = account
    /\ UNCHANGED <<account, flight, requests, tasks, written>>

\* bug: commits and does not undelegate
Undelegate_commit ==
    /\ Writable("rollup")
    /\ flight' = Commit(copy, FALSE)
    /\ layer' = "leaving"
    /\ UNCHANGED <<account, copy, requests, tasks, written>>

Undelegate ==
    /\ Writable("rollup")
    /\ flight' = Commit(copy, TRUE)
    /\ layer' = "leaving"
    /\ UNCHANGED <<account, copy, requests, tasks, written>>

CloseUser ==
    /\ Writable("base")
    /\ account' = NoAccount
    /\ UNCHANGED <<copy, layer, flight, requests, tasks, written>>

---------------------------------------------------------------------------
(* Instructions of others. *)

\* The callback that the VRF identity signs.
ConsumeRandomUpdate(l, d) ==
    /\ requests[l] > 0
    /\ Write(l, d)
    /\ requests' = [requests EXCEPT ![l] = @ - 1]
    /\ UNCHANGED <<layer, flight, tasks>>

ScheduledUpdate(l) ==
    /\ Write(l, Incremented(Seen(l).data))
    /\ UNCHANGED <<layer, flight, requests>>

SendScheduledUpdate(l) ==
    /\ ScheduledUpdate(l)
    /\ UNCHANGED tasks

\* TukTuk creates an account for the task, which fails when the id is in use.
IdFree(id) == tasks[id] = NoTask

\* queue_task_v0
QueueTask(id, task) ==
    /\ IdFree(id)
    /\ tasks' = [tasks EXCEPT ![id] = task]

ScheduleTuktukUpdate(id) ==
    /\ Writable("base")
    /\ QueueTask(id, UpdateTask)
    /\ UNCHANGED own

---------------------------------------------------------------------------
(* The world outside the program. *)

\* TukTuk runs on the base layer; a task whose transaction fails stays queued.
RunTask(id) ==
    /\ tasks[id] = UpdateTask
    /\ ScheduledUpdate("base")
    /\ tasks' = [tasks EXCEPT ![id] = NoTask]

\* A task that was not run in time can be taken out.
DropTask(id) ==
    /\ tasks[id] = UpdateTask
    /\ tasks' = [tasks EXCEPT ![id] = NoTask]
    /\ UNCHANGED own

\* Other programs use the ids that are free or theirs.
OtherTask(id, task) ==
    /\ tasks[id] # UpdateTask
    /\ tasks' = [tasks EXCEPT ![id] = task]
    /\ UNCHANGED own

\* bug: commits do not wait for those before them
Land_any_order(i) ==
    /\ account' = flight[i].state
    /\ flight' = SubSeq(flight, 1, i - 1) \o SubSeq(flight, i + 1, Len(flight))
    /\ IF flight[i].last THEN layer' = "base" /\ copy' = NoAccount
                         ELSE UNCHANGED <<layer, copy>>
    /\ UNCHANGED <<requests, tasks, written>>

\* A commit lands, and those before it with it.  The last one gives the account
\* back to the program.
Land(i) ==
    /\ account' = flight[i].state
    /\ flight' = SubSeq(flight, i + 1, Len(flight))
    /\ IF flight[i].last THEN layer' = "base" /\ copy' = NoAccount
                         ELSE UNCHANGED <<layer, copy>>
    /\ UNCHANGED <<requests, tasks, written>>

LandSome == \E i \in DOMAIN flight : Land(i)

OwnNext ==
    \/ Initialize \/ Delegate \/ Undelegate \/ CloseUser \/ LandSome
    \/ \E l \in LAYERS : RequestRandomUpdate(l) \/ SendScheduledUpdate(l)
    \/ \E l \in LAYERS, d \in DATA : Update(l, d) \/ ConsumeRandomUpdate(l, d)
    \/ \E d \in DATA : UpdateCommit(d)
    \/ \E id \in IDS : ScheduleTuktukUpdate(id) \/ RunTask(id) \/ DropTask(id)

Next ==
    \/ OwnNext
    \/ \E id \in IDS, task \in OTHERTASKS \cup {NoTask} : OtherTask(id, task)

Spec == Init /\ [][Next]_vars

---------------------------------------------------------------------------
(* Properties. *)

CommitState == [state : Account, last : BOOLEAN]

(* Every variable has its type; the data fits into 64 bits however often it was
   incremented, and there is an account to come back to while it is away. *)
TypeOK ==
    /\ account \in Account \cup {NoAccount}
    /\ copy \in Account \cup {NoAccount}
    /\ layer \in LAYERS \cup {"leaving"}
    /\ layer # "base" => account # NoAccount /\ copy # NoAccount
    /\ flight \in Seq(CommitState)
    /\ requests \in [LAYERS -> Nat]
    /\ tasks \in [IDS -> OTHERTASKS \cup {NoTask, UpdateTask}]
    /\ written \in Nat

(* delegate, undelegate, commits that land, and tasks that are queued or dropped
   change no data: through the layer it lives on, the account is a register that
   only writes change, of the owner, of the oracle that was asked, or of
   scheduled_update. *)
RegisterAlone == INSTANCE Register WITH
    value <- (IF layer = "base" THEN account ELSE copy),
    owed <- requests["base"] + requests["rollup"],
    Zero <- 0, NoValue <- NoAccount

RegisterSpec == RegisterAlone!Spec

(* What the base layer shows of a delegated account may be old, but never goes back
   to data older than it has shown. *)
BaseNeverGoesBack ==
    [][account # NoAccount /\ account' # NoAccount
           => account'.version >= account.version]_vars

(* An account that was undelegated comes back to the program. *)
ComesBack == layer = "leaving" ~> layer = "base"

=============================================================================
