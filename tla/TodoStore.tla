------------------------------ MODULE TodoStore ------------------------------
(***************************************************************************)
(* The persistent-todo program: processes that load the store file, change *)
(* the queue in memory, write the whole of it to a sibling temporary file  *)
(* and rename that into place.  A process may be killed at any point.      *)
(*                                                                         *)
(* A name in the directory (bin for todos.bin, tmp for todos.bin.tmp)      *)
(* refers to a file, and a process that has opened a file keeps writing to *)
(* it whatever happens to its name meanwhile.  A file is the sequence of   *)
(* the fields that Borsh writes, a task being its id: texts and creation   *)
(* times are left out.  `list`, and `done` on an empty queue, only read    *)
(* and print: they are no steps.                                           *)
(***************************************************************************)
EXTENDS Integers, Sequences

CONSTANTS
    PROCS,     \* processes; one of them means commands are run one at a time
    FILES,     \* files on disk, one more than there are processes
    None,      \* no file
    MaxTodos,  \* bound on the ids handed out, and on the length of the queue
    MaxDone    \* bound on the completions that reach the disk

\* StoreFile, the record that is saved.
StoreFile == [next_id : 0..MaxTodos, todos : Seq(0..(MaxTodos - 1))]

ASSUME TodoAssumption ==
    /\ None \notin FILES
    /\ MaxTodos \in Nat
    /\ MaxDone \in Nat

VARIABLES
    bin,       \* the file named todos.bin
    tmp,       \* the file named todos.bin.tmp
    content,   \* content of each file
    pc,        \* where each process is
    file,      \* the file each process has open for writing
    bytes,     \* the StoreFile each process is about to save
    popped,    \* what its dequeue returned: one id or nothing
    completed, \* history: ids whose completion reached the disk, in order
    mixed      \* history: was a process killed while writing over another's bytes?

names == <<bin, tmp>>
command == <<bytes, popped>>
vars == <<names, content, pc, file, command, completed, mixed>>

Default == [next_id |-> 0, todos |-> <<>>]

\* borsh::to_vec: the counter, the length of the queue, then the tasks.
Encode(s) == <<s.next_id, Len(s.todos)>> \o s.todos

\* StoreFile::try_from_slice: every byte must be there, and be used.
Decodable(c) == Len(c) >= 2 /\ Len(c) = c[2] + 2

Decode(c) == [next_id |-> c[1], todos |-> SubSeq(c, 3, Len(c))]

\* load succeeds: the file is missing, which is an empty queue, or it decodes.
Loads == bin # None => Decodable(content[bin])

Loaded == IF bin = None THEN Default ELSE Decode(content[bin])

\* What a command started now would work on.
Stored == IF Loads THEN Loaded ELSE Default

Init ==
    /\ bin = None
    /\ tmp = None
    /\ content = [f \in FILES |-> <<>>]
    /\ pc = [p \in PROCS |-> "idle"]
    /\ file = [p \in PROCS |-> None]
    /\ bytes = [p \in PROCS |-> Default]
    /\ popped = [p \in PROCS |-> <<>>]
    /\ completed = <<>>
    /\ mixed = FALSE

---------------------------------------------------------------------------

\* bug: the counter is raised before the id is taken
Enqueue_raised(s) ==
    [next_id |-> s.next_id + 1, todos |-> Append(s.todos, s.next_id + 1)]

Enqueue(s) == [next_id |-> s.next_id + 1, todos |-> Append(s.todos, s.next_id)]

\* bug: the newest task is taken instead of the oldest
Oldest_newest(s) == s.todos[Len(s.todos)]

Oldest(s) == Head(s.todos)

\* bug: the counter is saved as the length of the queue
Dequeue_by_length(s) == [next_id |-> Len(s.todos) - 1, todos |-> Tail(s.todos)]

Dequeue(s) == [s EXCEPT !.todos = Tail(@)]

\* Command::Add up to save: the task is numbered and enqueued in memory.
Add(p) ==
    /\ pc[p] = "idle"
    /\ Loads
    /\ Loaded.next_id < MaxTodos
    /\ Len(Loaded.todos) < MaxTodos
    /\ bytes' = [bytes EXCEPT ![p] = Enqueue(Loaded)]
    /\ popped' = [popped EXCEPT ![p] = <<>>]
    /\ pc' = [pc EXCEPT ![p] = "save"]
    /\ UNCHANGED <<names, content, file, completed, mixed>>

\* Command::Done up to save, with something to complete.
Done(p) ==
    /\ pc[p] = "idle"
    /\ Loads
    /\ Loaded.todos # <<>>
    /\ Len(completed) < MaxDone
    /\ bytes' = [bytes EXCEPT ![p] = Dequeue(Loaded)]
    /\ popped' = [popped EXCEPT ![p] = <<Oldest(Loaded)>>]
    /\ pc' = [pc EXCEPT ![p] = "save"]
    /\ UNCHANGED <<names, content, file, completed, mixed>>

\* bug: the store is overwritten in place
SaveTo_in_place == IF bin = None THEN {f \in FILES : f # tmp} ELSE {bin}

\* The file behind the temporary name: the one it has, or a new one.
SaveTo ==
    IF tmp = None THEN {f \in FILES \ {bin} : \A q \in PROCS : file[q] # f} ELSE {tmp}

\* save, first half of fs::write: create or truncate the temporary file.
OpenTmp(p) ==
    /\ pc[p] = "save"
    /\ \E f \in SaveTo :
        /\ tmp' = f
        /\ content' = [content EXCEPT ![f] = <<>>]
        /\ file' = [file EXCEPT ![p] = f]
    /\ pc' = [pc EXCEPT ![p] = "write"]
    /\ UNCHANGED <<bin, command, completed, mixed>>

\* The first k fields of new written from the start of a file: what another process
\* has put there since it was truncated stays behind them.
Overlay(new, old, k) ==
    [i \in 1..(IF k > Len(old) THEN k ELSE Len(old)) |-> IF i <= k THEN new[i] ELSE old[i]]

\* Process p writes the first k fields of its store into the file it has open.
Put(p, k) ==
    content' = [content EXCEPT ![file[p]] = Overlay(Encode(bytes[p]), @, k)]

\* save, second half of fs::write: write the bytes and close the file.
WriteTmp(p) ==
    /\ pc[p] = "write"
    /\ Put(p, Len(Encode(bytes[p])))
    /\ file' = [file EXCEPT ![p] = None]
    /\ pc' = [pc EXCEPT ![p] = "rename"]
    /\ UNCHANGED <<names, command, completed, mixed>>

\* save: rename the temporary file, whoever wrote it, over todos.bin.
Rename(p) ==
    /\ pc[p] = "rename"
    /\ tmp # None
    /\ bin' = tmp
    /\ tmp' = None
    /\ completed' = completed \o popped[p]
    /\ pc' = [pc EXCEPT ![p] = "idle"]
    /\ UNCHANGED <<content, file, command, mixed>>

\* save: another process has renamed the temporary file away, and main fails.
RenameFails(p) ==
    /\ pc[p] = "rename"
    /\ tmp = None
    /\ pc' = [pc EXCEPT ![p] = "idle"]
    /\ UNCHANGED <<names, content, file, command, completed, mixed>>

\* The process is killed or a write fails, perhaps with part of the bytes written.
Crash(p) ==
    /\ pc[p] # "idle"
    /\ pc' = [pc EXCEPT ![p] = "idle"]
    /\ file' = [file EXCEPT ![p] = None]
    /\ \/ UNCHANGED <<content, mixed>>
       \/ /\ pc[p] = "write"
          /\ \E k \in 1..Len(Encode(bytes[p])) : Put(p, k)
          /\ mixed' = (mixed \/ content[file[p]] # <<>>)
    /\ UNCHANGED <<names, command, completed>>

Step(p) ==
    \/ Add(p)
    \/ Done(p)
    \/ OpenTmp(p)
    \/ WriteTmp(p)
    \/ Rename(p)
    \/ RenameFails(p)
    \/ Crash(p)

Next == \E p \in PROCS : Step(p)

Spec == Init /\ [][Next]_vars

---------------------------------------------------------------------------
(* Properties. *)

\* What a file may hold: a counter, a length and ids, perhaps cut short or mixed.
Fields ==
    {c \in Seq(Nat) : \A i \in 1..Len(c) : (i = 1 => c[i] <= MaxTodos) /\ (i > 2 => c[i] < MaxTodos)}

(* Every variable has its type; in every file, torn or mixed, each field is where
   load looks for one of its kind, and ids stay below the counter's bound. *)
TypeOK ==
    /\ bin \in FILES \cup {None}
    /\ tmp \in FILES \cup {None}
    /\ content \in [FILES -> Seq(Nat)]
    /\ \A f \in FILES : content[f] \in Fields
    /\ pc \in [PROCS -> {"idle", "save", "write", "rename"}]
    /\ file \in [PROCS -> FILES \cup {None}]
    /\ \A p \in PROCS : pc[p] = "write" => file[p] # None
    /\ bytes \in [PROCS -> StoreFile]
    /\ popped \in [PROCS -> Seq(0..(MaxTodos - 1))]
    /\ completed \in Seq(0..(MaxTodos - 1))
    /\ mixed \in BOOLEAN

(* Commands run one at a time implement the queue of TodoQueue, kills included: a
   command takes effect at its rename or not at all, and what a killed one left in
   the temporary file is never loaded. *)
Queue == INSTANCE TodoQueue WITH queue <- Stored.todos, next_id <- Stored.next_id

QueueSpec == Queue!Spec

(* The same of what is on disk: no task is lost, repeated or overtaken. *)
EachOnceInOrder == Queue!EachOnceInOrder

\* A store whose ids increase along the queue and lie below its counter.
Consistent(s) ==
    /\ \A i \in DOMAIN s.todos : s.todos[i] < s.next_id
    /\ \A i, j \in DOMAIN s.todos : i < j => s.todos[i] < s.todos[j]

(* However processes interleave, and wherever they are killed, whatever decodes is
   one consistent store, so that the next `add` never hands out the id of a pending
   task.  One thing alone breaks this: a process that is killed in its write, over
   the bytes another one has put into the temporary file they share. *)
SnapshotsConsistent ==
    ~mixed => \A f \in FILES : Decodable(content[f]) => Consistent(Decode(content[f]))

(* What the comment on save says, that the write is atomic: todos.bin, when there
   is one, always decodes. *)
StoreDecodable == Loads

=============================================================================
