--------------------------- MODULE TodoStoreProofs ---------------------------
(***************************************************************************)
(* TodoStore for any number of processes: types, and that every store that *)
(* decodes is consistent as long as no process is killed in its write over *)
(* another's bytes.  For one process: it implements TodoQueue.             *)
(***************************************************************************)
EXTENDS TodoStore, SequenceTheorems, TLAPS

Id == 0..(MaxTodos - 1)

---------------------------------------------------------------------------
(* The in-memory queue operations. *)

LEMMA DefaultIsStore == Default \in StoreFile
BY TodoAssumption, EmptySeq DEF Default, StoreFile

LEMMA EnqueueIsStore ==
    ASSUME NEW s \in StoreFile, s.next_id < MaxTodos
    PROVE  /\ Enqueue(s) \in StoreFile
           /\ Enqueue(s).next_id = s.next_id + 1
           /\ Enqueue(s).todos = Append(s.todos, s.next_id)
<1>1. s.next_id \in Id /\ s.todos \in Seq(Id)
    BY TodoAssumption DEF StoreFile, Id
<1>2. Append(s.todos, s.next_id) \in Seq(Id)
    BY <1>1, AppendProperties
<1>3. s.next_id + 1 \in 0..MaxTodos
    BY TodoAssumption DEF StoreFile
<1> QED
    BY <1>2, <1>3 DEF Enqueue, StoreFile, Id

LEMMA DequeueIsStore ==
    ASSUME NEW s \in StoreFile, s.todos # <<>>
    PROVE  /\ Dequeue(s) \in StoreFile
           /\ Dequeue(s).next_id = s.next_id
           /\ Dequeue(s).todos = Tail(s.todos)
           /\ Oldest(s) \in Id
<1>1. s.todos \in Seq(Id)
    BY DEF StoreFile, Id
<1>2. Tail(s.todos) \in Seq(Id) /\ Head(s.todos) \in Id
    BY <1>1, HeadTailProperties
<1> QED
    BY <1>2 DEF Dequeue, Oldest, StoreFile, Id

LEMMA DefaultConsistent == Consistent(Default)
BY DEF Default, Consistent

LEMMA EnqueueConsistent ==
    ASSUME NEW s \in StoreFile, s.next_id < MaxTodos, Consistent(s)
    PROVE  Consistent(Enqueue(s))
<1> DEFINE t == Append(s.todos, s.next_id)
<1>1. s.todos \in Seq(Id) /\ s.next_id \in Id
    BY TodoAssumption DEF StoreFile, Id
<1>2. /\ t \in Seq(Id)
      /\ Len(t) = Len(s.todos) + 1
      /\ \A i \in 1..Len(s.todos) : t[i] = s.todos[i]
      /\ t[Len(s.todos) + 1] = s.next_id
    BY <1>1, AppendProperties
<1>3. /\ DOMAIN t = 1..Len(t) /\ Len(t) \in Nat
      /\ DOMAIN s.todos = 1..Len(s.todos) /\ Len(s.todos) \in Nat
    BY <1>1, <1>2, LenProperties
<1>7. \A i \in 1..Len(s.todos) : s.todos[i] \in Int
  <2>1. \A i \in 1..Len(s.todos) : s.todos[i] \in Id
      BY <1>1, ElementOfSeq
  <2> QED
      BY <2>1 DEF Id
<1>4. Enqueue(s).todos = t /\ Enqueue(s).next_id = s.next_id + 1
    BY DEF Enqueue
<1> HIDE DEF t
<1>5. \A i \in DOMAIN t : t[i] < s.next_id + 1
  <2>1. \A i \in 1..Len(s.todos) : s.todos[i] < s.next_id
      BY <1>3 DEF Consistent
  <2>2. s.next_id \in Nat
      BY <1>1 DEF Id
  <2>3. ASSUME NEW i \in DOMAIN t
        PROVE  i \in 1..Len(s.todos) \/ i = Len(s.todos) + 1
      BY <1>2, <1>3
  <2>4. \A i \in 1..Len(s.todos) : s.todos[i] < s.next_id + 1
      BY <2>1, <2>2, <1>7
  <2> QED
      BY <1>2, <2>2, <2>3, <2>4
<1>6. \A i, j \in DOMAIN t : i < j => t[i] < t[j]
    BY <1>1, <1>2, <1>3, <1>7 DEF Consistent, Id
<1> QED
    BY <1>4, <1>5, <1>6 DEF Consistent

LEMMA DequeueConsistent ==
    ASSUME NEW s \in StoreFile, s.todos # <<>>, Consistent(s)
    PROVE  Consistent(Dequeue(s))
<1> DEFINE t == Tail(s.todos)
<1>1. s.todos \in Seq(Id) /\ s.next_id \in Int
    BY TodoAssumption DEF StoreFile, Id
<1>2. /\ t \in Seq(Id)
      /\ Len(t) = Len(s.todos) - 1
      /\ \A i \in 1..Len(t) : t[i] = s.todos[i + 1]
    BY <1>1, HeadTailProperties
<1>3. /\ DOMAIN t = 1..Len(t) /\ Len(t) \in Nat
      /\ DOMAIN s.todos = 1..Len(s.todos) /\ Len(s.todos) \in Nat
    BY <1>1, <1>2
<1>4. Dequeue(s).todos = t /\ Dequeue(s).next_id = s.next_id
    BY DequeueIsStore
<1> HIDE DEF t
<1>5. \A i \in DOMAIN t : i + 1 \in DOMAIN s.todos
    BY <1>2, <1>3
<1>6. \A i \in DOMAIN t : t[i] < s.next_id
    BY <1>2, <1>3, <1>5 DEF Consistent
<1>7. \A i, j \in DOMAIN t : i < j => t[i] < t[j]
    BY <1>2, <1>3, <1>5 DEF Consistent
<1> QED
    BY <1>4, <1>6, <1>7 DEF Consistent

---------------------------------------------------------------------------
(* What a file holds. *)

(* The encoding of a store: two fields before the tasks. *)
LEMMA EncodeFields ==
    ASSUME NEW s \in StoreFile
    PROVE  /\ Encode(s) \in Seq(Nat)
           /\ Len(Encode(s)) = Len(s.todos) + 2
           /\ Encode(s)[1] = s.next_id
           /\ Encode(s)[2] = Len(s.todos)
           /\ \A i \in 1..Len(s.todos) : Encode(s)[i + 2] = s.todos[i]
<1> DEFINE h == <<s.next_id, Len(s.todos)>>
           t == s.todos
<1>1. s.next_id \in Nat /\ t \in Seq(Nat)
  <2>1. t \in Seq(Id)
      BY DEF StoreFile, Id
  <2> HIDE DEF t
  <2>2. t \in Seq(Id) /\ Len(t) \in Nat /\ \A i \in 1..Len(t) : t[i] \in Id
      BY <2>1, ElementOfSeq
  <2>3. \A i \in 1..Len(t) : t[i] \in Nat
      BY <2>2 DEF Id
  <2>4. t = [i \in 1..Len(t) |-> t[i]]
      BY <2>2
  <2>5. t \in Seq(Nat)
      BY <2>2, <2>3, <2>4, IsASeq
  <2> QED
      BY <2>5, TodoAssumption DEF StoreFile
<1>2. /\ h \in Seq(Nat)
      /\ Len(h) = 2
      /\ h[1] = s.next_id
      /\ h[2] = Len(t)
    BY <1>1
<1>3. Encode(s) = h \o t
    BY DEF Encode
<1> HIDE DEF h, t
<1>4. /\ h \o t \in Seq(Nat)
      /\ Len(h \o t) = Len(h) + Len(t)
      /\ \A i \in 1..(Len(h) + Len(t)) :
            (h \o t)[i] = IF i <= Len(h) THEN h[i] ELSE t[i - Len(h)]
    BY <1>1, <1>2, ConcatProperties
<1>5. Len(t) \in Nat
    BY <1>1
<1>6. \A i \in 1..Len(t) : (h \o t)[i + 2] = t[i]
    BY <1>2, <1>4, <1>5
<1> QED
    BY <1>2, <1>3, <1>4, <1>5, <1>6 DEF t

(* An encoded store decodes, to itself. *)
LEMMA EncodeDecodes ==
    ASSUME NEW s \in StoreFile
    PROVE  Decodable(Encode(s)) /\ Decode(Encode(s)) = s
<1> DEFINE c == Encode(s)
           t == s.todos
           u == SubSeq(c, 3, Len(c))
<1>1. /\ c \in Seq(Nat)
      /\ Len(c) = Len(t) + 2
      /\ c[1] = s.next_id
      /\ c[2] = Len(t)
      /\ \A i \in 1..Len(t) : c[i + 2] = t[i]
    BY EncodeFields
<1>2. t \in Seq(Id) /\ Len(t) \in Nat
    BY DEF StoreFile, Id
<1> HIDE DEF c
<1>3. u = [i \in 1..Len(t) |-> c[i + 2]]
    BY <1>1, <1>2
<1> HIDE DEF u
<1>4. u = t
  <2>1. t = [i \in 1..Len(t) |-> t[i]]
      BY <1>2
  <2> QED
      BY <1>1, <1>3, <2>1
<1>5. s = [next_id |-> s.next_id, todos |-> t]
    BY DEF StoreFile
<1> QED
    BY <1>1, <1>2, <1>4, <1>5 DEF Decodable, Decode, u, c

(* What a partial or complete write leaves. *)
LEMMA OverlayFields ==
    ASSUME NEW new \in Seq(Nat), NEW old \in Seq(Nat), NEW k \in 1..Len(new)
    PROVE  LET c == Overlay(new, old, k)
           IN  /\ c \in Seq(Nat)
               /\ Len(c) = IF k > Len(old) THEN k ELSE Len(old)
               /\ \A i \in 1..Len(c) : c[i] = IF i <= k THEN new[i] ELSE old[i]
               /\ \A i \in 1..Len(c) : i <= k \/ i \in 1..Len(old)
<1> DEFINE n == IF k > Len(old) THEN k ELSE Len(old)
           c == [i \in 1..n |-> IF i <= k THEN new[i] ELSE old[i]]
<1>1. n \in Nat /\ (n > k => n = Len(old)) /\ n >= k
    BY LenProperties
<1>2. \A i \in 1..n : (IF i <= k THEN new[i] ELSE old[i]) \in Nat
  <2> SUFFICES ASSUME NEW i \in 1..n
               PROVE  (IF i <= k THEN new[i] ELSE old[i]) \in Nat
      OBVIOUS
  <2>1. CASE i <= k
      BY <2>1, ElementOfSeq, LenProperties
  <2>2. CASE ~(i <= k)
    <3>1. i \in 1..Len(old)
        BY <2>2, <1>1
    <3> QED
        BY <2>2, <3>1, ElementOfSeq
  <2> QED
      BY <2>1, <2>2
<1> HIDE DEF n
<1>3. c \in Seq(Nat) /\ Len(c) = n /\ DOMAIN c = 1..n
    BY <1>1, <1>2, IsASeq
<1> QED
    BY <1>1, <1>3 DEF Overlay, n

(* Fields stay where they are: whatever is written over whatever keeps the kinds. *)
LEMMA OverlayIsFields ==
    ASSUME NEW s \in StoreFile, NEW old \in Fields, NEW k \in 1..Len(Encode(s))
    PROVE  Overlay(Encode(s), old, k) \in Fields
<1> DEFINE new == Encode(s)
           c == Overlay(new, old, k)
<1>1. /\ new \in Seq(Nat)
      /\ Len(new) = Len(s.todos) + 2
      /\ new[1] = s.next_id
      /\ \A i \in 1..Len(s.todos) : new[i + 2] = s.todos[i]
    BY EncodeFields
<1>2. s.todos \in Seq(Id) /\ Len(s.todos) \in Nat /\ s.next_id \in 0..MaxTodos
    BY DEF StoreFile, Id
<1>3. \A i \in 1..Len(new) : (i = 1 => new[i] <= MaxTodos) /\ (i > 2 => new[i] < MaxTodos)
  <2> SUFFICES ASSUME NEW i \in 1..Len(new)
               PROVE  (i = 1 => new[i] <= MaxTodos) /\ (i > 2 => new[i] < MaxTodos)
      OBVIOUS
  <2>1. i = 1 => new[i] <= MaxTodos
      BY <1>1, <1>2, TodoAssumption
  <2>2. ASSUME i > 2
        PROVE  new[i] < MaxTodos
    <3>1. i - 2 \in 1..Len(s.todos)
        BY <2>2, <1>1, <1>2
    <3>2. s.todos[i - 2] \in Id
        BY <1>2, <3>1, ElementOfSeq
    <3>3. new[(i - 2) + 2] = s.todos[i - 2] /\ (i - 2) + 2 = i
        BY <1>1, <3>1
    <3> QED
        BY <3>2, <3>3, TodoAssumption DEF Id
  <2> QED
      BY <2>1, <2>2
<1> HIDE DEF new
<1>4. /\ c \in Seq(Nat)
      /\ \A i \in 1..Len(c) : c[i] = IF i <= k THEN new[i] ELSE old[i]
      /\ \A i \in 1..Len(c) : i <= k \/ i \in 1..Len(old)
    BY <1>1, OverlayFields DEF Fields, new
<1> HIDE DEF c
<1>5. \A i \in 1..Len(old) : (i = 1 => old[i] <= MaxTodos) /\ (i > 2 => old[i] < MaxTodos)
    BY DEF Fields
<1>6. \A i \in 1..Len(c) : i <= k => i \in 1..Len(new)
    BY <1>1, <1>4, LenProperties DEF new
<1>7. \A i \in 1..Len(c) : (i = 1 => c[i] <= MaxTodos) /\ (i > 2 => c[i] < MaxTodos)
    BY <1>3, <1>4, <1>5, <1>6
<1> QED
    BY <1>4, <1>7 DEF Fields, c, new

(* A write that is complete, or that starts on an empty file, leaves the store that
   was written or nothing that decodes. *)
LEMMA OverlayDecodes ==
    ASSUME NEW s \in StoreFile, NEW old \in Seq(Nat), NEW k \in 1..Len(Encode(s)),
           k = Len(Encode(s)) \/ old = <<>>,
           Decodable(Overlay(Encode(s), old, k))
    PROVE  Overlay(Encode(s), old, k) = Encode(s)
<1> DEFINE new == Encode(s)
           c == Overlay(new, old, k)
<1>1. /\ new \in Seq(Nat)
      /\ Len(new) = Len(s.todos) + 2
      /\ new[2] = Len(s.todos)
      /\ Len(s.todos) \in Nat
    BY EncodeFields DEF StoreFile
<1> HIDE DEF new
<1>2. /\ c \in Seq(Nat)
      /\ Len(c) = IF k > Len(old) THEN k ELSE Len(old)
      /\ \A i \in 1..Len(c) : c[i] = IF i <= k THEN new[i] ELSE old[i]
    BY <1>1, OverlayFields DEF new
<1>3. Len(old) \in Nat /\ (old = <<>> => Len(old) = 0) /\ k \in 1..Len(new)
    BY DEF new
<1>4. k = Len(new) \/ old = <<>>
    BY DEF new
<1>5. Len(c) >= 2 /\ Len(c) = c[2] + 2
    BY DEF Decodable, new
<1> HIDE DEF c
<1>6. k >= 2
    BY <1>1, <1>2, <1>3, <1>4, <1>5
<1>7. c[2] = new[2]
    BY <1>2, <1>5, <1>6, <1>3
<1>8. Len(c) = Len(new) /\ k = Len(new)
    BY <1>1, <1>2, <1>3, <1>4, <1>5, <1>7
<1>9. \A i \in 1..Len(new) : c[i] = new[i]
    BY <1>2, <1>8, <1>1
<1> QED
    BY <1>1, <1>2, <1>8, <1>9, SeqEqual DEF c, new

---------------------------------------------------------------------------
(* Any number of processes. *)

LEMMA InitTypeOK == Init => TypeOK
<1>1. /\ <<>> \in Seq(Nat)
      /\ <<>> \in Seq(0..(MaxTodos - 1))
      /\ <<>> \in Fields
    BY EmptySeq DEF Fields
<1> QED
    BY <1>1, DefaultIsStore DEF Init, TypeOK

(* What decodes is a store. *)
LEMMA DecodeIsStore ==
    ASSUME NEW c \in Fields, Decodable(c)
    PROVE  Decode(c) \in StoreFile
<1> DEFINE u == SubSeq(c, 3, Len(c))
<1>1. /\ c \in Seq(Nat)
      /\ Len(c) \in Nat /\ Len(c) >= 2
      /\ \A i \in 1..Len(c) : (i = 1 => c[i] <= MaxTodos) /\ (i > 2 => c[i] < MaxTodos)
    BY DEF Fields, Decodable
<1>2. c[1] \in 0..MaxTodos
    BY <1>1, TodoAssumption, ElementOfSeq
<1>3. u = [i \in 1..(Len(c) - 2) |-> c[i + 2]]
    BY <1>1
<1>4. \A i \in 1..(Len(c) - 2) : c[i + 2] \in 0..(MaxTodos - 1)
  <2> SUFFICES ASSUME NEW i \in 1..(Len(c) - 2)
               PROVE  c[i + 2] \in 0..(MaxTodos - 1)
      OBVIOUS
  <2>1. i + 2 \in 1..Len(c) /\ i + 2 > 2
      BY <1>1
  <2>2. c[i + 2] \in Nat /\ c[i + 2] < MaxTodos
      BY <1>1, <2>1, ElementOfSeq
  <2> QED
      BY <2>2, TodoAssumption
<1> HIDE DEF u
<1>5. u \in Seq(0..(MaxTodos - 1))
    BY <1>1, <1>3, <1>4, IsASeq
<1> QED
    BY <1>2, <1>5 DEF Decode, StoreFile, u

(* What a command loads is a store. *)
LEMMA LoadedIsStore == TypeOK /\ Loads => Loaded \in StoreFile
BY DefaultIsStore, DecodeIsStore DEF TypeOK, Loads, Loaded

(* A write changes the one file that the process has open. *)
LEMMA PutTypes ==
    ASSUME TypeOK, NEW p \in PROCS, pc[p] = "write",
           NEW k \in 1..Len(Encode(bytes[p])), Put(p, k)
    PROVE  /\ file[p] \in FILES
           /\ content' = [content EXCEPT
                            ![file[p]] = Overlay(Encode(bytes[p]), content[file[p]], k)]
           /\ content' \in [FILES -> Seq(Nat)]
           /\ \A g \in FILES : content'[g] \in Fields
<1>1. file[p] \in FILES /\ bytes[p] \in StoreFile /\ content[file[p]] \in Fields
    BY DEF TypeOK
<1>2. Overlay(Encode(bytes[p]), content[file[p]], k) \in Fields
    BY <1>1, OverlayIsFields
<1>3. content' = [content EXCEPT
                    ![file[p]] = Overlay(Encode(bytes[p]), content[file[p]], k)]
    BY DEF Put
<1>4. Fields \subseteq Seq(Nat)
    BY DEF Fields
<1> QED
    BY <1>1, <1>2, <1>3, <1>4 DEF TypeOK

LEMMA StepTypeOK == TypeOK /\ [Next]_vars => TypeOK'
<1> SUFFICES ASSUME TypeOK, [Next]_vars
             PROVE  TypeOK'
    OBVIOUS
<1> USE DEF TypeOK
<1>1. ASSUME NEW p \in PROCS, Add(p)
      PROVE  TypeOK'
  <2>1. Loaded \in StoreFile /\ Loaded.next_id < MaxTodos
      BY <1>1, LoadedIsStore DEF Add
  <2>2. Enqueue(Loaded) \in StoreFile
      BY <2>1, EnqueueIsStore
  <2>3. <<>> \in Seq(0..(MaxTodos - 1))
      BY EmptySeq
  <2> QED
      BY <1>1, <2>2, <2>3 DEF Add, names
<1>2. ASSUME NEW p \in PROCS, Done(p)
      PROVE  TypeOK'
  <2>1. Loaded \in StoreFile /\ Loaded.todos # <<>>
      BY <1>2, LoadedIsStore DEF Done
  <2>2. Dequeue(Loaded) \in StoreFile /\ Oldest(Loaded) \in 0..(MaxTodos - 1)
      BY <2>1, DequeueIsStore DEF Id
  <2>3. <<Oldest(Loaded)>> \in Seq(0..(MaxTodos - 1))
      BY <2>2
  <2> QED
      BY <1>2, <2>2, <2>3 DEF Done, names
<1>3. ASSUME NEW p \in PROCS, OpenTmp(p)
      PROVE  TypeOK'
  <2>1. SaveTo \subseteq FILES
      BY DEF SaveTo
  <2>2. PICK f \in SaveTo : /\ tmp' = f
                            /\ content' = [content EXCEPT ![f] = <<>>]
                            /\ file' = [file EXCEPT ![p] = f]
      BY <1>3 DEF OpenTmp
  <2>3. /\ content' \in [FILES -> Seq(Nat)]
        /\ \A g \in FILES : content'[g] \in Fields
    <3>1. <<>> \in Seq(Nat) /\ <<>> \in Fields
        BY EmptySeq DEF Fields
    <3> QED
        BY <2>2, <3>1
  <2>4. file' \in [PROCS -> FILES \cup {None}] /\ file'[p] # None
      BY <2>1, <2>2, TodoAssumption
  <2>5. \A q \in PROCS : pc'[q] = "write" => file'[q] # None
      BY <1>3, <2>2, <2>4 DEF OpenTmp
  <2> QED
      BY <1>3, <2>1, <2>2, <2>3, <2>4, <2>5 DEF OpenTmp, command
<1>4. ASSUME NEW p \in PROCS, WriteTmp(p)
      PROVE  TypeOK'
  <2>1. file[p] \in FILES /\ Len(Encode(bytes[p])) \in 1..Len(Encode(bytes[p]))
      BY <1>4, EncodeFields DEF WriteTmp, StoreFile
  <2>2. /\ content' \in [FILES -> Seq(Nat)]
        /\ \A g \in FILES : content'[g] \in Fields
      BY <1>4, <2>1, PutTypes DEF WriteTmp
  <2> QED
      BY <1>4, <2>2 DEF WriteTmp, names, command
<1>5. ASSUME NEW p \in PROCS, Rename(p)
      PROVE  TypeOK'
  <2>1. completed \o popped[p] \in Seq(0..(MaxTodos - 1))
      BY ConcatProperties
  <2> QED
      BY <1>5, <2>1 DEF Rename, command
<1>6. ASSUME NEW p \in PROCS, RenameFails(p)
      PROVE  TypeOK'
    BY <1>6 DEF RenameFails, names, command
<1>7. ASSUME NEW p \in PROCS, Crash(p)
      PROVE  TypeOK'
  <2>1. /\ content' \in [FILES -> Seq(Nat)]
        /\ \A g \in FILES : content'[g] \in Fields
    <3>1. CASE UNCHANGED content
        BY <3>1
    <3>2. ASSUME pc[p] = "write", NEW k \in 1..Len(Encode(bytes[p])), Put(p, k)
          PROVE  /\ content' \in [FILES -> Seq(Nat)]
                 /\ \A g \in FILES : content'[g] \in Fields
        BY <3>2, PutTypes
    <3> QED
        BY <1>7, <3>1, <3>2 DEF Crash
  <2>2. mixed' \in BOOLEAN
      BY <1>7 DEF Crash
  <2> QED
      BY <1>7, <2>1, <2>2 DEF Crash, names, command
<1>8. CASE UNCHANGED vars
    BY <1>8 DEF vars, names, command
<1> QED
    BY <1>1, <1>2, <1>3, <1>4, <1>5, <1>6, <1>7, <1>8 DEF Next, Step

(* Every variable keeps its type, whatever the number of processes: load, save and
   a kill leave names, files and contents of the declared kinds. *)
THEOREM TypeCorrect == Spec => []TypeOK
<1>1. Init => TypeOK
    BY InitTypeOK
<1>2. TypeOK /\ [Next]_vars => TypeOK'
    BY StepTypeOK
<1> QED
    BY <1>1, <1>2, PTL DEF Spec

(* Inductive form of SnapshotsConsistent: what is about to be saved is consistent
   too. *)
Snapshots ==
    /\ SnapshotsConsistent
    /\ ~mixed => \A p \in PROCS : Consistent(bytes[p])

LEMMA LoadedConsistent ==
    TypeOK /\ Snapshots /\ ~mixed /\ Loads => Consistent(Loaded)
BY DefaultConsistent DEF TypeOK, Snapshots, SnapshotsConsistent, Loaded, Loads

(* What a process leaves in a file, when it completes its write or begins it on an
   empty file, is consistent or does not decode. *)
LEMMA PutConsistent ==
    ASSUME TypeOK, Snapshots, ~mixed, NEW p \in PROCS, pc[p] = "write",
           NEW k \in 1..Len(Encode(bytes[p])), Put(p, k),
           k = Len(Encode(bytes[p])) \/ content[file[p]] = <<>>
    PROVE  \A g \in FILES : Decodable(content'[g]) => Consistent(Decode(content'[g]))
<1> DEFINE c == Overlay(Encode(bytes[p]), content[file[p]], k)
<1>1. /\ file[p] \in FILES
      /\ content' = [content EXCEPT ![file[p]] = c]
    BY PutTypes
<1>2. bytes[p] \in StoreFile /\ content[file[p]] \in Seq(Nat) /\ Consistent(bytes[p])
    BY <1>1 DEF TypeOK, Snapshots
<1>3. Decodable(c) => c = Encode(bytes[p])
    BY <1>2, OverlayDecodes
<1>4. Decodable(c) => Consistent(Decode(c))
    BY <1>2, <1>3, EncodeDecodes
<1> HIDE DEF c
<1> QED
    BY <1>1, <1>4 DEF TypeOK, Snapshots, SnapshotsConsistent

LEMMA StepSnapshots == TypeOK /\ Snapshots /\ [Next]_vars => Snapshots'
<1> SUFFICES ASSUME TypeOK, Snapshots, [Next]_vars, ~mixed'
             PROVE  /\ \A f \in FILES :
                          Decodable(content'[f]) => Consistent(Decode(content'[f]))
                    /\ \A p \in PROCS : Consistent(bytes'[p])
    BY DEF Snapshots, SnapshotsConsistent
<1>0. /\ ~mixed
      /\ \A f \in FILES : Decodable(content[f]) => Consistent(Decode(content[f]))
      /\ \A p \in PROCS : Consistent(bytes[p])
  <2>1. ~mixed
      BY DEF Next, Step, Add, Done, OpenTmp, WriteTmp, Rename, RenameFails, Crash, vars,
             TypeOK
  <2> QED
      BY <2>1 DEF Snapshots, SnapshotsConsistent
<1> DEFINE Files == \A f \in FILES :
                        Decodable(content'[f]) => Consistent(Decode(content'[f]))
           Bytes == \A p \in PROCS : Consistent(bytes'[p])
<1>1. ASSUME NEW p \in PROCS, Add(p)
      PROVE  Files /\ Bytes
  <2>1. Consistent(Enqueue(Loaded))
      BY <1>0, <1>1, LoadedIsStore, LoadedConsistent, EnqueueConsistent DEF Add
  <2>2. Bytes
      BY <1>0, <1>1, <2>1 DEF Add, TypeOK
  <2> QED
      BY <1>0, <1>1, <2>2 DEF Add
<1>2. ASSUME NEW p \in PROCS, Done(p)
      PROVE  Files /\ Bytes
  <2>1. Consistent(Dequeue(Loaded))
      BY <1>0, <1>2, LoadedIsStore, LoadedConsistent, DequeueConsistent DEF Done
  <2>2. Bytes
      BY <1>0, <1>2, <2>1 DEF Done, TypeOK
  <2> QED
      BY <1>0, <1>2, <2>2 DEF Done
<1>3. ASSUME NEW p \in PROCS, OpenTmp(p)
      PROVE  Files /\ Bytes
  <2>1. PICK f \in SaveTo : content' = [content EXCEPT ![f] = <<>>]
      BY <1>3 DEF OpenTmp
  <2>2. \A g \in FILES : content'[g] = content[g] \/ content'[g] = <<>>
      BY <2>1 DEF TypeOK
  <2>3. ~Decodable(<<>>)
      BY DEF Decodable
  <2> QED
      BY <1>0, <1>3, <2>2, <2>3 DEF OpenTmp, command
<1>4. ASSUME NEW p \in PROCS, WriteTmp(p)
      PROVE  Files /\ Bytes
  <2>1. Len(Encode(bytes[p])) \in 1..Len(Encode(bytes[p]))
      BY EncodeFields DEF TypeOK, StoreFile
  <2>2. Files
      BY <1>0, <1>4, <2>1, PutConsistent DEF WriteTmp
  <2> QED
      BY <1>0, <1>4, <2>2 DEF WriteTmp, command
<1>5. ASSUME NEW p \in PROCS, Rename(p) \/ RenameFails(p)
      PROVE  Files /\ Bytes
    BY <1>0, <1>5 DEF Rename, RenameFails, command
<1>6. ASSUME NEW p \in PROCS, Crash(p)
      PROVE  Files /\ Bytes
  <2>1. CASE UNCHANGED content
      BY <1>0, <1>6, <2>1 DEF Crash, command
  <2>2. ASSUME pc[p] = "write", NEW k \in 1..Len(Encode(bytes[p])), Put(p, k),
               mixed' = (mixed \/ content[file[p]] # <<>>)
        PROVE  Files
      BY <1>0, <2>2, PutConsistent
  <2> QED
      BY <1>0, <1>6, <2>1, <2>2 DEF Crash, command
<1>7. CASE UNCHANGED vars
    BY <1>0, <1>7 DEF vars, names, command
<1> QED
    BY <1>1, <1>2, <1>3, <1>4, <1>5, <1>6, <1>7 DEF Next, Step

(* However many processes interleave in save, and wherever they are killed, a store
   that decodes has increasing ids below its counter, until one of them is killed in
   its write over the bytes of another. *)
THEOREM SnapshotsStayConsistent == Spec => []SnapshotsConsistent
<1>1. Init => Snapshots
    BY DefaultConsistent DEF Init, Snapshots, SnapshotsConsistent, Decodable
<1>2. TypeOK /\ Snapshots /\ [Next]_vars => Snapshots'
    BY StepSnapshots
<1>3. Snapshots => SnapshotsConsistent
    BY DEF Snapshots
<1> QED
    BY <1>1, <1>2, <1>3, TypeCorrect, PTL DEF Spec

---------------------------------------------------------------------------
(* One process: commands run one after the other. *)

(* What the process is about to save is one step of the queue away from what is on
   disk. *)
Planned(p) ==
    \/ /\ Loaded.next_id < MaxTodos
       /\ bytes[p] = Enqueue(Loaded)
       /\ popped[p] = <<>>
    \/ /\ Loaded.todos # <<>>
       /\ bytes[p] = Dequeue(Loaded)
       /\ popped[p] = <<Oldest(Loaded)>>

(* The inductive invariant of one process: todos.bin decodes, and the temporary
   file is another file that holds the new store when it is about to be renamed. *)
OneProcess(p) ==
    /\ Loads
    /\ tmp # None => tmp # bin
    /\ pc[p] = "write" => tmp # None /\ file[p] = tmp /\ content[tmp] = <<>>
    /\ pc[p] = "rename" => tmp # None /\ content[tmp] = Encode(bytes[p])
    /\ pc[p] # "idle" => Planned(p)

(* A complete write into an empty file leaves what was written. *)
LEMMA OverlayEmpty ==
    ASSUME NEW s \in StoreFile
    PROVE  Overlay(Encode(s), <<>>, Len(Encode(s))) = Encode(s)
<1> DEFINE new == Encode(s)
<1>1. new \in Seq(Nat) /\ Len(new) \in Nat /\ Len(new) > 0
    BY EncodeFields DEF StoreFile
<1> HIDE DEF new
<1>2. Overlay(new, <<>>, Len(new)) = [i \in 1..Len(new) |-> new[i]]
    BY <1>1 DEF Overlay
<1> QED
    BY <1>1, <1>2 DEF new

(* A step that leaves todos.bin alone leaves what a command loads alone. *)
LEMMA LoadedKept ==
    ASSUME bin' = bin, bin # None => content'[bin] = content[bin]
    PROVE  Loaded' = Loaded /\ Stored' = Stored /\ Loads' = Loads
BY DEF Loaded, Stored, Loads

LEMMA StepOneProcess ==
    ASSUME NEW p, PROCS = {p}, TypeOK, OneProcess(p), [Next]_vars
    PROVE  OneProcess(p)' /\ [Queue!Next]_(Queue!vars)
<1>0. /\ p \in PROCS
      /\ Loaded \in StoreFile
      /\ Stored = Loaded
    BY LoadedIsStore DEF OneProcess, Stored
<1>1. CASE Add(p)
  <2>1. Loaded' = Loaded /\ Stored' = Stored /\ completed' = completed /\ Loads' = Loads
      BY <1>1, LoadedKept DEF Add, names
  <2>2. /\ bytes'[p] = Enqueue(Loaded) /\ popped'[p] = <<>> /\ pc'[p] = "save"
        /\ Loaded.next_id < MaxTodos
      BY <1>0, <1>1 DEF Add, TypeOK
  <2>3. Planned(p)'
      BY <2>1, <2>2 DEF Planned
  <2> QED
      BY <1>1, <2>1, <2>2, <2>3 DEF Add, OneProcess, names, Queue!vars
<1>2. CASE Done(p)
  <2>1. Loaded' = Loaded /\ Stored' = Stored /\ completed' = completed /\ Loads' = Loads
      BY <1>2, LoadedKept DEF Done, names
  <2>2. /\ bytes'[p] = Dequeue(Loaded) /\ popped'[p] = <<Oldest(Loaded)>>
        /\ pc'[p] = "save" /\ Loaded.todos # <<>>
      BY <1>0, <1>2 DEF Done, TypeOK
  <2>3. Planned(p)'
      BY <2>1, <2>2 DEF Planned
  <2> QED
      BY <1>2, <2>1, <2>2, <2>3 DEF Done, OneProcess, names, Queue!vars
<1>3. CASE OpenTmp(p)
  <2>1. PICK f \in SaveTo : /\ tmp' = f
                            /\ content' = [content EXCEPT ![f] = <<>>]
                            /\ file' = [file EXCEPT ![p] = f]
      BY <1>3 DEF OpenTmp
  <2>2. f \in FILES /\ f # bin /\ f # None
      BY TodoAssumption DEF SaveTo, TypeOK, OneProcess
  <2>3. Loaded' = Loaded /\ Stored' = Stored /\ completed' = completed /\ Loads' = Loads
      BY <1>3, <2>1, <2>2, LoadedKept DEF OpenTmp, TypeOK
  <2>4. /\ pc'[p] = "write" /\ file'[p] = f /\ content'[f] = <<>>
        /\ bytes' = bytes /\ popped' = popped
      BY <1>0, <1>3, <2>1, <2>2 DEF OpenTmp, TypeOK, command
  <2>5. Planned(p)'
      BY <1>3, <2>3, <2>4 DEF Planned, OneProcess, OpenTmp
  <2> QED
      BY <1>3, <2>1, <2>2, <2>3, <2>4, <2>5 DEF OneProcess, OpenTmp, Queue!vars
<1>4. CASE WriteTmp(p)
  <2>1. tmp \in FILES /\ tmp # bin /\ file[p] = tmp /\ content[tmp] = <<>>
      BY <1>4 DEF WriteTmp, OneProcess, TypeOK
  <2>2. content' = [content EXCEPT ![tmp] = Encode(bytes[p])]
    <3>1. bytes[p] \in StoreFile
        BY <1>0 DEF TypeOK
    <3>2. content' = [content EXCEPT
              ![tmp] = Overlay(Encode(bytes[p]), content[tmp], Len(Encode(bytes[p])))]
        BY <1>4, <2>1 DEF WriteTmp, Put
    <3> QED
        BY <2>1, <3>1, <3>2, OverlayEmpty
  <2>3. Loaded' = Loaded /\ Stored' = Stored /\ completed' = completed /\ Loads' = Loads
      BY <1>4, <2>1, <2>2, LoadedKept DEF WriteTmp, TypeOK, names
  <2>4. /\ pc'[p] = "rename" /\ content'[tmp'] = Encode(bytes'[p]) /\ tmp' = tmp
        /\ bytes' = bytes /\ popped' = popped /\ bin' = bin
      BY <1>0, <1>4, <2>1, <2>2 DEF WriteTmp, TypeOK, names, command
  <2>5. Planned(p)'
      BY <1>4, <2>3, <2>4 DEF Planned, OneProcess, WriteTmp
  <2> QED
      BY <2>1, <2>3, <2>4, <2>5, TodoAssumption DEF OneProcess, Queue!vars
<1>5. CASE Rename(p)
  <2>1. /\ bin' = tmp /\ tmp' = None /\ tmp # None /\ content' = content
        /\ pc'[p] = "idle" /\ content[tmp] = Encode(bytes[p]) /\ bytes[p] \in StoreFile
        /\ completed' = completed \o popped[p]
        /\ Planned(p)
      BY <1>0, <1>5 DEF Rename, OneProcess, TypeOK
  <2>2. Loaded' = bytes[p] /\ Loads' /\ Stored' = bytes[p]
      BY <2>1, EncodeDecodes DEF Loaded, Stored, Loads
  <2>3. OneProcess(p)'
      BY <2>1, <2>2 DEF OneProcess
  <2>4. CASE Loaded.next_id < MaxTodos /\ bytes[p] = Enqueue(Loaded) /\ popped[p] = <<>>
    <3>1. /\ Stored'.todos = Append(Stored.todos, Stored.next_id)
          /\ Stored'.next_id = Stored.next_id + 1
        BY <1>0, <2>2, <2>4, EnqueueIsStore
    <3>2. completed' = completed
        BY <2>1, <2>4, ConcatEmptySeq DEF TypeOK
    <3>3. Queue!Add
        BY <3>1, <3>2 DEF Queue!Add
    <3> QED
        BY <2>3, <3>3 DEF Queue!Next
  <2>5. CASE /\ Loaded.todos # <<>>
             /\ bytes[p] = Dequeue(Loaded)
             /\ popped[p] = <<Oldest(Loaded)>>
    <3>1. /\ Stored'.todos = Tail(Stored.todos)
          /\ Stored'.next_id = Stored.next_id
          /\ Oldest(Loaded) \in Id
        BY <1>0, <2>2, <2>5, DequeueIsStore
    <3>2. completed' = Append(completed, Head(Stored.todos))
        BY <1>0, <2>1, <2>5, <3>1, AppendIsConcat DEF TypeOK, Oldest, Id
    <3>3. Queue!Done
        BY <1>0, <2>5, <3>1, <3>2 DEF Queue!Done
    <3> QED
        BY <2>3, <3>3 DEF Queue!Next
  <2> QED
      BY <2>1, <2>4, <2>5 DEF Planned
<1>6. CASE RenameFails(p)
    BY <1>6 DEF RenameFails, OneProcess
<1>7. CASE Crash(p)
  <2>1. /\ bin' = bin /\ tmp' = tmp /\ completed' = completed /\ pc'[p] = "idle"
        /\ tmp # None => tmp # bin
        /\ \/ content' = content
           \/ tmp # None /\ \E c : content' = [content EXCEPT ![tmp] = c]
      BY <1>0, <1>7 DEF Crash, Put, OneProcess, TypeOK, names
  <2>2. Loaded' = Loaded /\ Stored' = Stored /\ Loads' = Loads
      BY <2>1, LoadedKept DEF OneProcess, TypeOK
  <2> QED
      BY <2>1, <2>2 DEF OneProcess, Queue!vars
<1>8. CASE UNCHANGED vars
  <2>1. Loaded' = Loaded /\ Stored' = Stored /\ Loads' = Loads
      BY <1>8, LoadedKept DEF vars, names
  <2> QED
      BY <1>8, <2>1 DEF vars, names, command, OneProcess, Planned, Queue!vars
<1> QED
    BY <1>1, <1>2, <1>3, <1>4, <1>5, <1>6, <1>7, <1>8 DEF Next, Step

LEMMA InitOneProcess ==
    ASSUME NEW p, PROCS = {p}, Init
    PROVE  OneProcess(p) /\ Queue!Init
<1>1. Loaded = Default /\ Loads
    BY DEF Init, Loaded, Loads
<1> QED
    BY <1>1 DEF Init, OneProcess, Stored, Default, Queue!Init

(* Commands run one at a time, any of them killed at any point, implement the
   queue: save's write to a sibling file and rename make each of them atomic. *)
THEOREM StoreImplementsQueue ==
    ASSUME NEW CONSTANT p, PROCS = {p}
    PROVE  Spec => QueueSpec
<1>1. Init => OneProcess(p) /\ Queue!Init
    BY InitOneProcess
<1>2. TypeOK /\ OneProcess(p) /\ [Next]_vars => OneProcess(p)' /\ [Queue!Next]_(Queue!vars)
    BY StepOneProcess
<1> QED
    BY <1>1, <1>2, TypeCorrect, PTL DEF Spec, QueueSpec, Queue!Spec

---------------------------------------------------------------------------
(* The queue that add and done promise keeps every task once, in order. *)

(* The sequence 0, 1, ..., n - 1 of the ids handed out so far. *)
Ids(n) == [i \in 1..n |-> i - 1]

LEMMA IdsSeq ==
    ASSUME NEW n \in Nat
    PROVE  /\ Ids(n) \in Seq(Nat)
           /\ Len(Ids(n)) = n
           /\ \A i \in 1..n : Ids(n)[i] = i - 1
<1>1. \A i \in 1..n : i - 1 \in Nat
    OBVIOUS
<1>2. Ids(n) \in Seq(Nat)
    BY <1>1, IsASeq DEF Ids
<1>3. Len(Ids(n)) = n
    BY DEF Ids
<1> QED
    BY <1>2, <1>3 DEF Ids

(* Handing out one more id extends that sequence by it. *)
LEMMA IdsAppend ==
    ASSUME NEW n \in Nat
    PROVE  Ids(n + 1) = Append(Ids(n), n)
<1>1. Ids(n + 1) \in Seq(Nat) /\ Len(Ids(n + 1)) = n + 1
    BY IdsSeq
<1>2. /\ Append(Ids(n), n) \in Seq(Nat)
      /\ Len(Append(Ids(n), n)) = n + 1
      /\ \A i \in 1..n : Append(Ids(n), n)[i] = Ids(n)[i]
      /\ Append(Ids(n), n)[n + 1] = n
  <2> DEFINE s == Ids(n)
  <2>1. s \in Seq(Nat) /\ Len(s) = n
      BY IdsSeq
  <2> HIDE DEF s
  <2>2. /\ Append(s, n) \in Seq(Nat)
        /\ Len(Append(s, n)) = Len(s) + 1
        /\ \A i \in 1..Len(s) : Append(s, n)[i] = s[i]
        /\ Append(s, n)[Len(s) + 1] = n
      BY <2>1, AppendProperties
  <2> QED
      BY <2>1, <2>2 DEF s
<1>3. \A i \in 1..(n + 1) : Ids(n + 1)[i] = Append(Ids(n), n)[i]
  <2> SUFFICES ASSUME NEW i \in 1..(n + 1)
               PROVE  Ids(n + 1)[i] = Append(Ids(n), n)[i]
      OBVIOUS
  <2>1. Ids(n + 1)[i] = i - 1
      BY IdsSeq
  <2>2. CASE i \in 1..n
      BY <2>1, <2>2, <1>2, IdsSeq
  <2>3. CASE i = n + 1
      BY <2>1, <2>3, <1>2
  <2>4. i \in 1..n \/ i = n + 1
      OBVIOUS
  <2> QED
      BY <2>2, <2>3, <2>4
<1> QED
    BY <1>1, <1>2, <1>3, SeqEqual

(* The library's fact on concatenation, for sequences of ids. *)
LEMMA ConcatIds ==
    ASSUME NEW s \in Seq(Nat), NEW t \in Seq(Nat), NEW u \in Seq(Nat)
    PROVE  (s \o t) \o u = s \o (t \o u)
BY ConcatAssociative, Z3T(60)

(* Moving the head of the second sequence to the end of the first keeps what they
   make together. *)
LEMMA MoveHead ==
    ASSUME NEW s \in Seq(Nat), NEW t \in Seq(Nat), t # <<>>
    PROVE  Append(s, Head(t)) \o Tail(t) = s \o t
<1>1. /\ Head(t) \in Nat
      /\ Tail(t) \in Seq(Nat)
      /\ Len(Tail(t)) = Len(t) - 1
      /\ \A i \in 1..Len(Tail(t)) : Tail(t)[i] = t[i + 1]
      /\ Head(t) = t[1]
    BY HeadTailProperties
<1>2. <<Head(t)>> \in Seq(Nat) /\ Len(<<Head(t)>>) = 1 /\ <<Head(t)>>[1] = Head(t)
    BY <1>1
<1>3. Append(s, Head(t)) = s \o <<Head(t)>>
    BY <1>1, AppendIsConcat
<1>4. (s \o <<Head(t)>>) \o Tail(t) = s \o (<<Head(t)>> \o Tail(t))
    BY <1>1, <1>2, ConcatIds
<1>5. <<Head(t)>> \o Tail(t) = t
  <2> DEFINE u == <<Head(t)>> \o Tail(t)
  <2>1. /\ u \in Seq(Nat)
        /\ Len(u) = 1 + Len(Tail(t))
        /\ \A i \in 1..(1 + Len(Tail(t))) :
              u[i] = IF i <= 1 THEN <<Head(t)>>[i] ELSE Tail(t)[i - 1]
      BY <1>1, <1>2, ConcatProperties
  <2>2. Len(t) \in Nat /\ Len(u) = Len(t)
      BY <2>1, <1>1
  <2>3. \A i \in 1..Len(t) : u[i] = t[i]
    <3> SUFFICES ASSUME NEW i \in 1..Len(t)
                 PROVE  u[i] = t[i]
        OBVIOUS
    <3>1. CASE i = 1
        BY <3>1, <2>1, <2>2, <1>1, <1>2
    <3>2. CASE i > 1
      <4>1. i - 1 \in 1..Len(Tail(t))
          BY <3>2, <2>2, <1>1
      <4>2. u[i] = Tail(t)[i - 1]
          BY <3>2, <2>1, <2>2
      <4> QED
          BY <4>1, <4>2, <1>1
    <3> QED
        BY <3>1, <3>2, <2>2
  <2> HIDE DEF u
  <2>4. u = t
      BY <2>1, <2>2, <2>3, SeqEqual
  <2> QED
      BY <2>4 DEF u
<1> QED
    BY <1>3, <1>4, <1>5

(* What add and done do to the completed and pending ids, put end to end. *)
LEMMA AddKeepsOrder ==
    ASSUME NEW c \in Seq(Nat), NEW q \in Seq(Nat), NEW n \in Nat, c \o q = Ids(n)
    PROVE  c \o Append(q, n) = Ids(n + 1)
<1>1. /\ Append(q, n) = q \o <<n>>
      /\ Append(c \o q, n) = (c \o q) \o <<n>>
    BY AppendIsConcat, ConcatProperties
<1>2. <<n>> \in Seq(Nat)
    OBVIOUS
<1>3. c \o (q \o <<n>>) = (c \o q) \o <<n>>
    BY <1>2, ConcatIds
<1> QED
    BY <1>1, <1>3, IdsAppend

QueueTypes ==
    /\ Stored.todos \in Seq(Nat)
    /\ Stored.next_id \in Nat
    /\ completed \in Seq(Nat)

LEMMA StepEachOnce ==
    QueueTypes /\ EachOnceInOrder /\ [Queue!Next]_(Queue!vars)
        => QueueTypes' /\ EachOnceInOrder'
<1> SUFFICES ASSUME QueueTypes, EachOnceInOrder, [Queue!Next]_(Queue!vars)
             PROVE  QueueTypes' /\ completed' \o (Stored.todos)' = Ids((Stored.next_id)')
    BY DEF EachOnceInOrder, Queue!EachOnceInOrder, Ids
<1>0. completed \o Stored.todos = Ids(Stored.next_id)
    BY DEF EachOnceInOrder, Queue!EachOnceInOrder, Ids
<1>1. CASE Queue!Add
  <2>1. QueueTypes'
      BY <1>1, AppendProperties DEF Queue!Add, QueueTypes
  <2>2. completed \o Append(Stored.todos, Stored.next_id) = Ids(Stored.next_id + 1)
      BY <1>0, AddKeepsOrder DEF QueueTypes
  <2> QED
      BY <1>1, <2>1, <2>2 DEF Queue!Add
<1>2. CASE Queue!Done
  <2>1. QueueTypes'
      BY <1>2, HeadTailProperties, AppendProperties DEF Queue!Done, QueueTypes
  <2>2. Append(completed, Head(Stored.todos)) \o Tail(Stored.todos)
          = completed \o Stored.todos
      BY <1>2, MoveHead DEF QueueTypes, Queue!Done
  <2> QED
      BY <1>0, <1>2, <2>1, <2>2 DEF Queue!Done
<1>3. CASE UNCHANGED Queue!vars
    BY <1>0, <1>3 DEF Queue!vars, QueueTypes
<1> QED
    BY <1>1, <1>2, <1>3 DEF Queue!Next

(* Nothing is lost, repeated or overtaken in the queue that add and done promise:
   the completed ids followed by the pending ones are all the ids handed out. *)
THEOREM QueueKeepsOrder == QueueSpec => []EachOnceInOrder
<1>1. Queue!Init => QueueTypes /\ EachOnceInOrder
  <2> SUFFICES ASSUME Queue!Init
               PROVE  QueueTypes /\ EachOnceInOrder
      OBVIOUS
  <2>1. QueueTypes
      BY DEF Queue!Init, QueueTypes
  <2>2. completed \o Stored.todos = <<>> /\ Stored.next_id = 0
      BY DEF Queue!Init
  <2>3. Ids(0) = <<>>
      BY DEF Ids
  <2> QED
      BY <2>1, <2>2, <2>3 DEF EachOnceInOrder, Queue!EachOnceInOrder, Ids
<1>2. QueueTypes /\ EachOnceInOrder /\ [Queue!Next]_(Queue!vars)
        => QueueTypes' /\ EachOnceInOrder'
    BY StepEachOnce
<1> QED
    BY <1>1, <1>2, PTL DEF QueueSpec, Queue!Spec

(* So, however often a command is killed, no task on disk is lost, repeated or
   overtaken. *)
THEOREM StoreKeepsOrder ==
    ASSUME NEW CONSTANT p, PROCS = {p}
    PROVE  Spec => []EachOnceInOrder
BY StoreImplementsQueue, QueueKeepsOrder, PTL

=============================================================================
