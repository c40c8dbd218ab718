------------------------ MODULE DelegatedStateProofs ------------------------
(***************************************************************************)
(* DelegatedState keeps its types, implements Register, and never shows    *)
(* older data on the base layer than before; no commit on its way is lost. *)
(* Sharing the queue takes nothing of that away, and keeps the promises of *)
(* GptOracle too.                                                          *)
(***************************************************************************)
EXTENDS SharedQueue, SequenceTheorems, TLAPS

(* Commits are on their way only while the account is away, in the order of the
   data they carry, which lies between what the base layer shows and the copy; the
   last commit, and only it, ends the delegation, and carries the copy itself. *)
FlightOK ==
    /\ layer = "base" => flight = <<>>
    /\ layer # "base" => account.version <= copy.version
    /\ \A i \in 1..Len(flight) :
           /\ account.version <= flight[i].state.version
           /\ flight[i].state.version <= copy.version
           /\ flight[i].last <=> layer = "leaving" /\ i = Len(flight)
    /\ \A i, j \in 1..Len(flight) :
           i <= j => flight[i].state.version <= flight[j].state.version
    /\ layer = "leaving" => Len(flight) > 0 /\ flight[Len(flight)].state = copy

Numbered ==
    /\ account # NoAccount => account.version <= written
    /\ copy # NoAccount => copy.version <= written

IInv == TypeOK /\ FlightOK /\ Numbered

---------------------------------------------------------------------------
(* Writing. *)

LEMMA AccountType ==
    ASSUME NEW a \in Account
    PROVE  /\ a.data \in DATA /\ a.data \in Nat
           /\ a.version \in Nat
           /\ a # NoAccount
BY StateAssumption DEF Account, DATA

LEMMA VersionType ==
    ASSUME TypeOK, NEW d \in DATA
    PROVE  /\ Version(d) \in Account
           /\ Version(d).version = written + 1
           /\ Version(d).data = d
BY DEF TypeOK, Version, Account

LEMMA IncrementedType ==
    ASSUME NEW d \in DATA
    PROVE  Incremented(d) \in DATA
BY StateAssumption DEF Incremented, DATA

LEMMA FlightType ==
    ASSUME TypeOK
    PROVE  /\ Len(flight) \in Nat
           /\ \A i \in 1..Len(flight) :
                  /\ flight[i] \in CommitState
                  /\ flight[i].state \in Account
                  /\ flight[i].state.version \in Nat
                  /\ flight[i].last \in BOOLEAN
<1>1. flight \in Seq(CommitState) /\ Len(flight) \in Nat
    BY LenProperties DEF TypeOK
<1>2. \A i \in 1..Len(flight) : flight[i] \in CommitState
    BY <1>1, ElementOfSeq
<1> QED
    BY <1>1, <1>2, AccountType DEF CommitState

LEMMA SeenType ==
    ASSUME TypeOK, NEW l \in LAYERS, Writable(l)
    PROVE  Seen(l) \in Account
BY DEF TypeOK, Writable, Seen

(* A write that leaves layer and flight alone. *)
LEMMA WriteInvariant ==
    ASSUME IInv, NEW l \in LAYERS, NEW d \in DATA, Write(l, d),
           requests' \in [LAYERS -> Nat],
           tasks' \in [IDS -> OTHERTASKS \cup {NoTask, UpdateTask}],
           UNCHANGED <<layer, flight>>
    PROVE  IInv'
<1> USE StateAssumption
<1>1. TypeOK /\ FlightOK /\ Numbered
    BY DEF IInv
<1>2. /\ Version(d) \in Account /\ Version(d) # NoAccount
      /\ Version(d).version = written + 1
      /\ written \in Nat /\ written' = written + 1
    BY <1>1, VersionType, AccountType DEF TypeOK, Write
<1>3. CASE l = "base"
  <2>1. /\ layer = "base" /\ account' = Version(d) /\ copy' = copy
        /\ flight = <<>> /\ Len(flight) = 0
      BY <1>1, <1>3 DEF Write, Writable, FlightOK
  <2>2. TypeOK'
      BY <1>1, <1>2, <2>1 DEF TypeOK
  <2>3. FlightOK'
      BY <2>1 DEF FlightOK
  <2>4. Numbered'
    <3>1. copy # NoAccount => copy.version \in Nat
        BY <1>1, AccountType DEF TypeOK
    <3> QED
        BY <1>1, <1>2, <2>1, <3>1 DEF Numbered
  <2> QED
      BY <2>2, <2>3, <2>4 DEF IInv
<1>4. CASE l = "rollup"
  <2>1. /\ layer = "rollup" /\ copy' = Version(d) /\ account' = account
      BY <1>4 DEF Write, Writable
  <2>2. /\ copy \in Account /\ account \in Account
        /\ copy.version \in Nat /\ account.version \in Nat
        /\ account # NoAccount /\ copy # NoAccount
      BY <1>1, <2>1, AccountType DEF TypeOK
  <2>3. TypeOK'
      BY <1>1, <1>2, <2>1 DEF TypeOK
  <2>4. copy.version <= copy'.version /\ account.version <= copy.version
      BY <1>1, <1>2, <2>1, <2>2 DEF Numbered, FlightOK
  <2>5. \A i \in 1..Len(flight) : flight[i].state.version \in Nat
      BY <1>1, FlightType
  <2>6. FlightOK'
      BY <1>1, <1>2, <2>1, <2>2, <2>4, <2>5 DEF FlightOK
  <2>7. Numbered'
      BY <1>1, <1>2, <2>1, <2>2 DEF Numbered
  <2> QED
      BY <2>3, <2>6, <2>7 DEF IInv
<1> QED
    BY <1>3, <1>4 DEF LAYERS

(* One more commit, of data that is no older than what was committed before. *)
LEMMA CommitFlight ==
    ASSUME TypeOK, NEW state \in Account, NEW last \in BOOLEAN
    PROVE  /\ Commit(state, last) \in Seq(CommitState)
           /\ Len(Commit(state, last)) = Len(flight) + 1
           /\ \A i \in 1..Len(flight) : Commit(state, last)[i] = flight[i]
           /\ Commit(state, last)[Len(flight) + 1] = [state |-> state, last |-> last]
<1>1. flight \in Seq(CommitState)
    BY DEF TypeOK
<1>2. [state |-> state, last |-> last] \in CommitState
    BY DEF CommitState
<1> QED
    BY <1>1, <1>2, AppendProperties DEF Commit

LEMMA UpdateCommitInvariant ==
    ASSUME IInv, NEW d \in DATA, UpdateCommit(d)
    PROVE  IInv'
<1> USE StateAssumption
<1>1. TypeOK /\ FlightOK /\ Numbered
    BY DEF IInv
<1>2. /\ layer = "rollup" /\ layer' = "rollup"
      /\ copy' = Version(d) /\ account' = account
      /\ Version(d) \in Account /\ Version(d) # NoAccount
      /\ Version(d).version = written + 1
      /\ written \in Nat /\ written' = written + 1
      /\ requests' = requests /\ tasks' = tasks
    BY <1>1, VersionType, AccountType DEF TypeOK, UpdateCommit, Write, Writable
<1>3. /\ copy \in Account /\ account \in Account
      /\ copy.version \in Nat /\ account.version \in Nat
      /\ account # NoAccount /\ copy # NoAccount
    BY <1>1, <1>2, AccountType DEF TypeOK
<1>4. PICK state \in {copy, copy'} : flight' = Commit(state, FALSE)
    BY DEF UpdateCommit
<1> DEFINE n == Len(flight)
           e == [state |-> state, last |-> FALSE]
<1>5. state \in Account /\ state.version \in Nat
    BY <1>2, <1>3, <1>4, AccountType
<1>6. /\ flight' \in Seq(CommitState)
      /\ Len(flight') = n + 1
      /\ \A i \in 1..n : flight'[i] = flight[i]
      /\ flight'[n + 1] = e
    BY <1>1, <1>4, <1>5, CommitFlight
<1>7. copy.version <= state.version /\ state.version <= copy'.version
    BY <1>1, <1>2, <1>3, <1>4 DEF Numbered
<1>8. /\ n \in Nat
      /\ \A i \in 1..n : flight[i].state.version \in Nat
    BY <1>1, FlightType
<1>9. account.version <= copy.version /\ copy.version <= copy'.version
    BY <1>1, <1>2, <1>3 DEF FlightOK, Numbered
<1>10. \A i \in 1..n : /\ account.version <= flight[i].state.version
                       /\ flight[i].state.version <= copy.version
                       /\ ~flight[i].last
    BY <1>1, <1>2 DEF FlightOK
<1>11. \A i, j \in 1..n : i <= j => flight[i].state.version <= flight[j].state.version
    BY <1>1 DEF FlightOK
<1>12. e.state = state /\ e.last = FALSE
    OBVIOUS
<1> HIDE DEF n, e
<1>13. \A i \in 1..(n + 1) : i \in 1..n \/ i = n + 1
    BY <1>8
<1>14. copy'.version \in Nat
    BY <1>2
<1>15. FlightOK'
  <2>1. ASSUME NEW i \in 1..(n + 1)
        PROVE  /\ account.version <= flight'[i].state.version
               /\ flight'[i].state.version <= copy'.version
               /\ flight'[i].last = FALSE
    <3>1. CASE i \in 1..n
        BY <1>3, <1>6, <1>8, <1>9, <1>10, <1>14, <3>1
    <3>2. CASE i = n + 1
        BY <1>3, <1>5, <1>6, <1>7, <1>9, <1>12, <1>14, <3>2
    <3> QED
        BY <1>13, <3>1, <3>2
  <2>2. ASSUME NEW i \in 1..(n + 1), NEW j \in 1..(n + 1), i <= j
        PROVE  flight'[i].state.version <= flight'[j].state.version
    <3>1. CASE j \in 1..n
        BY <1>6, <1>8, <1>11, <1>13, <2>2, <3>1
    <3>2. CASE j = n + 1 /\ i \in 1..n
        BY <1>3, <1>5, <1>6, <1>7, <1>8, <1>10, <1>12, <3>2
    <3>3. CASE j = n + 1 /\ i = n + 1
        BY <1>5, <1>6, <1>12, <3>3
    <3> QED
        BY <1>13, <3>1, <3>2, <3>3
  <2>3. account'.version <= copy'.version
      BY <1>2, <1>3, <1>9, <1>14
  <2> QED
      BY <1>2, <1>6, <2>1, <2>2, <2>3 DEF FlightOK
<1>16. TypeOK'
    BY <1>1, <1>2, <1>3, <1>6 DEF TypeOK
<1>17. Numbered'
    BY <1>1, <1>2, <1>3 DEF Numbered
<1> QED
    BY <1>15, <1>16, <1>17 DEF IInv

LEMMA UndelegateInvariant ==
    ASSUME IInv, Undelegate
    PROVE  IInv'
<1> USE StateAssumption
<1>1. TypeOK /\ FlightOK /\ Numbered
    BY DEF IInv
<1>2. /\ layer = "rollup" /\ layer' = "leaving"
      /\ flight' = Commit(copy, TRUE)
      /\ copy' = copy /\ account' = account
      /\ requests' = requests /\ tasks' = tasks /\ written' = written
    BY DEF Undelegate, Writable
<1>3. /\ copy \in Account /\ account \in Account
      /\ copy.version \in Nat /\ account.version \in Nat
    BY <1>1, <1>2, AccountType DEF TypeOK
<1> DEFINE n == Len(flight)
           e == [state |-> copy, last |-> TRUE]
<1>4. /\ flight' \in Seq(CommitState)
      /\ Len(flight') = n + 1
      /\ \A i \in 1..n : flight'[i] = flight[i]
      /\ flight'[n + 1] = e
    BY <1>1, <1>2, <1>3, CommitFlight
<1>5. /\ n \in Nat
      /\ \A i \in 1..n : flight[i].state.version \in Nat
    BY <1>1, FlightType
<1>6. \A i \in 1..n : /\ account.version <= flight[i].state.version
                      /\ flight[i].state.version <= copy.version
                      /\ ~flight[i].last
    BY <1>1, <1>2 DEF FlightOK
<1>7. \A i, j \in 1..n : i <= j => flight[i].state.version <= flight[j].state.version
    BY <1>1 DEF FlightOK
<1>8. account.version <= copy.version
    BY <1>1, <1>2 DEF FlightOK
<1>9. e.state = copy /\ e.last = TRUE
    OBVIOUS
<1> HIDE DEF n, e
<1>10. /\ \A i \in 1..(n + 1) : i \in 1..n \/ i = n + 1
       /\ \A i \in 1..n : i # n + 1
       /\ n + 1 > 0
    BY <1>5
<1>11. FlightOK'
  <2>1. ASSUME NEW i \in 1..(n + 1)
        PROVE  /\ account.version <= flight'[i].state.version
               /\ flight'[i].state.version <= copy.version
               /\ flight'[i].last <=> i = n + 1
    <3>1. CASE i \in 1..n
        BY <1>4, <1>6, <1>10, <3>1
    <3>2. CASE i = n + 1
        BY <1>3, <1>4, <1>8, <1>9, <3>2
    <3> QED
        BY <1>10, <3>1, <3>2
  <2>2. ASSUME NEW i \in 1..(n + 1), NEW j \in 1..(n + 1), i <= j
        PROVE  flight'[i].state.version <= flight'[j].state.version
    <3>1. CASE j \in 1..n
        BY <1>4, <1>5, <1>7, <1>10, <2>2, <3>1
    <3>2. CASE j = n + 1 /\ i \in 1..n
        BY <1>4, <1>6, <1>9, <3>2
    <3>3. CASE j = n + 1 /\ i = n + 1
        BY <1>3, <1>4, <1>9, <3>3
    <3> QED
        BY <1>10, <3>1, <3>2, <3>3
  <2> QED
      BY <1>2, <1>4, <1>8, <1>9, <1>10, <2>1, <2>2 DEF FlightOK
<1>12. TypeOK'
    BY <1>1, <1>2, <1>3, <1>4 DEF TypeOK
<1>13. Numbered'
    BY <1>1, <1>2 DEF Numbered
<1> QED
    BY <1>11, <1>12, <1>13 DEF IInv

(* What is left in flight when the commit at i has landed. *)
LEMMA LandFlight ==
    ASSUME TypeOK, NEW i \in 1..Len(flight), Land(i)
    PROVE  /\ flight' \in Seq(CommitState)
           /\ Len(flight') = Len(flight) - i
           /\ \A k \in 1..(Len(flight) - i) : flight'[k] = flight[i + k] /\ i + k \in 1..Len(flight)
<1> DEFINE n == Len(flight)
<1>1. n \in Nat /\ \A k \in 1..n : flight[k] \in CommitState
    BY FlightType
<1> HIDE DEF n
<1>2. i \in 1..n /\ flight' = SubSeq(flight, i + 1, n)
    BY DEF Land, n
<1>3. \A k \in (i + 1)..n : flight[k] \in CommitState
    BY <1>1, <1>2
<1>4. /\ SubSeq(flight, i + 1, n) \in Seq(CommitState)
      /\ Len(SubSeq(flight, i + 1, n)) = IF i + 1 <= n THEN n - (i + 1) + 1 ELSE 0
      /\ \A k \in 1..(n - (i + 1) + 1) :
             SubSeq(flight, i + 1, n)[k] = flight[i + 1 + k - 1]
    BY <1>1, <1>2, <1>3, SubSeqProperties
<1>5. \A k \in 1..(n - i) :
          k \in 1..(n - (i + 1) + 1) /\ i + 1 + k - 1 = i + k /\ i + k \in 1..n
    BY <1>1, <1>2
<1>6. Len(flight') = n - i
    BY <1>1, <1>2, <1>4
<1> QED
    BY <1>2, <1>4, <1>5, <1>6 DEF n

LEMMA LandInvariant ==
    ASSUME IInv, NEW i \in 1..Len(flight), Land(i)
    PROVE  /\ IInv'
           /\ account \in Account /\ account' \in Account
           /\ account.version <= account'.version
           /\ flight[i].last => layer = "leaving" /\ account' = copy
<1> USE StateAssumption
<1> DEFINE n == Len(flight)
<1>1. TypeOK /\ FlightOK /\ Numbered
    BY DEF IInv
<1>2. n \in Nat /\ n > 0
    BY <1>1, FlightType
<1>3. /\ layer # "base"
      /\ account \in Account /\ copy \in Account
      /\ account.version \in Nat /\ copy.version \in Nat
  <2>1. layer # "base"
    <3>1. layer = "base" => Len(flight) = 0
        BY <1>1 DEF FlightOK
    <3> QED
        BY <1>2, <3>1
  <2> QED
      BY <1>1, <2>1, AccountType DEF TypeOK
<1>4. /\ account' = flight[i].state /\ account' \in Account /\ account' # NoAccount
      /\ account'.version \in Nat
      /\ account'.version = flight[i].state.version
      /\ account.version <= account'.version
      /\ account'.version <= copy.version
      /\ requests' = requests /\ tasks' = tasks /\ written' = written
    BY <1>1, FlightType, AccountType DEF Land, FlightOK
<1>5. /\ flight' \in Seq(CommitState)
      /\ Len(flight') = n - i
      /\ \A k \in 1..(n - i) : flight'[k] = flight[i + k] /\ i + k \in 1..n
    BY <1>1, LandFlight
<1>6. copy.version <= written /\ written \in Nat
  <2>1. copy # NoAccount
      BY <1>3, AccountType
  <2> QED
      BY <1>1, <2>1 DEF Numbered, TypeOK
<1>7. CASE flight[i].last
  <2>1. layer = "leaving" /\ i = n /\ flight[i].state = copy
      BY <1>1, <1>7 DEF FlightOK
  <2>2. layer' = "base" /\ copy' = NoAccount
      BY <1>7 DEF Land
  <2>3. Len(flight') = 0 /\ flight' = <<>>
      BY <1>2, <1>5, <2>1, EmptySeq
  <2>4. TypeOK'
      BY <1>1, <1>4, <1>5, <2>2 DEF TypeOK, LAYERS
  <2>5. FlightOK'
      BY <2>2, <2>3 DEF FlightOK
  <2>6. Numbered'
      BY <1>3, <1>4, <1>6, <2>2 DEF Numbered
  <2> QED
      BY <1>3, <1>4, <2>1, <2>4, <2>5, <2>6 DEF IInv
<1>8. CASE ~flight[i].last
  <2>1. layer' = layer /\ copy' = copy
      BY <1>8 DEF Land
  <2>2. \A k \in 1..n : /\ account'.version <= flight[k].state.version \/ k < i
                        /\ flight[k].state.version <= copy.version
                        /\ flight[k].last <=> layer = "leaving" /\ k = n
      BY <1>1, <1>4 DEF FlightOK
  <2>3. layer = "leaving" => i # n /\ n - i > 0
      BY <1>2, <1>8, <2>2
  <2>4. ASSUME NEW k \in 1..(n - i)
        PROVE  /\ account'.version <= flight'[k].state.version
               /\ flight'[k].state.version <= copy.version
               /\ flight'[k].last <=> layer = "leaving" /\ k = n - i
    <3>1. ~(i + k < i) /\ i + k \in 1..n /\ (i + k = n <=> k = n - i)
        BY <1>2, <1>5
    <3> QED
        BY <1>5, <2>2, <3>1
  <2>5. ASSUME NEW k \in 1..(n - i), NEW m \in 1..(n - i), k <= m
        PROVE  flight'[k].state.version <= flight'[m].state.version
    <3>1. i + k \in 1..n /\ i + m \in 1..n /\ i + k <= i + m
        BY <1>2, <1>5, <2>5
    <3>2. flight[i + k].state.version <= flight[i + m].state.version
        BY <1>1, <3>1 DEF FlightOK
    <3> QED
        BY <1>5, <3>2
  <2>6. layer = "leaving" => flight'[n - i].state = copy
    <3>1. ASSUME layer = "leaving"
          PROVE  flight'[n - i].state = copy
      <4>1. n - i \in 1..(n - i) /\ i + (n - i) = n
          BY <1>2, <2>3, <3>1
      <4>2. flight'[n - i] = flight[n]
          BY <1>5, <4>1
      <4> QED
          BY <1>1, <3>1, <4>2 DEF FlightOK
    <3> QED
        BY <3>1
  <2>7. FlightOK'
    <3> HIDE DEF n
    <3> QED
        BY <1>3, <1>4, <1>5, <2>1, <2>3, <2>4, <2>5, <2>6 DEF FlightOK
  <2>8. TypeOK'
      BY <1>1, <1>3, <1>4, <1>5, <2>1 DEF TypeOK
  <2>9. Numbered'
      BY <1>3, <1>4, <1>6, <2>1 DEF Numbered
  <2> QED
      BY <1>3, <1>4, <1>8, <2>7, <2>8, <2>9 DEF IInv
<1> QED
    BY <1>7, <1>8

---------------------------------------------------------------------------
(* The invariant. *)

LEMMA InitInvariant == Init => IInv
<1> SUFFICES ASSUME Init PROVE IInv
    OBVIOUS
<1> USE StateAssumption
<1>1. flight = <<>> /\ flight \in Seq(CommitState) /\ Len(flight) = 0
    BY EmptySeq DEF Init
<1>2. TypeOK
    BY <1>1 DEF Init, TypeOK, LAYERS
<1>3. FlightOK /\ Numbered
    BY <1>1 DEF Init, FlightOK, Numbered
<1> QED
    BY <1>2, <1>3 DEF IInv

(* Steps that touch no more than the queue and the requests. *)
LEMMA QuietInvariant ==
    ASSUME IInv, UNCHANGED <<account, copy, layer, flight, written>>,
           requests' \in [LAYERS -> Nat],
           tasks' \in [IDS -> OTHERTASKS \cup {NoTask, UpdateTask}]
    PROVE  IInv'
BY DEF IInv, TypeOK, FlightOK, Numbered

LEMMA InitializeInvariant ==
    ASSUME IInv, Initialize
    PROVE  IInv'
<1> USE StateAssumption
<1>1. TypeOK /\ FlightOK /\ Numbered
    BY DEF IInv
<1>2. 0 \in DATA
    BY DEF DATA
<1>3. /\ Version(0) \in Account /\ Version(0).version = written + 1
      /\ written \in Nat
    BY <1>1, <1>2, VersionType DEF TypeOK
<1>4. /\ layer = "base" /\ account' = Version(0) /\ written' = written + 1
      /\ flight = <<>> /\ Len(flight) = 0
      /\ UNCHANGED <<copy, layer, flight, requests, tasks>>
    BY <1>1 DEF Initialize, FlightOK
<1>5. TypeOK'
    BY <1>1, <1>3, <1>4 DEF TypeOK
<1>6. FlightOK'
    BY <1>4 DEF FlightOK
<1>7. copy # NoAccount => copy.version \in Nat
    BY <1>1, AccountType DEF TypeOK
<1>8. Numbered'
    BY <1>1, <1>3, <1>4, <1>7 DEF Numbered
<1> QED
    BY <1>5, <1>6, <1>8 DEF IInv

LEMMA DelegateInvariant ==
    ASSUME IInv, Delegate
    PROVE  IInv'
<1> USE StateAssumption
<1>1. TypeOK /\ FlightOK /\ Numbered
    BY DEF IInv
<1>2. /\ layer = "base" /\ layer' = "rollup" /\ copy' = account /\ account # NoAccount
      /\ flight = <<>> /\ Len(flight) = 0
      /\ UNCHANGED <<account, flight, requests, tasks, written>>
    BY <1>1 DEF Delegate, Writable, Seen, FlightOK
<1>3. account \in Account /\ account.version \in Nat
    BY <1>1, <1>2, AccountType DEF TypeOK
<1>4. TypeOK'
    BY <1>1, <1>2, <1>3 DEF TypeOK, LAYERS
<1>5. FlightOK'
    BY <1>2, <1>3 DEF FlightOK
<1>6. Numbered'
    BY <1>1, <1>2 DEF Numbered
<1> QED
    BY <1>4, <1>5, <1>6 DEF IInv

LEMMA CloseInvariant ==
    ASSUME IInv, CloseUser
    PROVE  IInv'
<1> USE StateAssumption
<1>1. TypeOK /\ FlightOK /\ Numbered
    BY DEF IInv
<1>2. /\ layer = "base" /\ account' = NoAccount
      /\ flight = <<>> /\ Len(flight) = 0
      /\ UNCHANGED <<copy, layer, flight, requests, tasks, written>>
    BY <1>1 DEF CloseUser, Writable, FlightOK
<1>3. TypeOK'
    BY <1>1, <1>2 DEF TypeOK
<1>4. FlightOK' /\ Numbered'
    BY <1>1, <1>2 DEF FlightOK, Numbered
<1> QED
    BY <1>3, <1>4 DEF IInv

LEMMA TaskTypes ==
    ASSUME TypeOK, NEW id \in IDS, NEW task \in OTHERTASKS \cup {NoTask, UpdateTask},
           tasks' = [tasks EXCEPT ![id] = task]
    PROVE  tasks' \in [IDS -> OTHERTASKS \cup {NoTask, UpdateTask}]
BY DEF TypeOK

LEMMA StepInvariant == IInv /\ [Next]_vars => IInv'
<1> SUFFICES ASSUME IInv, [Next]_vars
             PROVE  IInv'
    OBVIOUS
<1>1. TypeOK
    BY DEF IInv
<1>2. /\ requests \in [LAYERS -> Nat]
      /\ tasks \in [IDS -> OTHERTASKS \cup {NoTask, UpdateTask}]
    BY <1>1 DEF TypeOK
<1>3. ASSUME NEW l \in LAYERS, RequestRandomUpdate(l)
      PROVE  IInv'
  <2>1. requests' \in [LAYERS -> Nat]
      BY <1>2, <1>3 DEF RequestRandomUpdate
  <2> QED
      BY <1>2, <1>3, <2>1, QuietInvariant DEF RequestRandomUpdate
<1>4. ASSUME NEW l \in LAYERS, ScheduledUpdate(l),
             tasks' \in [IDS -> OTHERTASKS \cup {NoTask, UpdateTask}]
      PROVE  IInv'
  <2>1. Seen(l) \in Account
      BY <1>1, <1>4, SeenType DEF ScheduledUpdate, Write
  <2>2. Incremented(Seen(l).data) \in DATA
      BY <2>1, AccountType, IncrementedType
  <2> QED
      BY <1>2, <1>4, <2>2, WriteInvariant DEF ScheduledUpdate
<1>5. ASSUME NEW l \in LAYERS, SendScheduledUpdate(l)
      PROVE  IInv'
    BY <1>2, <1>4, <1>5 DEF SendScheduledUpdate
<1>6. ASSUME NEW l \in LAYERS, NEW d \in DATA, Update(l, d)
      PROVE  IInv'
    BY <1>2, <1>6, WriteInvariant DEF Update
<1>7. ASSUME NEW l \in LAYERS, NEW d \in DATA, ConsumeRandomUpdate(l, d)
      PROVE  IInv'
  <2>1. requests[l] \in Nat /\ requests[l] > 0
      BY <1>2, <1>7 DEF ConsumeRandomUpdate
  <2>2. requests[l] - 1 \in Nat
      BY <2>1
  <2>3. requests' \in [LAYERS -> Nat]
      BY <1>2, <1>7, <2>2 DEF ConsumeRandomUpdate
  <2> QED
      BY <1>2, <1>7, <2>3, WriteInvariant DEF ConsumeRandomUpdate
<1>8. ASSUME NEW id \in IDS, ScheduleTuktukUpdate(id)
      PROVE  IInv'
  <2>1. tasks' \in [IDS -> OTHERTASKS \cup {NoTask, UpdateTask}]
      BY <1>1, <1>8, TaskTypes DEF ScheduleTuktukUpdate, QueueTask, IdFree
  <2> QED
      BY <1>2, <1>8, <2>1, QuietInvariant DEF ScheduleTuktukUpdate, own
<1>9. ASSUME NEW id \in IDS, RunTask(id)
      PROVE  IInv'
  <2>1. tasks' \in [IDS -> OTHERTASKS \cup {NoTask, UpdateTask}]
      BY <1>1, <1>9, TaskTypes DEF RunTask
  <2> QED
      BY <1>4, <1>9, <2>1 DEF RunTask, LAYERS
<1>10. ASSUME NEW id \in IDS, DropTask(id)
       PROVE  IInv'
  <2>1. tasks' \in [IDS -> OTHERTASKS \cup {NoTask, UpdateTask}]
      BY <1>1, <1>10, TaskTypes DEF DropTask
  <2> QED
      BY <1>2, <1>10, <2>1, QuietInvariant DEF DropTask, own
<1>11. ASSUME NEW id \in IDS, NEW task \in OTHERTASKS \cup {NoTask}, OtherTask(id, task)
       PROVE  IInv'
  <2>1. tasks' \in [IDS -> OTHERTASKS \cup {NoTask, UpdateTask}]
      BY <1>1, <1>11, TaskTypes DEF OtherTask
  <2> QED
      BY <1>2, <1>11, <2>1, QuietInvariant DEF OtherTask, own
<1>12. ASSUME LandSome
       PROVE  IInv'
  <2>1. DOMAIN flight = 1..Len(flight)
      BY <1>1, LenProperties DEF TypeOK
  <2> QED
      BY <1>12, <2>1, LandInvariant DEF LandSome
<1>13. CASE UNCHANGED vars
    BY <1>2, <1>13, QuietInvariant DEF vars
<1>14. ASSUME NEW d \in DATA, UpdateCommit(d)
       PROVE  IInv'
    BY <1>14, UpdateCommitInvariant
<1> QED
    BY <1>3, <1>5, <1>6, <1>7, <1>8, <1>9, <1>10, <1>11, <1>12, <1>13, <1>14,
       InitializeInvariant, DelegateInvariant, UndelegateInvariant, CloseInvariant
    DEF Next, OwnNext

LEMMA Invariance == Spec => []IInv
BY InitInvariant, StepInvariant, PTL DEF Spec

(* The account program alone, whatever others do to the queue: the types, and with
   them the width of the data. *)
LEMMA TypeCorrect == Spec => []TypeOK
<1>1. IInv => TypeOK
    BY DEF IInv
<1> QED
    BY <1>1, Invariance, PTL

---------------------------------------------------------------------------
(* What the base layer shows, and the register behind both layers. *)

LEMMA StepNeverGoesBack ==
    IInv /\ [Next]_vars
        => [account # NoAccount /\ account' # NoAccount
                => account'.version >= account.version]_vars
<1> SUFFICES ASSUME IInv, Next, account # NoAccount, account' # NoAccount
             PROVE  account'.version >= account.version
    OBVIOUS
<1>1. TypeOK /\ Numbered
    BY DEF IInv
<1>2. account \in Account /\ account.version \in Nat /\ written \in Nat
    BY <1>1, AccountType DEF TypeOK
<1>3. ASSUME account' = account
      PROVE  account'.version >= account.version
    BY <1>2, <1>3
<1>4. ASSUME NEW l \in LAYERS, NEW d \in DATA, Write(l, d)
      PROVE  account'.version >= account.version
  <2>1. Version(d).version = written + 1 /\ account.version <= written
      BY <1>1, VersionType DEF Numbered
  <2>2. account' = Version(d) \/ account' = account
      BY <1>4 DEF Write
  <2> QED
      BY <1>2, <2>1, <2>2
<1>5. ASSUME NEW l \in LAYERS, ScheduledUpdate(l)
      PROVE  account'.version >= account.version
  <2>1. Incremented(Seen(l).data) \in DATA
      BY <1>1, <1>5, SeenType, AccountType, IncrementedType DEF ScheduledUpdate, Write
  <2> QED
      BY <1>4, <1>5, <2>1 DEF ScheduledUpdate
<1>6. ASSUME LandSome
      PROVE  account'.version >= account.version
  <2>1. PICK i \in 1..Len(flight) : Land(i)
      BY <1>1, <1>6, LenProperties DEF TypeOK, LandSome
  <2>2. account.version <= account'.version /\ account' \in Account
      BY <2>1, LandInvariant
  <2> QED
      BY <1>2, <2>2, AccountType
<1>7. CASE Initialize \/ Delegate \/ Undelegate \/ CloseUser
    BY <1>3, <1>7 DEF Initialize, Delegate, Undelegate, CloseUser
<1>8. ASSUME NEW l \in LAYERS, RequestRandomUpdate(l) \/ SendScheduledUpdate(l)
      PROVE  account'.version >= account.version
    BY <1>3, <1>5, <1>8 DEF RequestRandomUpdate, SendScheduledUpdate
<1>9. ASSUME NEW l \in LAYERS, NEW d \in DATA, Update(l, d) \/ ConsumeRandomUpdate(l, d)
      PROVE  account'.version >= account.version
    BY <1>4, <1>9 DEF Update, ConsumeRandomUpdate
<1>10. ASSUME NEW d \in DATA, UpdateCommit(d)
       PROVE  account'.version >= account.version
    BY <1>4, <1>10 DEF UpdateCommit, LAYERS
<1>11. ASSUME NEW id \in IDS, ScheduleTuktukUpdate(id) \/ RunTask(id) \/ DropTask(id)
       PROVE  account'.version >= account.version
    BY <1>3, <1>5, <1>11 DEF ScheduleTuktukUpdate, RunTask, DropTask, own, LAYERS
<1>12. ASSUME NEW id \in IDS, NEW task \in OTHERTASKS \cup {NoTask}, OtherTask(id, task)
       PROVE  account'.version >= account.version
    BY <1>3, <1>12 DEF OtherTask, own
<1> QED
    BY <1>6, <1>7, <1>8, <1>9, <1>10, <1>11, <1>12 DEF Next, OwnNext

LEMMA NeverGoesBack == Spec => BaseNeverGoesBack
BY StepNeverGoesBack, Invariance, PTL DEF Spec, BaseNeverGoesBack

InFlight(v) == \E i \in DOMAIN flight : flight[i].state.version = v

(* A commit on its way stays on its way until the base layer has what it carries, or
   something newer. *)
CommitsNotLost ==
    [][\A v \in Nat : InFlight(v) =>
          InFlight(v)' \/ (account' # NoAccount /\ account'.version >= v)]_vars

LEMMA LandLosesNothing ==
    ASSUME IInv, NEW v \in Nat, InFlight(v), LandSome
    PROVE  InFlight(v)' \/ (account' # NoAccount /\ account'.version >= v)
<1>1. TypeOK /\ FlightOK
    BY DEF IInv
<1>2. DOMAIN flight = 1..Len(flight) /\ Len(flight) \in Nat
    BY <1>1, LenProperties DEF TypeOK
<1>3. PICK i \in 1..Len(flight) : Land(i)
    BY <1>2 DEF LandSome
<1>4. PICK k \in 1..Len(flight) : flight[k].state.version = v
    BY <1>2 DEF InFlight
<1>5. CASE k <= i
  <2>1. account' = flight[i].state /\ flight[i].state \in Account
      BY <1>1, <1>3, FlightType DEF Land
  <2>2. v <= flight[i].state.version /\ flight[i].state.version \in Nat
      BY <1>1, <1>4, <1>5, FlightType DEF FlightOK
  <2> QED
      BY <2>1, <2>2, AccountType
<1>6. CASE k > i
  <2>1. /\ flight' \in Seq(CommitState)
        /\ Len(flight') = Len(flight) - i
        /\ \A j \in 1..(Len(flight) - i) : flight'[j] = flight[i + j]
      BY <1>1, <1>3, LandFlight
  <2>2. k - i \in 1..(Len(flight) - i) /\ i + (k - i) = k
      BY <1>2, <1>6
  <2>3. k - i \in DOMAIN flight' /\ flight'[k - i] = flight[k]
      BY <2>1, <2>2, LenProperties
  <2> QED
      BY <1>4, <2>3 DEF InFlight
<1> QED
    BY <1>2, <1>5, <1>6

LEMMA StepLosesNothing ==
    ASSUME IInv, [Next]_vars, NEW v \in Nat, InFlight(v)
    PROVE  InFlight(v)' \/ (account' # NoAccount /\ account'.version >= v)
<1>1. TypeOK /\ DOMAIN flight = 1..Len(flight) /\ Len(flight) \in Nat
    BY LenProperties DEF IInv, TypeOK
<1>2. ASSUME flight' = flight
      PROVE  InFlight(v)'
    BY <1>2 DEF InFlight
<1>3. ASSUME NEW state \in Account, NEW last \in BOOLEAN, flight' = Commit(state, last)
      PROVE  InFlight(v)'
  <2>1. PICK k \in 1..Len(flight) : flight[k].state.version = v
      BY <1>1 DEF InFlight
  <2>2. /\ flight' \in Seq(CommitState) /\ Len(flight') = Len(flight) + 1
        /\ \A i \in 1..Len(flight) : flight'[i] = flight[i]
      BY <1>1, <1>3, CommitFlight
  <2>3. k \in DOMAIN flight' /\ flight'[k] = flight[k]
      BY <1>1, <2>2, LenProperties
  <2> QED
      BY <2>1, <2>3 DEF InFlight
<1>4. ASSUME NEW d \in DATA, UpdateCommit(d)
      PROVE  InFlight(v)'
  <2>1. copy \in Account /\ copy' \in Account
      BY <1>1, <1>4, VersionType DEF UpdateCommit, Write, Writable, Seen, TypeOK
  <2>2. \E state \in {copy, copy'} : flight' = Commit(state, FALSE)
      BY <1>4 DEF UpdateCommit
  <2> QED
      BY <1>3, <2>1, <2>2
<1>5. ASSUME Undelegate
      PROVE  InFlight(v)'
  <2>1. copy \in Account /\ flight' = Commit(copy, TRUE)
      BY <1>1, <1>5 DEF Undelegate, Writable, Seen, TypeOK
  <2> QED
      BY <1>3, <2>1
<1>6. CASE Initialize \/ Delegate \/ CloseUser \/ UNCHANGED vars
    BY <1>2, <1>6 DEF Initialize, Delegate, CloseUser, vars
<1>7. ASSUME NEW l \in LAYERS, RequestRandomUpdate(l) \/ SendScheduledUpdate(l)
      PROVE  InFlight(v)'
    BY <1>2, <1>7 DEF RequestRandomUpdate, SendScheduledUpdate, ScheduledUpdate
<1>8. ASSUME NEW l \in LAYERS, NEW d \in DATA, Update(l, d) \/ ConsumeRandomUpdate(l, d)
      PROVE  InFlight(v)'
    BY <1>2, <1>8 DEF Update, ConsumeRandomUpdate
<1>9. ASSUME NEW id \in IDS, ScheduleTuktukUpdate(id) \/ RunTask(id) \/ DropTask(id)
      PROVE  InFlight(v)'
    BY <1>2, <1>9 DEF ScheduleTuktukUpdate, RunTask, DropTask, ScheduledUpdate, own
<1>10. ASSUME NEW id \in IDS, NEW task \in OTHERTASKS \cup {NoTask}, OtherTask(id, task)
       PROVE  InFlight(v)'
    BY <1>2, <1>10 DEF OtherTask, own
<1> QED
    BY <1>4, <1>5, <1>6, <1>7, <1>8, <1>9, <1>10, LandLosesNothing DEF Next, OwnNext

LEMMA NothingLost == Spec => CommitsNotLost
<1>1. IInv /\ [Next]_vars
        => [\A v \in Nat : InFlight(v) =>
              InFlight(v)' \/ (account' # NoAccount /\ account'.version >= v)]_vars
    BY StepLosesNothing
<1> QED
    BY <1>1, Invariance, PTL DEF Spec, CommitsNotLost

(* While the account is on its way back, the commit that brings it back is there, and
   it carries what the rollup has. *)
WayBack ==
    layer = "leaving" =>
        \E i \in DOMAIN flight : flight[i].last /\ flight[i].state = copy

LEMMA AlwaysWayBack == Spec => []WayBack
<1>1. IInv => WayBack
  <2> SUFFICES ASSUME IInv, layer = "leaving"
               PROVE  \E i \in DOMAIN flight : flight[i].last /\ flight[i].state = copy
      BY DEF WayBack
  <2>1. DOMAIN flight = 1..Len(flight) /\ Len(flight) \in Nat
      BY LenProperties DEF IInv, TypeOK
  <2>2. Len(flight) > 0 /\ flight[Len(flight)].state = copy
      BY DEF IInv, FlightOK
  <2>3. Len(flight) \in 1..Len(flight)
      BY <2>1, <2>2
  <2>4. flight[Len(flight)].last <=> layer = "leaving" /\ Len(flight) = Len(flight)
      BY <2>3 DEF IInv, FlightOK
  <2> QED
      BY <2>1, <2>2, <2>3, <2>4
<1> QED
    BY <1>1, Invariance, PTL

Value == IF layer = "base" THEN account ELSE copy
Owed == requests["base"] + requests["rollup"]

(* A write on the layer that has the account is a write of the register. *)
LEMMA WriteIsPut ==
    ASSUME IInv, NEW l \in LAYERS, NEW d \in DATA, Write(l, d), layer' = layer
    PROVE  Value # NoAccount /\ RegisterAlone!Put(d)
<1>1. CASE l = "base"
    BY <1>1 DEF Write, Writable, Seen, Value, Version, RegisterAlone!Put
<1>2. CASE l = "rollup"
    BY <1>2 DEF Write, Writable, Seen, Value, Version, RegisterAlone!Put
<1> QED
    BY <1>1, <1>2 DEF LAYERS

LEMMA WriteImplementsRegister ==
    ASSUME IInv, NEW l \in LAYERS, NEW d \in DATA, Write(l, d), layer' = layer,
           requests' = requests
    PROVE  RegisterAlone!Next
<1>1. RegisterAlone!Write(d)
    BY WriteIsPut DEF Value, RegisterAlone!Write
<1> QED
    BY <1>1 DEF RegisterAlone!Next

LEMMA OwedTypes ==
    ASSUME TypeOK
    PROVE  requests["base"] \in Nat /\ requests["rollup"] \in Nat
BY DEF TypeOK, LAYERS

LEMMA StepImplementsRegister ==
    IInv /\ [Next]_vars => [RegisterAlone!Next]_(RegisterAlone!vars)
<1> SUFFICES ASSUME IInv, [Next]_vars
             PROVE  [RegisterAlone!Next]_(RegisterAlone!vars)
    OBVIOUS
<1>1. TypeOK
    BY DEF IInv
<1>2. ASSUME Value' = Value, requests' = requests, written' = written
      PROVE  UNCHANGED RegisterAlone!vars
    BY <1>2 DEF Value, RegisterAlone!vars
<1>3. ASSUME Initialize
      PROVE  RegisterAlone!Next
  <2>1. RegisterAlone!Create
      BY <1>3 DEF Initialize, Version, RegisterAlone!Create, RegisterAlone!Put
  <2> QED
      BY <2>1 DEF RegisterAlone!Next
<1>4. ASSUME Delegate
      PROVE  UNCHANGED RegisterAlone!vars
    BY <1>2, <1>4 DEF Delegate, Writable, Value
<1>5. ASSUME Undelegate
      PROVE  UNCHANGED RegisterAlone!vars
    BY <1>2, <1>5 DEF Undelegate, Writable, Value
<1>6. ASSUME CloseUser
      PROVE  RegisterAlone!Next
  <2>1. RegisterAlone!Remove
      BY <1>6 DEF CloseUser, Writable, Seen, RegisterAlone!Remove
  <2> QED
      BY <2>1 DEF RegisterAlone!Next
<1>7. ASSUME LandSome
      PROVE  UNCHANGED RegisterAlone!vars
  <2>1. PICK i \in 1..Len(flight) : Land(i)
      BY <1>1, <1>7, LenProperties DEF TypeOK, LandSome
  <2>2. layer # "base"
    <3>1. layer = "base" => Len(flight) = 0
        BY DEF IInv, FlightOK
    <3>2. Len(flight) > 0
        BY <1>1, <2>1, FlightType
    <3> QED
        BY <3>1, <3>2
  <2>3. CASE flight[i].last
    <3>1. layer' = "base" /\ account' = copy
        BY <2>1, <2>3, LandInvariant DEF Land
    <3> QED
        BY <1>2, <2>1, <2>2, <3>1 DEF Value, Land
  <2>4. CASE ~flight[i].last
      BY <1>2, <2>1, <2>2, <2>4 DEF Value, Land
  <2> QED
      BY <2>3, <2>4
<1>8. ASSUME NEW l \in LAYERS, RequestRandomUpdate(l)
      PROVE  RegisterAlone!Next
  <2>1. Owed' = Owed + 1
      BY <1>1, <1>8, OwedTypes DEF RequestRandomUpdate, Owed, TypeOK, LAYERS
  <2>2. Value # NoAccount /\ Value' = Value
      BY <1>1, <1>8 DEF RequestRandomUpdate, Value, TypeOK
  <2>3. RegisterAlone!Ask
      BY <1>8, <2>1, <2>2 DEF RequestRandomUpdate, Owed, Value, RegisterAlone!Ask
  <2> QED
      BY <2>3 DEF RegisterAlone!Next
<1>9. ASSUME NEW l \in LAYERS, ScheduledUpdate(l)
      PROVE  RegisterAlone!Next
  <2>1. Incremented(Seen(l).data) \in DATA
      BY <1>1, <1>9, SeenType, AccountType, IncrementedType DEF ScheduledUpdate, Write
  <2> QED
      BY <1>9, <2>1, WriteImplementsRegister DEF ScheduledUpdate
<1>10. ASSUME NEW l \in LAYERS, NEW d \in DATA, Update(l, d)
       PROVE  RegisterAlone!Next
    BY <1>10, WriteImplementsRegister DEF Update
<1>11. ASSUME NEW l \in LAYERS, NEW d \in DATA, ConsumeRandomUpdate(l, d)
       PROVE  RegisterAlone!Next
  <2>1. Value # NoAccount /\ RegisterAlone!Put(d)
      BY <1>11, WriteIsPut DEF ConsumeRandomUpdate
  <2>2. Owed > 0 /\ Owed' = Owed - 1
      BY <1>1, <1>11, OwedTypes DEF ConsumeRandomUpdate, Owed, TypeOK, LAYERS
  <2>3. RegisterAlone!Answer(d)
      BY <2>1, <2>2 DEF Value, Owed, RegisterAlone!Answer
  <2> QED
      BY <2>3 DEF RegisterAlone!Next
<1>12. ASSUME NEW d \in DATA, UpdateCommit(d)
       PROVE  RegisterAlone!Next
    BY <1>12, WriteImplementsRegister DEF UpdateCommit, LAYERS
<1>13. ASSUME NEW id \in IDS, ScheduleTuktukUpdate(id) \/ DropTask(id)
       PROVE  UNCHANGED RegisterAlone!vars
    BY <1>2, <1>13 DEF ScheduleTuktukUpdate, DropTask, own, Value
<1>14. ASSUME NEW id \in IDS, RunTask(id)
       PROVE  RegisterAlone!Next
    BY <1>9, <1>14 DEF RunTask, LAYERS
<1>15. ASSUME NEW id \in IDS, NEW task \in OTHERTASKS \cup {NoTask}, OtherTask(id, task)
       PROVE  UNCHANGED RegisterAlone!vars
    BY <1>2, <1>15 DEF OtherTask, own, Value
<1>16. CASE UNCHANGED vars
    BY <1>2, <1>16 DEF vars, Value
<1> QED
    BY <1>3, <1>4, <1>5, <1>6, <1>7, <1>8, <1>9, <1>10, <1>11, <1>12, <1>13, <1>14,
       <1>15, <1>16
    DEF Next, OwnNext, SendScheduledUpdate

LEMMA ImplementsRegister == Spec => RegisterSpec
<1>1. Init => RegisterAlone!Init
    BY DEF Init, RegisterAlone!Init, LAYERS
<1> QED
    BY <1>1, StepImplementsRegister, Invariance, PTL
    DEF Spec, RegisterSpec, RegisterAlone!Spec

---------------------------------------------------------------------------
(* The GPT program beside it. *)

(* The prompt in the program's state is that of its context, contexts are never given
   up, and tasks are only compiled for contexts that exist. *)
GptInv ==
    /\ Gpt!TypeOK
    /\ Gpt!PromptsMatch
    /\ Gpt!Initialized =>
           /\ oracle_state.llm_context <= Len(descriptions)
           /\ oracle_state.llm_context # Gpt!Default
                  => oracle_state.default_prompt = descriptions[oracle_state.llm_context]
    /\ Len(descriptions) <= MaxContexts
    /\ \A id \in IDS : tasks[id] \in Gpt!CONTEXTS => tasks[id] <= Len(descriptions)

LEMMA Constants ==
    /\ MaxContexts \in Nat /\ MAX_PROMPT \in Nat /\ MAX_RESPONSE \in Nat
    /\ RENT \in Nat /\ MaxFunds \in Nat /\ RENT <= MaxFunds
    /\ TEXTS \subseteq Nat /\ LAMPORTS \subseteq Nat
    /\ NoTask \notin Gpt!CONTEXTS /\ UpdateTask \notin Gpt!CONTEXTS
BY StateAssumption, SharedAssumption

(* One more context; the older ones keep their descriptions. *)
LEMMA Described ==
    ASSUME GptInv, NEW d \in 0..MAX_PROMPT
    PROVE  /\ descriptions \in Seq(0..MAX_PROMPT) /\ Len(descriptions) \in Nat
           /\ Append(descriptions, d) \in Seq(0..MAX_PROMPT)
           /\ Len(Append(descriptions, d)) = Len(descriptions) + 1
           /\ \A c \in 1..Len(descriptions) : Append(descriptions, d)[c] = descriptions[c]
           /\ Append(descriptions, d)[Len(descriptions) + 1] = d
<1>1. descriptions \in Seq(0..MAX_PROMPT) /\ Len(descriptions) \in Nat
    BY LenProperties DEF GptInv, Gpt!TypeOK
<1> QED
    BY <1>1, AppendProperties

LEMMA OracleStateTypes ==
    ASSUME GptInv, Gpt!Initialized
    PROVE  /\ oracle_state \in Gpt!OracleState
           /\ oracle_state.llm_context \in Nat
           /\ oracle_state.default_prompt \in 0..MAX_PROMPT
BY Constants DEF GptInv, Gpt!TypeOK, Gpt!Initialized, Gpt!OracleState, Gpt!CONTEXTS,
   Gpt!Default

LEMMA CreateContextInvariant ==
    ASSUME GptInv, NEW d \in TEXTS, Gpt!CreateContext(d)
    PROVE  GptInv'
<1> DEFINE n == Len(descriptions)
<1>1. /\ Gpt!Initialized /\ d \in 0..MAX_PROMPT /\ n < MaxContexts
      /\ descriptions' = Append(descriptions, d)
      /\ oracle_state' = [oracle_state EXCEPT !.llm_context = n + 1, !.default_prompt = d]
      /\ UNCHANGED <<treasury, interactions, tasks>>
    BY Constants DEF Gpt!CreateContext
<1>2. /\ n \in Nat
      /\ descriptions' \in Seq(0..MAX_PROMPT) /\ Len(descriptions') = n + 1
      /\ \A c \in 1..n : descriptions'[c] = descriptions[c]
      /\ descriptions'[n + 1] = d
    BY <1>1, Described
<1>3. oracle_state \in Gpt!OracleState
    BY <1>1, OracleStateTypes
<1> HIDE DEF n
<1>4. n + 1 \in Gpt!CONTEXTS
    BY <1>1, <1>2, Constants DEF Gpt!CONTEXTS
<1>5. /\ oracle_state' \in Gpt!OracleState
      /\ oracle_state'.llm_context = n + 1
      /\ oracle_state'.default_prompt = d
    BY <1>1, <1>3, <1>4 DEF Gpt!OracleState
<1>6. (Gpt!TypeOK)'
    BY <1>1, <1>2, <1>5 DEF GptInv, Gpt!TypeOK
<1>7. (Gpt!PromptsMatch)'
  <2>1. \A c \in Gpt!CONTEXTS :
            interactions[c] # NoInteraction => c <= n /\ interactions[c].text = descriptions[c]
      BY DEF GptInv, Gpt!PromptsMatch, n
  <2>2. \A c \in Gpt!CONTEXTS : c <= n => c \in 1..n /\ c <= n + 1
      BY <1>2, Constants DEF Gpt!CONTEXTS
  <2> QED
      BY <1>1, <1>2, <2>1, <2>2 DEF Gpt!PromptsMatch
<1>8. \A id \in IDS : tasks[id] \in Gpt!CONTEXTS => tasks[id] <= n + 1
  <2>1. \A id \in IDS : tasks[id] \in Gpt!CONTEXTS => tasks[id] <= n
      BY DEF GptInv, n
  <2> QED
      BY <1>2, <2>1, Constants DEF Gpt!CONTEXTS
<1>9. n + 1 <= MaxContexts
    BY <1>1, <1>2, Constants
<1> QED
    BY <1>1, <1>2, <1>5, <1>6, <1>7, <1>8, <1>9 DEF GptInv

(* A request is for the program's context, and with its prompt. *)
LEMMA RequestInvariant ==
    ASSUME GptInv, NEW c \in Gpt!CONTEXTS, Gpt!RequestGpt(c),
           \A id \in IDS : tasks'[id] \in Gpt!CONTEXTS => tasks'[id] = tasks[id]
    PROVE  GptInv'
<1> DEFINE text == oracle_state.default_prompt
           due == Gpt!Due(c, text)
           record == [text |-> text, rent |-> Gpt!Paid(c) + due, is_processed |-> FALSE]
<1>1. /\ Gpt!Initialized /\ c = oracle_state.llm_context
      /\ Gpt!Affordable(due)
      /\ treasury' = treasury - due
      /\ interactions' = [interactions EXCEPT ![c] = record]
      /\ oracle_state' = [oracle_state EXCEPT !.requests = @ + 1]
      /\ descriptions' = descriptions
    BY DEF Gpt!RequestGpt, Gpt!OfState, Gpt!InteractWithLlm
<1>2. oracle_state \in Gpt!OracleState /\ text \in 0..MAX_PROMPT /\ text \in Nat
    BY <1>1, OracleStateTypes, Constants
<1>3. /\ treasury \in {0} \cup RENT..MaxFunds /\ treasury \in Nat
      /\ interactions \in [Gpt!CONTEXTS -> Gpt!Interaction \cup {NoInteraction}]
    BY Constants DEF GptInv, Gpt!TypeOK
<1>4. Gpt!Paid(c) \in Nat
    BY <1>3 DEF Gpt!Paid, Gpt!Interaction
<1>5. due \in Nat
    BY <1>2, <1>4, Constants DEF Gpt!Due
<1>6. treasury - due \in {0} \cup RENT..MaxFunds
    BY <1>1, <1>3, <1>5, Constants DEF Gpt!Affordable
<1>7. record \in Gpt!Interaction /\ record.text = text
    BY <1>2, <1>4, <1>5 DEF Gpt!Interaction
<1> HIDE DEF due, record, text
<1>8. interactions' \in [Gpt!CONTEXTS -> Gpt!Interaction \cup {NoInteraction}]
    BY <1>1, <1>3, <1>7
<1>9. /\ oracle_state' \in Gpt!OracleState
      /\ oracle_state'.llm_context = oracle_state.llm_context
      /\ oracle_state'.default_prompt = oracle_state.default_prompt
  <2>1. oracle_state.requests + 1 \in Nat
      BY <1>2 DEF Gpt!OracleState
  <2> QED
      BY <1>1, <1>2, <2>1 DEF Gpt!OracleState
<1>10. (Gpt!TypeOK)'
  <2>1. descriptions \in Seq(0..MAX_PROMPT)
      BY DEF GptInv, Gpt!TypeOK
  <2> QED
      BY <1>1, <1>6, <1>8, <1>9, <2>1 DEF Gpt!TypeOK
<1>11. c <= Len(descriptions) /\ text = descriptions[c]
  <2>1. c # Gpt!Default
      BY Constants DEF Gpt!CONTEXTS, Gpt!Default
  <2> QED
      BY <1>1, <2>1 DEF GptInv, text
<1>12. (Gpt!PromptsMatch)'
    BY <1>1, <1>3, <1>7, <1>11 DEF GptInv, Gpt!PromptsMatch
<1> QED
    BY <1>1, <1>9, <1>10, <1>12 DEF GptInv, Gpt!Initialized

LEMMA GptInitInvariant == SharedInit => GptInv
<1> SUFFICES ASSUME SharedInit PROVE GptInv
    OBVIOUS
<1>1. descriptions = <<>> /\ descriptions \in Seq(0..MAX_PROMPT) /\ Len(descriptions) = 0
    BY EmptySeq DEF SharedInit, Gpt!Init
<1>2. \A id \in IDS : tasks[id] \notin Gpt!CONTEXTS
    BY Constants DEF SharedInit, Init
<1>3. Gpt!TypeOK /\ Gpt!PromptsMatch /\ ~Gpt!Initialized
    BY <1>1 DEF SharedInit, Gpt!Init, Gpt!TypeOK, Gpt!PromptsMatch, Gpt!Initialized
<1> QED
    BY <1>1, <1>2, <1>3, Constants DEF GptInv

(* Steps that leave the GPT program alone and queue nothing for it. *)
LEMMA GptQuiet ==
    ASSUME GptInv, UNCHANGED GptVars,
           \A id \in IDS : tasks'[id] \in Gpt!CONTEXTS => tasks'[id] = tasks[id]
    PROVE  GptInv'
BY DEF GptInv, GptVars, Gpt!TypeOK, Gpt!PromptsMatch, Gpt!Initialized

(* What the account program does to the queue. *)
LEMMA OwnQueue ==
    ASSUME TypeOK, OwnNext
    PROVE  \A id \in IDS : \/ tasks'[id] = tasks[id]
                           \/ tasks[id] \notin Gpt!CONTEXTS /\ tasks'[id] \notin Gpt!CONTEXTS
<1> DEFINE Kept == \A id \in IDS : \/ tasks'[id] = tasks[id]
                                   \/ tasks[id] \notin Gpt!CONTEXTS /\ tasks'[id] \notin Gpt!CONTEXTS
<1>1. tasks' = tasks => Kept
    OBVIOUS
<1>2. ASSUME NEW id \in IDS, NEW new \in {NoTask, UpdateTask}, tasks[id] \in {NoTask, UpdateTask},
             tasks' = [tasks EXCEPT ![id] = new]
      PROVE  Kept
    BY <1>2, Constants DEF TypeOK
<1>3. ASSUME NEW id \in IDS, ScheduleTuktukUpdate(id) \/ RunTask(id) \/ DropTask(id)
      PROVE  Kept
    BY <1>2, <1>3 DEF ScheduleTuktukUpdate, QueueTask, IdFree, RunTask, DropTask
<1> HIDE DEF Kept
<1>4. Kept
    BY <1>1, <1>3 DEF OwnNext, Initialize, Delegate, Undelegate, CloseUser, LandSome, Land,
       RequestRandomUpdate, SendScheduledUpdate, Update, ConsumeRandomUpdate, UpdateCommit
<1> QED
    BY <1>4 DEF Kept

LEMMA GptInitializeInvariant ==
    ASSUME GptInv, NEW prompt \in TEXTS, NEW authority \in {"wallet", "queue"},
           Gpt!Initialize(prompt, authority)
    PROVE  GptInv'
<1>1. /\ prompt \in 0..MAX_PROMPT
      /\ oracle_state' = [llm_context |-> Gpt!Default, default_prompt |-> prompt,
                          task_queue_authority |-> authority,
                          requests |-> 0, last_response |-> 0]
      /\ treasury' = IF treasury < RENT THEN RENT ELSE treasury
      /\ UNCHANGED <<descriptions, interactions, tasks>>
    BY Constants DEF Gpt!Initialize
<1>2. oracle_state' \in Gpt!OracleState /\ oracle_state'.llm_context = 0
    BY <1>1, Constants DEF Gpt!OracleState, Gpt!Default
<1>3. treasury' \in {0} \cup RENT..MaxFunds
    BY <1>1, Constants DEF GptInv, Gpt!TypeOK
<1>4. (Gpt!TypeOK)'
    BY <1>1, <1>2, <1>3 DEF GptInv, Gpt!TypeOK
<1>5. 0 <= Len(descriptions)
    BY LenProperties DEF GptInv, Gpt!TypeOK
<1> QED
    BY <1>1, <1>2, <1>4, <1>5 DEF GptInv, Gpt!PromptsMatch, Gpt!Default

LEMMA FundInvariant ==
    ASSUME GptInv, NEW n \in LAMPORTS, Gpt!FundTreasury(n)
    PROVE  GptInv'
<1>1. treasury' \in {0} \cup RENT..MaxFunds
    BY DEF Gpt!FundTreasury
<1> QED
    BY <1>1 DEF Gpt!FundTreasury, GptInv, Gpt!TypeOK, Gpt!PromptsMatch, Gpt!Initialized

LEMMA CallbackState ==
    ASSUME GptInv, NEW r \in TEXTS, Gpt!ProcessOracleCallback(r)
    PROVE  /\ Gpt!Initialized /\ r \in 0..MAX_RESPONSE
           /\ oracle_state' \in Gpt!OracleState
           /\ oracle_state'.llm_context = oracle_state.llm_context
           /\ oracle_state'.default_prompt = oracle_state.default_prompt
           /\ UNCHANGED <<treasury, descriptions, tasks>>
<1>1. /\ Gpt!Initialized /\ r \in 0..MAX_RESPONSE
      /\ oracle_state' = [oracle_state EXCEPT !.last_response = r]
      /\ UNCHANGED <<treasury, descriptions, tasks>>
    BY Constants DEF Gpt!ProcessOracleCallback, Gpt!StoreResponse
<1> QED
    BY <1>1, OracleStateTypes DEF Gpt!OracleState

LEMMA AnswerOtherInvariant ==
    ASSUME GptInv, NEW r \in TEXTS, Gpt!AnswerOther(r)
    PROVE  GptInv'
<1>1. Gpt!ProcessOracleCallback(r) /\ interactions' = interactions
    BY DEF Gpt!AnswerOther
<1>2. /\ Gpt!Initialized
      /\ oracle_state' \in Gpt!OracleState
      /\ oracle_state'.llm_context = oracle_state.llm_context
      /\ oracle_state'.default_prompt = oracle_state.default_prompt
      /\ UNCHANGED <<treasury, descriptions, tasks>>
    BY <1>1, CallbackState
<1>3. (Gpt!TypeOK)'
    BY <1>1, <1>2 DEF GptInv, Gpt!TypeOK
<1>4. (Gpt!PromptsMatch)'
    BY <1>1, <1>2 DEF GptInv, Gpt!PromptsMatch
<1> QED
    BY <1>2, <1>3, <1>4 DEF GptInv, Gpt!Initialized

LEMMA AnswerInvariant ==
    ASSUME GptInv, NEW c \in Gpt!CONTEXTS, NEW r \in TEXTS, Gpt!Answer(c, r)
    PROVE  GptInv'
<1>1. /\ Gpt!ProcessOracleCallback(r)
      /\ interactions[c] # NoInteraction
      /\ interactions' = [interactions EXCEPT ![c] =
                              [interactions[c] EXCEPT !.is_processed = TRUE]]
    BY DEF Gpt!Answer
<1>2. interactions \in [Gpt!CONTEXTS -> Gpt!Interaction \cup {NoInteraction}]
    BY DEF GptInv, Gpt!TypeOK
<1>3. PICK record : record = [interactions[c] EXCEPT !.is_processed = TRUE]
    OBVIOUS
<1>4. record \in Gpt!Interaction /\ record.text = interactions[c].text
    BY <1>1, <1>2, <1>3 DEF Gpt!Interaction
<1>5. interactions' = [interactions EXCEPT ![c] = record]
    BY <1>1, <1>3
<1>6. interactions' \in [Gpt!CONTEXTS -> Gpt!Interaction \cup {NoInteraction}]
    BY <1>2, <1>4, <1>5
<1>7. /\ Gpt!Initialized
      /\ oracle_state' \in Gpt!OracleState
      /\ oracle_state'.llm_context = oracle_state.llm_context
      /\ oracle_state'.default_prompt = oracle_state.default_prompt
      /\ UNCHANGED <<treasury, descriptions, tasks>>
    BY <1>1, CallbackState
<1>8. (Gpt!TypeOK)'
    BY <1>6, <1>7 DEF GptInv, Gpt!TypeOK
<1>9. (Gpt!PromptsMatch)'
    BY <1>1, <1>2, <1>4, <1>5, <1>7 DEF GptInv, Gpt!PromptsMatch
<1> QED
    BY <1>7, <1>8, <1>9 DEF GptInv, Gpt!Initialized

LEMMA ScheduleInvariant ==
    ASSUME GptInv, tasks \in [IDS -> OTHERTASKS \cup {NoTask, UpdateTask}],
           NEW id \in IDS, Gpt!Schedule(id)
    PROVE  GptInv'
<1>1. /\ Gpt!Initialized
      /\ tasks' = [tasks EXCEPT ![id] = oracle_state.llm_context]
      /\ UNCHANGED <<oracle_state, treasury, descriptions, interactions>>
    BY DEF Gpt!Schedule, Gpt!QueueTask, Gpt!IdFree, Gpt!own
<1>2. oracle_state.llm_context <= Len(descriptions)
    BY <1>1 DEF GptInv
<1>3. \A i \in IDS : tasks'[i] \in Gpt!CONTEXTS => tasks'[i] <= Len(descriptions)
    BY <1>1, <1>2 DEF GptInv
<1> QED
    BY <1>1, <1>3 DEF GptInv, Gpt!TypeOK, Gpt!PromptsMatch, Gpt!Initialized

(* What the GPT program does to the queue. *)
LEMMA GptQueue ==
    ASSUME TypeOK, GptInv, Gpt!OwnNext
    PROVE  \/ tasks' = tasks
           \/ \E id \in IDS, task \in OTHERTASKS \cup {NoTask} :
                  tasks[id] # UpdateTask /\ tasks' = [tasks EXCEPT ![id] = task]
<1>1. ASSUME NEW id \in IDS, Gpt!Schedule(id)
      PROVE  /\ oracle_state.llm_context \in OTHERTASKS
             /\ tasks[id] # UpdateTask
             /\ tasks' = [tasks EXCEPT ![id] = oracle_state.llm_context]
  <2>1. /\ Gpt!Initialized /\ oracle_state.llm_context # Gpt!Default
        /\ tasks[id] = NoTask /\ tasks' = [tasks EXCEPT ![id] = oracle_state.llm_context]
      BY <1>1 DEF Gpt!Schedule, Gpt!QueueTask, Gpt!IdFree
  <2>2. oracle_state.llm_context \in Gpt!CONTEXTS
      BY <2>1, OracleStateTypes DEF Gpt!OracleState
  <2> QED
      BY <2>1, <2>2, StateAssumption, SharedAssumption
<1>2. ASSUME NEW id \in IDS, Gpt!RunTask(id) \/ Gpt!DropTask(id)
      PROVE  tasks[id] # UpdateTask /\ tasks' = [tasks EXCEPT ![id] = NoTask]
    BY <1>2, Constants DEF Gpt!RunTask, Gpt!DropTask
<1> QED
    BY <1>1, <1>2 DEF Gpt!OwnNext, Gpt!Initialize, Gpt!CreateContext, Gpt!FundTreasury,
       Gpt!SendRequest, Gpt!Answer, Gpt!AnswerOther, Gpt!ProcessOracleCallback

LEMMA GptStepInvariant ==
    TypeOK /\ GptInv /\ [SharedNext]_<<vars, GptVars>> => GptInv'
<1> SUFFICES ASSUME TypeOK, GptInv, [SharedNext]_<<vars, GptVars>>
             PROVE  GptInv'
    OBVIOUS
<1>1. tasks \in [IDS -> OTHERTASKS \cup {NoTask, UpdateTask}]
    BY DEF TypeOK
<1>2. ASSUME OwnNext, UNCHANGED GptVars
      PROVE  GptInv'
    BY <1>2, OwnQueue, GptQuiet
<1>3. ASSUME NEW c \in Gpt!CONTEXTS, Gpt!SendRequest(c)
      PROVE  GptInv'
    BY <1>3, RequestInvariant DEF Gpt!SendRequest
<1>4. ASSUME NEW id \in IDS, Gpt!RunTask(id)
      PROVE  GptInv'
  <2>1. \A i \in IDS : tasks'[i] \in Gpt!CONTEXTS => tasks'[i] = tasks[i]
      BY <1>1, <1>4, Constants DEF Gpt!RunTask
  <2> QED
      BY <1>4, <2>1, RequestInvariant DEF Gpt!RunTask
<1>5. ASSUME NEW id \in IDS, Gpt!DropTask(id)
      PROVE  GptInv'
  <2>1. \A i \in IDS : tasks'[i] \in Gpt!CONTEXTS => tasks'[i] = tasks[i]
      BY <1>1, <1>5, Constants DEF Gpt!DropTask
  <2> QED
      BY <1>5, <2>1, GptQuiet DEF Gpt!DropTask, Gpt!own, GptVars
<1>6. CASE UNCHANGED <<vars, GptVars>>
    BY <1>6, GptQuiet DEF vars
<1> QED
    BY <1>1, <1>2, <1>3, <1>4, <1>5, <1>6, GptInitializeInvariant, CreateContextInvariant,
       FundInvariant, AnswerInvariant, AnswerOtherInvariant, ScheduleInvariant
    DEF SharedNext, Gpt!OwnNext

---------------------------------------------------------------------------
(* Both together. *)

LEMMA SharedStep ==
    TypeOK /\ GptInv /\ [SharedNext]_<<vars, GptVars>> => [Next]_vars
<1> SUFFICES ASSUME TypeOK, GptInv, [SharedNext]_<<vars, GptVars>>
             PROVE  [Next]_vars
    OBVIOUS
<1>1. ASSUME Gpt!OwnNext, UNCHANGED own
      PROVE  [Next]_vars
  <2>1. CASE tasks' = tasks
      BY <1>1, <2>1 DEF own, vars
  <2>2. ASSUME NEW id \in IDS, NEW task \in OTHERTASKS \cup {NoTask}, tasks[id] # UpdateTask,
               tasks' = [tasks EXCEPT ![id] = task]
        PROVE  Next
      BY <1>1, <2>2 DEF Next, OtherTask
  <2> QED
      BY <1>1, <2>1, <2>2, GptQueue
<1>2. CASE UNCHANGED <<vars, GptVars>>
    BY <1>2
<1> QED
    BY <1>1, <1>2 DEF SharedNext, Next

LEMMA SharedInvariance == SharedSpec => [](IInv /\ GptInv)
<1>1. SharedInit => IInv /\ GptInv
    BY InitInvariant, GptInitInvariant DEF SharedInit
<1>2. IInv => TypeOK
    BY DEF IInv
<1>3. IInv /\ GptInv /\ [SharedNext]_<<vars, GptVars>> => (IInv /\ GptInv)'
    BY <1>2, GptStepInvariant, SharedStep, StepInvariant
<1> QED
    BY <1>1, <1>3, PTL DEF SharedSpec

(* What is proved of the user account's program alone holds beside the other one. *)
LEMMA Undisturbed == SharedSpec => Spec
<1>1. SharedInit => Init
    BY DEF SharedInit
<1>2. IInv /\ GptInv /\ [SharedNext]_<<vars, GptVars>> => [Next]_vars
    BY SharedStep DEF IInv
<1> QED
    BY <1>1, <1>2, SharedInvariance, PTL DEF SharedSpec, Spec

(* Types of the user account's side: with them, that the data keeps its width. *)
THEOREM SharedTypes == SharedSpec => []TypeOK
BY Undisturbed, TypeCorrect

(* Delegation is transparent: through the layer it lives on, the account is a
   register; no commit that lands late undoes a write. *)
THEOREM SharedRegister == SharedSpec => RegisterSpec
BY Undisturbed, ImplementsRegister

(* The base layer never shows data that is older than what it has shown. *)
THEOREM SharedNeverGoesBack == SharedSpec => BaseNeverGoesBack
BY Undisturbed, NeverGoesBack

(* Commits are sent in the order of the writes they carry, so that a commit which lands
   and takes those before it along loses none of their data: what update_commit and
   undelegate sent is no longer on its way only when the base layer has it, or
   something newer. *)
THEOREM SharedCommitsNotLost == SharedSpec => CommitsNotLost
BY Undisturbed, NothingLost

(* An account that was undelegated cannot be stranded between the layers: the commit
   that gives it back is on its way, with the last data of the rollup. *)
THEOREM SharedWayBack == SharedSpec => []WayBack
BY Undisturbed, AlwaysWayBack

(* The GPT program's types and the rent of its treasury. *)
THEOREM SharedGptTypes == SharedSpec => []GptTypeOK
<1>1. GptInv => GptTypeOK
    BY DEF GptInv, GptTypeOK
<1> QED
    BY <1>1, SharedInvariance, PTL

(* No agent is asked another's prompt. *)
THEOREM SharedPrompts == SharedSpec => []PromptsMatch
<1>1. GptInv => PromptsMatch
    BY DEF GptInv, PromptsMatch
<1> QED
    BY <1>1, SharedInvariance, PTL

LEMMA StaleStep ==
    TypeOK /\ GptInv /\ [SharedNext]_<<vars, GptVars>>
        => [\A id \in IDS : Gpt!Stale(id)
               => \/ tasks'[id] = tasks[id] /\ (Gpt!Stale(id))'
                  \/ tasks'[id] = NoTask /\ UNCHANGED Gpt!own]_(Gpt!vars)
<1> SUFFICES ASSUME TypeOK, GptInv, SharedNext, NEW id \in IDS, Gpt!Stale(id)
             PROVE  \/ tasks'[id] = tasks[id] /\ (Gpt!Stale(id))'
                    \/ tasks'[id] = NoTask /\ UNCHANGED Gpt!own
    BY DEF vars, GptVars, Gpt!vars
<1> DEFINE Goal == \/ tasks'[id] = tasks[id] /\ (Gpt!Stale(id))'
                   \/ tasks'[id] = NoTask /\ UNCHANGED Gpt!own
<1>1. /\ tasks[id] \in Gpt!CONTEXTS /\ Gpt!Initialized
      /\ tasks[id] # oracle_state.llm_context
      /\ tasks[id] <= Len(descriptions)
      /\ tasks \in [IDS -> OTHERTASKS \cup {NoTask, UpdateTask}]
    BY DEF Gpt!Stale, GptInv, TypeOK
<1>2. ASSUME tasks'[id] = tasks[id], oracle_state' # NoState,
             oracle_state'.llm_context = oracle_state.llm_context
      PROVE  Goal
    BY <1>1, <1>2 DEF Gpt!Stale, Gpt!Initialized
<1>3. ASSUME OwnNext /\ UNCHANGED GptVars
      PROVE  Goal
    BY <1>1, <1>2, <1>3, OwnQueue DEF GptVars, Gpt!Initialized
<1>4. ASSUME NEW d \in TEXTS, Gpt!CreateContext(d)
      PROVE  Goal
  <2>1. d \in 0..MAX_PROMPT /\ Len(descriptions) \in Nat
      BY <1>4, Described, Constants DEF Gpt!CreateContext
  <2>2. /\ oracle_state' = [oracle_state EXCEPT !.llm_context = Len(descriptions) + 1,
                                                !.default_prompt = d]
        /\ tasks' = tasks
      BY <1>4 DEF Gpt!CreateContext
  <2>3. oracle_state \in Gpt!OracleState
      BY <1>1, OracleStateTypes
  <2>4. Len(descriptions) + 1 \in Gpt!CONTEXTS
      BY <1>4, <2>1, Constants DEF Gpt!CreateContext, Gpt!CONTEXTS
  <2>5. oracle_state' \in Gpt!OracleState /\ oracle_state'.llm_context = Len(descriptions) + 1
      BY <2>1, <2>2, <2>3, <2>4 DEF Gpt!OracleState
  <2>6. tasks[id] # Len(descriptions) + 1
      BY <1>1, <2>1, Constants DEF Gpt!CONTEXTS
  <2>7. oracle_state' # NoState
      BY <2>5, SharedAssumption
  <2> QED
      BY <1>1, <2>2, <2>5, <2>6, <2>7 DEF Gpt!Stale, Gpt!Initialized
<1>5. ASSUME NEW c \in Gpt!CONTEXTS, Gpt!RequestGpt(c), tasks'[id] = tasks[id]
      PROVE  Goal
  <2>1. oracle_state' = [oracle_state EXCEPT !.requests = oracle_state.requests + 1]
      BY <1>5 DEF Gpt!RequestGpt
  <2>2. oracle_state \in Gpt!OracleState
      BY <1>1, OracleStateTypes
  <2>3. /\ oracle_state' \in Gpt!OracleState
        /\ oracle_state'.llm_context = oracle_state.llm_context
    <3>1. oracle_state.requests + 1 \in Nat
        BY <2>2 DEF Gpt!OracleState
    <3> QED
        BY <2>1, <2>2, <3>1 DEF Gpt!OracleState
  <2> QED
      BY <1>2, <1>5, <2>3, SharedAssumption
<1>6. ASSUME NEW r \in TEXTS, Gpt!ProcessOracleCallback(r)
      PROVE  Goal
  <2>1. /\ oracle_state' \in Gpt!OracleState
        /\ oracle_state'.llm_context = oracle_state.llm_context
        /\ tasks' = tasks
      BY <1>6, CallbackState
  <2> QED
      BY <1>2, <2>1, SharedAssumption
<1>7. ASSUME NEW i \in IDS, Gpt!Schedule(i)
      PROVE  Goal
  <2>1. i # id
      BY <1>1, <1>7, Constants DEF Gpt!Schedule, Gpt!QueueTask, Gpt!IdFree
  <2>2. tasks'[id] = tasks[id] /\ oracle_state' = oracle_state
      BY <1>1, <1>7, <2>1 DEF Gpt!Schedule, Gpt!QueueTask, Gpt!IdFree, Gpt!own
  <2> QED
      BY <1>1, <1>2, <2>2 DEF Gpt!Initialized
<1>8. ASSUME NEW i \in IDS, Gpt!RunTask(i)
      PROVE  Goal
  <2>1. i # id
      BY <1>1, <1>8 DEF Gpt!RunTask, Gpt!RequestGpt, Gpt!OfState
  <2>2. tasks'[id] = tasks[id]
      BY <1>1, <1>8, <2>1 DEF Gpt!RunTask
  <2> QED
      BY <1>5, <1>8, <2>2 DEF Gpt!RunTask
<1>9. ASSUME NEW i \in IDS, Gpt!DropTask(i)
      PROVE  Goal
  <2>1. UNCHANGED Gpt!own /\ tasks' = [tasks EXCEPT ![i] = NoTask]
      BY <1>9 DEF Gpt!DropTask
  <2>2. CASE i = id
      BY <1>1, <2>1, <2>2
  <2>3. CASE i # id
      BY <1>1, <1>2, <2>1, <2>3 DEF Gpt!own, Gpt!Initialized
  <2> QED
      BY <2>2, <2>3
<1>10. ASSUME NEW n \in LAMPORTS, Gpt!FundTreasury(n)
       PROVE  Goal
    BY <1>1, <1>2, <1>10 DEF Gpt!FundTreasury, Gpt!Initialized
<1>11. ASSUME NEW c \in Gpt!CONTEXTS, Gpt!SendRequest(c)
       PROVE  Goal
    BY <1>5, <1>11 DEF Gpt!SendRequest
<1>12. ASSUME NEW d \in TEXTS, NEW a \in {"wallet", "queue"}, Gpt!Initialize(d, a)
       PROVE  FALSE
    BY <1>1, <1>12 DEF Gpt!Initialize, Gpt!Initialized
<1> HIDE DEF Goal
<1>13. ASSUME \E d \in TEXTS, a \in {"wallet", "queue"} : Gpt!Initialize(d, a)
       PROVE  Goal
    BY <1>12, <1>13
<1>14. ASSUME \E c \in Gpt!CONTEXTS : \/ Gpt!SendRequest(c)
                                     \/ \E r \in TEXTS : Gpt!Answer(c, r)
       PROVE  Goal
    BY <1>6, <1>11, <1>14 DEF Gpt!Answer
<1>15. ASSUME \E i \in IDS : Gpt!Schedule(i) \/ Gpt!RunTask(i) \/ Gpt!DropTask(i)
       PROVE  Goal
    BY <1>7, <1>8, <1>9, <1>15
<1>16. ASSUME \E n \in LAMPORTS : Gpt!FundTreasury(n)
       PROVE  Goal
    BY <1>10, <1>16
<1>17. ASSUME \E d \in TEXTS : Gpt!CreateContext(d) \/ Gpt!AnswerOther(d)
       PROVE  Goal
    BY <1>4, <1>6, <1>17 DEF Gpt!AnswerOther
<1>18. Goal
    BY <1>3, <1>13, <1>14, <1>15, <1>16, <1>17 DEF SharedNext, Gpt!OwnNext
<1> QED
    BY <1>18 DEF Goal

(* A task that was compiled for a context the program has left asks nobody. *)
THEOREM SharedStale == SharedSpec => StaleTasksInert
<1>1. IInv /\ GptInv /\ [SharedNext]_<<vars, GptVars>>
          => [\A id \in IDS : Gpt!Stale(id)
                 => \/ tasks'[id] = tasks[id] /\ (Gpt!Stale(id))'
                    \/ tasks'[id] = NoTask /\ UNCHANGED Gpt!own]_(Gpt!vars)
    BY StaleStep DEF IInv
<1> QED
    BY <1>1, SharedInvariance, PTL DEF SharedSpec, StaleTasksInert, Gpt!StaleTasksInert

=============================================================================
