------------------------- MODULE TransferHookProofs -------------------------
(***************************************************************************)
(* TransferHook keeps its types, wastes no slot of the whitelist, and      *)
(* implements GatedVault.                                                  *)
(***************************************************************************)
EXTENDS TransferHook, SequenceTheorems, FiniteSetTheorems, TLAPS

(* One entry for each user at most, and none that allows nothing. *)
Distinct(list) == \A i, j \in DOMAIN list : list[i].user = list[j].user => i = j
Positive(list) == \A i \in DOMAIN list : list[i].amount > 0
Clean(list) == list \in Seq(WhitelistEntry) /\ Distinct(list) /\ Positive(list)

(* The inductive invariant.  With two entries of one user a removal would leave a
   limit behind, and an entry of 0 would take a slot and allow nothing. *)
IInv ==
    /\ TypeOK
    /\ Clean(whitelist)
    /\ admin = Nobody => whitelist = <<>>

---------------------------------------------------------------------------
(* The whitelist as a table of limits. *)

LEMMA EntryTypes ==
    ASSUME NEW w \in Seq(WhitelistEntry), NEW i \in DOMAIN w
    PROVE  /\ w[i] \in WhitelistEntry
           /\ w[i].user \in KEYS
           /\ w[i].amount \in Nat
           /\ w[i] = [user |-> w[i].user, amount |-> w[i].amount]
<1>1. i \in 1..Len(w)
    BY LenProperties
<1>2. w[i] \in WhitelistEntry
    BY <1>1, ElementOfSeq
<1> QED
    BY <1>2 DEF WhitelistEntry

LEMMA PositionOf ==
    ASSUME NEW w, Distinct(w), NEW i \in DOMAIN w, DOMAIN w \subseteq Nat
    PROVE  Position(w, w[i].user) = i
<1> DEFINE P(k) == /\ w[k].user = w[i].user
                   /\ \A j \in DOMAIN w : w[j].user = w[i].user => k <= j
<1>1. P(i)
    BY DEF Distinct
<1>2. \A k \in DOMAIN w : P(k) => k = i
    BY DEF Distinct
<1>3. Position(w, w[i].user) = CHOOSE k \in DOMAIN w : P(k)
    BY DEF Position
<1> HIDE DEF P
<1> QED
    BY <1>1, <1>2, <1>3

LEMMA LimitOf ==
    ASSUME NEW w, Clean(w)
    PROVE  /\ LimitIn(w) \in [KEYS -> Nat]
           /\ \A i \in DOMAIN w : LimitIn(w)[w[i].user] = w[i].amount
           /\ \A k \in KEYS : ~Listed(w, k) => LimitIn(w)[k] = 0
           /\ \A k \in KEYS : Listed(w, k) <=> LimitIn(w)[k] > 0
<1>1. w \in Seq(WhitelistEntry) /\ Distinct(w) /\ Positive(w)
    BY DEF Clean
<1>2. DOMAIN w \subseteq Nat
    BY <1>1, LenProperties
<1>3. ASSUME NEW i \in DOMAIN w
      PROVE  /\ w[i].user \in KEYS
             /\ w[i].amount \in Nat \ {0}
             /\ LimitIn(w)[w[i].user] = w[i].amount
  <2>1. w[i].user \in KEYS /\ w[i].amount \in Nat
      BY <1>1, EntryTypes
  <2>2. Position(w, w[i].user) = i /\ Listed(w, w[i].user)
      BY <1>1, <1>2, PositionOf DEF Listed
  <2> QED
      BY <1>1, <2>1, <2>2 DEF LimitIn, Positive
<1>4. \A k \in KEYS : ~Listed(w, k) => LimitIn(w)[k] = 0
    BY DEF LimitIn
<1>5. \A k \in KEYS : Listed(w, k) => LimitIn(w)[k] \in Nat \ {0}
    BY <1>3 DEF Listed
<1>6. \A k \in KEYS : LimitIn(w)[k] \in Nat
    BY <1>4, <1>5
<1>7. LimitIn(w) \in [KEYS -> Nat]
    BY <1>6 DEF LimitIn
<1> QED
    BY <1>3, <1>4, <1>5, <1>7

(* A table that agrees with the entries, and is 0 elsewhere, is that table. *)
LEMMA LimitIs ==
    ASSUME NEW w, Clean(w), NEW f \in [KEYS -> Nat],
           \A i \in DOMAIN w : f[w[i].user] = w[i].amount,
           \A k \in KEYS : ~Listed(w, k) => f[k] = 0
    PROVE  LimitIn(w) = f
<1>1. LimitIn(w) \in [KEYS -> Nat]
    BY LimitOf
<1>2. ASSUME NEW k \in KEYS, Listed(w, k)
      PROVE  LimitIn(w)[k] = f[k]
  <2>1. PICK i \in DOMAIN w : w[i].user = k
      BY <1>2 DEF Listed
  <2> QED
      BY <2>1, LimitOf
<1>3. ASSUME NEW k \in KEYS, ~Listed(w, k)
      PROVE  LimitIn(w)[k] = f[k]
    BY <1>3, LimitOf
<1> QED
    BY <1>1, <1>2, <1>3

LEMMA UpsertedLimit ==
    ASSUME NEW w, Clean(w), NEW u \in KEYS, NEW n \in Nat, n > 0
    PROVE  /\ Clean(Upserted(w, u, n))
           /\ LimitIn(Upserted(w, u, n)) = [LimitIn(w) EXCEPT ![u] = n]
           /\ Listed(w, u) => Len(Upserted(w, u, n)) = Len(w)
           /\ ~Listed(w, u) => Len(Upserted(w, u, n)) = Len(w) + 1
<1> DEFINE v == Upserted(w, u, n)
           f == [LimitIn(w) EXCEPT ![u] = n]
<1>1. /\ w \in Seq(WhitelistEntry) /\ Distinct(w) /\ Positive(w)
      /\ Len(w) \in Nat
      /\ DOMAIN w = 1..Len(w)
    BY LenProperties DEF Clean
<1>2. f \in [KEYS -> Nat] /\ f[u] = n /\ \A k \in KEYS \ {u} : f[k] = LimitIn(w)[k]
    BY LimitOf
<1>3. CASE Listed(w, u)
  <2>1. PICK p \in DOMAIN w : w[p].user = u
      BY <1>3 DEF Listed
  <2>2. Position(w, u) = p
      BY <1>1, <2>1, PositionOf
  <2> DEFINE e == [user |-> u, amount |-> n]
  <2>3. v = [w EXCEPT ![p] = e]
    <3>1. w[p] = [user |-> u, amount |-> w[p].amount]
        BY <1>1, <2>1, EntryTypes
    <3>2. [w[p] EXCEPT !.amount = n] = e
        BY <3>1
    <3>3. v = [w EXCEPT ![p] = [w[p] EXCEPT !.amount = n]]
        BY <1>3, <2>2 DEF Upserted
    <3> QED
        BY <3>2, <3>3
  <2>4. e \in WhitelistEntry
      BY DEF WhitelistEntry
  <2>5. /\ v \in Seq(WhitelistEntry)
        /\ Len(v) = Len(w)
        /\ \A j \in 1..Len(w) : v[j] = IF j = p THEN e ELSE w[j]
      BY <1>1, <2>3, <2>4, ExceptSeq
  <2> HIDE DEF v, f
  <2>6. DOMAIN v = DOMAIN w
      BY <1>1, <2>5, LenProperties
  <2>7. \A j \in DOMAIN v : /\ v[j].user = w[j].user
                            /\ v[j].amount = IF j = p THEN n ELSE w[j].amount
      BY <1>1, <2>1, <2>5, <2>6
  <2>8. Clean(v)
      BY <1>1, <2>5, <2>6, <2>7 DEF Clean, Distinct, Positive
  <2>9. \A j \in DOMAIN v : f[v[j].user] = v[j].amount
    <3> TAKE j \in DOMAIN v
    <3>1. CASE j = p
        BY <1>2, <2>1, <2>7, <3>1
    <3>2. CASE j # p
      <4>1. w[j].user \in KEYS \ {u}
          BY <1>1, <2>1, <2>6, <3>2, EntryTypes DEF Distinct
      <4> QED
          BY <1>2, <2>6, <2>7, <3>2, <4>1, LimitOf
    <3> QED
        BY <3>1, <3>2
  <2>10. \A k \in KEYS : ~Listed(v, k) => f[k] = 0
      BY <1>2, <2>1, <2>6, <2>7, LimitOf DEF Listed
  <2>11. LimitIn(v) = f
      BY <1>2, <2>8, <2>9, <2>10, LimitIs
  <2> QED
      BY <1>3, <2>5, <2>8, <2>11 DEF v, f
<1>4. CASE ~Listed(w, u)
  <2> DEFINE e == [user |-> u, amount |-> n]
             m == Len(w) + 1
  <2>1. v = Append(w, e)
      BY <1>4 DEF Upserted
  <2>2. e \in WhitelistEntry
      BY DEF WhitelistEntry
  <2>3. /\ v \in Seq(WhitelistEntry)
        /\ Len(v) = m
        /\ \A j \in 1..Len(w) : v[j] = w[j]
        /\ v[m] = e
      BY <1>1, <2>1, <2>2, AppendProperties
  <2> HIDE DEF v, f
  <2>4. DOMAIN v = DOMAIN w \cup {m} /\ m \notin DOMAIN w
      BY <1>1, <2>3, LenProperties
  <2>5. \A j \in DOMAIN w : v[j] = w[j] /\ v[j].user # u
      BY <1>1, <1>4, <2>3 DEF Listed
  <2>6. v[m].user = u /\ v[m].amount = n
      BY <2>3
  <2> HIDE DEF m
  <2>7. Distinct(v) /\ Positive(v)
      BY <1>1, <2>4, <2>5, <2>6 DEF Distinct, Positive
  <2>8. Clean(v)
      BY <2>3, <2>7 DEF Clean
  <2>9. \A j \in DOMAIN v : f[v[j].user] = v[j].amount
      BY <1>1, <1>2, <2>4, <2>5, <2>6, EntryTypes, LimitOf
  <2>10. \A k \in KEYS : ~Listed(v, k) => f[k] = 0
      BY <1>2, <2>4, <2>5, <2>6, LimitOf DEF Listed
  <2>11. LimitIn(v) = f
      BY <1>2, <2>8, <2>9, <2>10, LimitIs
  <2> QED
      BY <1>4, <2>3, <2>8, <2>11 DEF v, f, m
<1> QED
    BY <1>3, <1>4

(* What is left when the entry at p is taken out: the entries before it, and those
   behind it one place further forward. *)
LEMMA RemoveAtProperties ==
    ASSUME NEW S, NEW s \in Seq(S), NEW p \in 1..Len(s)
    PROVE  /\ RemoveAt(s, p) \in Seq(S)
           /\ Len(RemoveAt(s, p)) = Len(s) - 1
           /\ \A i \in 1..(Len(s) - 1) :
                  RemoveAt(s, p)[i] = IF i < p THEN s[i] ELSE s[i + 1]
<1> DEFINE n == Len(s)
           a == SubSeq(s, 1, p - 1)
           b == SubSeq(s, p + 1, n)
<1>1. n \in Nat /\ \A i \in 1..n : s[i] \in S
    BY LenProperties, ElementOfSeq
<1> HIDE DEF n
<1>2. p \in 1..n
    BY DEF n
<1>3. /\ a \in Seq(S)
      /\ Len(a) = p - 1
      /\ \A i \in 1..(p - 1) : a[i] = s[i]
  <2>1. \A i \in 1..(p - 1) : s[i] \in S
      BY <1>1, <1>2
  <2>2. /\ a \in Seq(S)
        /\ Len(a) = IF 1 <= p - 1 THEN (p - 1) - 1 + 1 ELSE 0
        /\ \A i \in 1..((p - 1) - 1 + 1) : a[i] = s[1 + i - 1]
      BY <1>1, <1>2, <2>1, SubSeqProperties
  <2> HIDE DEF a
  <2>3. \A i \in 1..(p - 1) : i \in 1..((p - 1) - 1 + 1) /\ 1 + i - 1 = i
      BY <1>1, <1>2
  <2>4. Len(a) = p - 1
      BY <1>1, <1>2, <2>2
  <2> QED
      BY <2>2, <2>3, <2>4
<1>4. /\ b \in Seq(S)
      /\ Len(b) = n - p
      /\ \A i \in 1..(n - p) : b[i] = s[p + i]
  <2>1. \A i \in (p + 1)..n : s[i] \in S
      BY <1>1, <1>2
  <2>2. /\ b \in Seq(S)
        /\ Len(b) = IF p + 1 <= n THEN n - (p + 1) + 1 ELSE 0
        /\ \A i \in 1..(n - (p + 1) + 1) : b[i] = s[p + 1 + i - 1]
      BY <1>1, <1>2, <2>1, SubSeqProperties
  <2> HIDE DEF b
  <2>3. \A i \in 1..(n - p) : i \in 1..(n - (p + 1) + 1) /\ p + 1 + i - 1 = p + i
      BY <1>1, <1>2
  <2>4. Len(b) = n - p
      BY <1>1, <1>2, <2>2
  <2> QED
      BY <2>2, <2>3, <2>4
<1> DEFINE v == RemoveAt(s, p)
<1>5. v = a \o b
    BY DEF RemoveAt, n
<1> HIDE DEF a, b, v
<1>6. /\ v \in Seq(S)
      /\ Len(v) = Len(a) + Len(b)
      /\ \A i \in 1..(Len(a) + Len(b)) : v[i] = IF i <= Len(a) THEN a[i] ELSE b[i - Len(a)]
    BY <1>3, <1>4, <1>5, ConcatProperties
<1>7. Len(a) + Len(b) = n - 1
    BY <1>1, <1>2, <1>3, <1>4
<1>8. ASSUME NEW i \in 1..(n - 1)
      PROVE  v[i] = IF i < p THEN s[i] ELSE s[i + 1]
  <2>1. v[i] = IF i <= p - 1 THEN a[i] ELSE b[i - (p - 1)]
      BY <1>3, <1>6, <1>7
  <2>2. CASE i < p
    <3>1. i \in 1..(p - 1) /\ i <= p - 1
        BY <1>1, <1>2, <2>2
    <3> QED
        BY <1>3, <2>1, <2>2, <3>1
  <2>3. CASE p <= i
    <3>1. /\ ~(i <= p - 1) /\ ~(i < p)
          /\ i - (p - 1) \in 1..(n - p)
          /\ p + (i - (p - 1)) = i + 1
        BY <1>1, <1>2, <2>3
    <3>2. b[i - (p - 1)] = s[p + (i - (p - 1))]
        BY <1>4, <3>1
    <3> QED
        BY <2>1, <3>1, <3>2
  <2> QED
      BY <1>1, <1>2, <2>2, <2>3
<1> QED
    BY <1>6, <1>7, <1>8 DEF v, n

LEMMA RemovedLimit ==
    ASSUME NEW w, Clean(w), NEW u \in KEYS, Listed(w, u)
    PROVE  /\ Clean(RemoveAt(w, Position(w, u)))
           /\ LimitIn(RemoveAt(w, Position(w, u))) = [LimitIn(w) EXCEPT ![u] = 0]
           /\ Len(RemoveAt(w, Position(w, u))) = Len(w) - 1
<1>1. /\ w \in Seq(WhitelistEntry) /\ Distinct(w) /\ Positive(w)
      /\ Len(w) \in Nat
      /\ DOMAIN w = 1..Len(w)
    BY LenProperties DEF Clean
<1>2. PICK p \in 1..Len(w) : w[p].user = u
    BY <1>1 DEF Listed
<1>3. Position(w, u) = p
    BY <1>1, <1>2, PositionOf
<1> DEFINE v == RemoveAt(w, p)
           f == [LimitIn(w) EXCEPT ![u] = 0]
           n == Len(w)
           old(j) == IF j < p THEN j ELSE j + 1
<1>4. /\ v \in Seq(WhitelistEntry)
      /\ Len(v) = n - 1
      /\ \A i \in 1..(n - 1) : v[i] = w[old(i)]
  <2>1. /\ v \in Seq(WhitelistEntry)
        /\ Len(v) = n - 1
        /\ \A i \in 1..(n - 1) : v[i] = IF i < p THEN w[i] ELSE w[i + 1]
      BY <1>1, RemoveAtProperties
  <2> HIDE DEF v
  <2> QED
      BY <2>1
<1> HIDE DEF v, f
<1>5. DOMAIN v = 1..(n - 1)
    BY <1>4, LenProperties
<1>6. /\ \A i \in DOMAIN v : old(i) \in DOMAIN w /\ old(i) # p
      /\ \A i, j \in DOMAIN v : old(i) = old(j) => i = j
      /\ \A j \in DOMAIN w : j # p => \E i \in DOMAIN v : old(i) = j
  <2>1. \A i \in DOMAIN v : old(i) \in DOMAIN w /\ old(i) # p
      BY <1>1, <1>5
  <2>2. \A i, j \in DOMAIN v : old(i) = old(j) => i = j
      BY <1>1, <1>5
  <2>3. ASSUME NEW j \in DOMAIN w, j # p
        PROVE  \E i \in DOMAIN v : old(i) = j
    <3>1. CASE j < p
        BY <1>1, <1>5, <3>1
    <3>2. CASE p < j
      <4>1. j - 1 \in DOMAIN v /\ old(j - 1) = j
          BY <1>1, <1>5, <3>2
      <4> QED
          BY <4>1
    <3> QED
        BY <1>1, <2>3, <3>1, <3>2
  <2> QED
      BY <2>1, <2>2, <2>3
<1>7. \A i \in DOMAIN v : v[i] = w[old(i)]
    BY <1>4, <1>5
<1> HIDE DEF old
<1>8. Clean(v)
  <2>1. Distinct(v) /\ Positive(v)
      BY <1>1, <1>6, <1>7 DEF Distinct, Positive
  <2> QED
      BY <1>4, <2>1 DEF Clean
<1>9. f \in [KEYS -> Nat] /\ f[u] = 0 /\ \A k \in KEYS \ {u} : f[k] = LimitIn(w)[k]
    BY LimitOf DEF f
<1>10. ASSUME NEW i \in DOMAIN v
       PROVE  f[v[i].user] = v[i].amount
  <2>1. w[old(i)].user \in KEYS \ {u}
      BY <1>1, <1>2, <1>6, EntryTypes DEF Distinct
  <2> QED
      BY <1>6, <1>7, <1>9, <2>1, LimitOf
<1>11. ASSUME NEW k \in KEYS, ~Listed(v, k)
       PROVE  f[k] = 0
  <2>1. CASE k = u
      BY <1>9, <2>1
  <2>2. CASE k # u
    <3>1. ~Listed(w, k)
        BY <1>2, <1>6, <1>7, <1>11, <2>2 DEF Listed
    <3> QED
        BY <1>9, <2>2, <3>1, LimitOf
  <2> QED
      BY <2>1, <2>2
<1>12. LimitIn(v) = f
    BY <1>8, <1>9, <1>10, <1>11, LimitIs
<1> QED
    BY <1>3, <1>4, <1>8, <1>12 DEF v, f

(* There are as many users with a limit as entries. *)
LEMMA ListedCount ==
    ASSUME NEW w, Clean(w)
    PROVE  Cardinality({k \in KEYS : LimitIn(w)[k] > 0}) = Len(w)
<1> DEFINE S == {k \in KEYS : LimitIn(w)[k] > 0}
           g == [i \in 1..Len(w) |-> w[i].user]
<1>1. /\ w \in Seq(WhitelistEntry) /\ Distinct(w)
      /\ Len(w) \in Nat
      /\ DOMAIN w = 1..Len(w)
    BY LenProperties DEF Clean
<1>2. \A k \in KEYS : k \in S <=> \E i \in 1..Len(w) : w[i].user = k
    BY <1>1, LimitOf DEF Listed
<1>3. \A i \in 1..Len(w) : w[i].user \in KEYS
    BY <1>1, EntryTypes
<1>4. g \in [1..Len(w) -> S]
    BY <1>2, <1>3
<1>5. \A i, j \in 1..Len(w) : g[i] = g[j] => i = j
    BY <1>1 DEF Distinct
<1>6. \A k \in S : \E i \in 1..Len(w) : g[i] = k
    BY <1>2
<1> HIDE DEF S, g
<1>7. g \in Injection(1..Len(w), S)
  <2>1. DOMAIN g = 1..Len(w)
      BY <1>4
  <2> QED
      BY <1>4, <1>5, <2>1 DEF Injection, IsInjective
<1>8. g \in Surjection(1..Len(w), S)
    BY <1>4, <1>6 DEF Surjection
<1>9. ExistsBijection(1..Len(w), S)
    BY <1>7, <1>8 DEF ExistsBijection, Bijection
<1>10. Cardinality(S) = Len(w)
    BY <1>1, <1>9, FS_CountingElements
<1> QED
    BY <1>10 DEF S

---------------------------------------------------------------------------
(* The invariant. *)

LEMMA InitInvariant == Init => IInv
<1> SUFFICES ASSUME Init PROVE IInv
    OBVIOUS
<1>1. whitelist = <<>> /\ whitelist \in Seq(WhitelistEntry) /\ Len(whitelist) = 0
    BY EmptySeq DEF Init
<1>2. TypeOK
    BY <1>1, HookAssumption DEF Init, TypeOK
<1>3. DOMAIN whitelist = {}
    BY <1>1, LenProperties
<1>4. Clean(whitelist)
    BY <1>1, <1>3 DEF Clean, Distinct, Positive
<1> QED
    BY <1>1, <1>2, <1>4 DEF IInv

LEMMA TransferTypes ==
    ASSUME TypeOK, NEW p \in PEOPLE, NEW a \in TokenAccounts, NEW b \in TokenAccounts,
           NEW n \in AMOUNTS, Transfer(p, a, b, n)
    PROVE  balance' \in [TokenAccounts -> Nat]
<1>1. n \in Nat /\ n <= balance[a] /\ a # b /\ balance \in [TokenAccounts -> Nat]
    BY HookAssumption DEF Transfer, TypeOK
<1>2. balance[a] - n \in Nat /\ balance[b] + n \in Nat
    BY <1>1
<1>3. balance' = [balance EXCEPT ![a] = balance[a] - n, ![b] = balance[b] + n]
    BY <1>1 DEF Transfer
<1> QED
    BY <1>1, <1>2, <1>3

LEMMA StepInvariant == IInv /\ [Next]_vars => IInv'
<1> SUFFICES ASSUME IInv, [Next]_vars
             PROVE  IInv'
    OBVIOUS
<1> USE HookAssumption
<1>1. TypeOK /\ Clean(whitelist)
    BY DEF IInv
<1>2. ASSUME NEW p \in PEOPLE, InitializeVault(p)
      PROVE  IInv'
  <2>1. whitelist' = whitelist /\ p # Nobody
      BY <1>2 DEF IInv, InitializeVault, KEYS
  <2>2. TypeOK'
      BY <1>1, <1>2, <2>1 DEF TypeOK, InitializeVault
  <2> QED
      BY <1>1, <1>2, <2>1, <2>2 DEF IInv, InitializeVault
<1>3. ASSUME NEW mint \in OTHERMINTS, InitializeTransferHook(mint)
      PROVE  IInv'
    BY <1>3 DEF IInv, TypeOK, InitializeTransferHook
<1>4. ASSUME NEW u \in KEYS, NEW n \in AMOUNTS, AddToWhitelist(u, n)
      PROVE  IInv'
  <2>1. n \in Nat /\ n > 0 /\ whitelist' = Upserted(whitelist, u, n) /\ admin # Nobody
      BY <1>4 DEF AddToWhitelist
  <2>2. Clean(whitelist')
      BY <1>1, <2>1, UpsertedLimit
  <2>3. Len(whitelist) \in Nat
      BY <1>1, LenProperties DEF Clean
  <2>4. Len(whitelist') <= MAX_WHITELIST_ENTRIES
      BY <1>1, <1>4, <2>1, <2>3, UpsertedLimit DEF TypeOK, AddToWhitelist, HasRoom
  <2>5. TypeOK'
      BY <1>1, <1>4, <2>2, <2>4 DEF TypeOK, AddToWhitelist, Clean
  <2> QED
      BY <1>4, <2>1, <2>2, <2>5 DEF IInv, AddToWhitelist
<1>5. ASSUME NEW u \in KEYS, RemoveFromWhitelist(u)
      PROVE  IInv'
  <2>1. /\ whitelist' = RemoveAt(whitelist, Position(whitelist, u))
        /\ Listed(whitelist, u)
        /\ admin # Nobody
      BY <1>5 DEF RemoveFromWhitelist
  <2>2. Clean(whitelist') /\ Len(whitelist') = Len(whitelist) - 1
      BY <1>1, <2>1, RemovedLimit
  <2>3. Len(whitelist) \in Nat
      BY <1>1, LenProperties DEF Clean
  <2>4. TypeOK'
      BY <1>1, <1>5, <2>2, <2>3 DEF TypeOK, RemoveFromWhitelist, Clean
  <2> QED
      BY <1>5, <2>1, <2>2, <2>4 DEF IInv, RemoveFromWhitelist
<1>6. ASSUME NEW a \in TokenAccounts, NEW n \in AMOUNTS, MintTokens(a, n)
      PROVE  IInv'
  <2>1. balance[a] + n \in Nat /\ issued + n \in Nat /\ balance \in [TokenAccounts -> Nat]
      BY <1>1 DEF TypeOK
  <2>2. balance' \in [TokenAccounts -> Nat] /\ issued' \in Nat
      BY <1>6, <2>1 DEF MintTokens
  <2> QED
      BY <1>6, <2>2 DEF IInv, TypeOK, MintTokens
<1>7. ASSUME NEW p \in PEOPLE, NEW a \in TokenAccounts, NEW b \in TokenAccounts,
             NEW n \in AMOUNTS, Transfer(p, a, b, n)
      PROVE  IInv'
  <2>1. balance' \in [TokenAccounts -> Nat]
      BY <1>1, <1>7, TransferTypes
  <2> QED
      BY <1>7, <2>1 DEF IInv, TypeOK, Transfer
<1>8. ASSUME NEW a \in ACCOUNTS, NEW k \in KEYS, SetOwner(a, k)
      PROVE  IInv'
    BY <1>8 DEF IInv, TypeOK, SetOwner, TokenAccounts
<1>9. CASE UNCHANGED vars
    BY <1>9 DEF IInv, TypeOK, vars
<1> QED
    BY <1>2, <1>3, <1>4, <1>5, <1>6, <1>7, <1>8, <1>9 DEF Next

LEMMA Invariance == Spec => []IInv
BY InitInvariant, StepInvariant, PTL DEF Spec

(* The types, and the space of the whitelist: no instruction makes it longer than
   the room that initialize_vault has allocated. *)
THEOREM TypeCorrect == Spec => []TypeOK
<1>1. IInv => TypeOK
    BY DEF IInv
<1> QED
    BY <1>1, Invariance, PTL

(* upsert_whitelist_entry and remove_whitelist_entry waste no slot. *)
THEOREM NoSlotWasted == Spec => []SlotsExact
<1>1. IInv => SlotsExact
    BY ListedCount DEF IInv, SlotsExact, Limit
<1> QED
    BY <1>1, Invariance, PTL

---------------------------------------------------------------------------
(* Refinement. *)

LEMMA InitImplementsGate == Init => Gate!Init
<1> SUFFICES ASSUME Init PROVE Gate!Init
    OBVIOUS
<1>1. whitelist = <<>> /\ DOMAIN whitelist = {}
    BY DEF Init
<1>2. Limit = [k \in KEYS |-> 0]
    BY <1>1 DEF Limit, LimitIn, Listed
<1> QED
    BY <1>2 DEF Init, Gate!Init, TokenAccounts

(* A transfer that the hook lets pass is a deposit or a withdrawal. *)
LEMMA TransferImplementsGate ==
    ASSUME IInv, NEW p \in PEOPLE, NEW a \in TokenAccounts, NEW b \in TokenAccounts,
           NEW n \in AMOUNTS, Transfer(p, a, b, n)
    PROVE  Gate!Next
<1> DEFINE user == InteractingUser(a, b)
<1>1. /\ n \in Nat /\ n > 0 /\ n <= balance[a] /\ a # b
      /\ VaultAta \in {a, b}
      /\ Listed(whitelist, user)
      /\ n <= whitelist[Position(whitelist, user)].amount
      /\ balance' = [balance EXCEPT ![a] = balance[a] - n, ![b] = balance[b] + n]
      /\ UNCHANGED <<admin, whitelist, owner>>
    BY HookAssumption DEF Transfer, ExecuteHook, AssertAllowed
<1>2. user \in KEYS
    BY DEF IInv, TypeOK, InteractingUser
<1>3. Limit \in [KEYS -> Nat]
    BY LimitOf DEF IInv, Limit
<1>4. n \in 1..Limit[user]
    BY <1>1, <1>2, <1>3 DEF Limit, LimitIn
<1>5. UNCHANGED Limit
    BY <1>1 DEF Limit, LimitIn, Listed, Position
<1> HIDE DEF user
<1>6. CASE b = VaultAta
  <2>1. a \in ACCOUNTS /\ user = owner[a]
      BY <1>1, <1>6 DEF TokenAccounts, InteractingUser, user
  <2>2. Gate!Deposit(a, n)
      BY <1>1, <1>4, <1>5, <1>6, <2>1 DEF Gate!Deposit
  <2> QED
      BY <2>1, <2>2 DEF Gate!Next
<1>7. CASE b # VaultAta
  <2>1. b \in ACCOUNTS /\ a = VaultAta /\ user = owner[b]
      BY <1>1, <1>7 DEF TokenAccounts, InteractingUser, user
  <2>2. Gate!Withdraw(b, n)
      BY <1>1, <1>4, <1>5, <2>1 DEF Gate!Withdraw
  <2> QED
      BY <2>1, <2>2 DEF Gate!Next
<1> QED
    BY <1>6, <1>7

LEMMA StepImplementsGate == IInv /\ [Next]_vars => [Gate!Next]_(Gate!vars)
<1> SUFFICES ASSUME IInv, [Next]_vars
             PROVE  [Gate!Next]_(Gate!vars)
    OBVIOUS
<1> USE HookAssumption
<1>1. TypeOK /\ Clean(whitelist) /\ Limit \in [KEYS -> Nat]
    BY LimitOf DEF IInv, Limit
<1>2. ASSUME UNCHANGED whitelist
      PROVE  UNCHANGED Limit
    BY <1>2 DEF Limit, LimitIn, Listed, Position
<1>3. ASSUME NEW p \in PEOPLE, InitializeVault(p)
      PROVE  Gate!Next
  <2>1. whitelist' = whitelist /\ p \in KEYS
      BY <1>3 DEF IInv, InitializeVault, KEYS
  <2>2. Gate!Open(p)
      BY <1>2, <1>3, <2>1 DEF InitializeVault, Gate!Open
  <2> QED
      BY <2>1, <2>2 DEF Gate!Next
<1>4. ASSUME NEW mint \in OTHERMINTS, InitializeTransferHook(mint)
      PROVE  UNCHANGED Gate!vars
    BY <1>2, <1>4 DEF InitializeTransferHook, Gate!vars
<1>5. ASSUME NEW u \in KEYS, NEW n \in AMOUNTS, AddToWhitelist(u, n)
      PROVE  Gate!Next
  <2>1. n \in Nat /\ n > 0 /\ whitelist' = Upserted(whitelist, u, n)
      BY <1>5 DEF AddToWhitelist
  <2>2. Limit' = [Limit EXCEPT ![u] = n]
      BY <1>1, <2>1, UpsertedLimit DEF Limit
  <2>3. Listed(whitelist, u) => u \in Gate!Allowed
      BY <1>1, LimitOf DEF Gate!Allowed, Limit
  <2>4. HasRoom(whitelist) => Cardinality(Gate!Allowed) < MAX_WHITELIST_ENTRIES
      BY <1>1, ListedCount DEF Gate!Allowed, Limit, HasRoom
  <2>5. u \in Gate!Allowed \/ Cardinality(Gate!Allowed) < MAX_WHITELIST_ENTRIES
      BY <1>5, <2>3, <2>4 DEF AddToWhitelist
  <2>6. admin # Nobody /\ UNCHANGED <<admin, owner, balance>>
      BY <1>5 DEF AddToWhitelist
  \* Cardinality is reached along two ways, so that both are expanded.
  <2>7. Gate!Allow(u, n)
      BY <2>1, <2>2, <2>5, <2>6 DEF Gate!Allow, Gate!Cardinality, Cardinality
  <2> QED
      BY <2>7 DEF Gate!Next
<1>6. ASSUME NEW u \in KEYS, RemoveFromWhitelist(u)
      PROVE  Gate!Next
  <2>1. /\ Listed(whitelist, u)
        /\ whitelist' = RemoveAt(whitelist, Position(whitelist, u))
      BY <1>6 DEF RemoveFromWhitelist
  <2>2. Limit' = [Limit EXCEPT ![u] = 0]
      BY <1>1, <2>1, RemovedLimit DEF Limit
  <2>3. u \in Gate!Allowed
      BY <1>1, <2>1, LimitOf DEF Gate!Allowed, Limit
  <2>4. Gate!Bar(u)
      BY <1>6, <2>2, <2>3 DEF RemoveFromWhitelist, Gate!Bar
  <2> QED
      BY <2>4 DEF Gate!Next
<1>7. ASSUME NEW a \in TokenAccounts, NEW n \in AMOUNTS, MintTokens(a, n)
      PROVE  Gate!Next
  <2>1. Gate!Issue(a, n)
      BY <1>2, <1>7 DEF MintTokens, Gate!Issue
  <2> QED
      BY <2>1 DEF Gate!Next, TokenAccounts
<1>8. ASSUME NEW p \in PEOPLE, NEW a \in TokenAccounts, NEW b \in TokenAccounts,
             NEW n \in AMOUNTS, Transfer(p, a, b, n)
      PROVE  Gate!Next
    BY <1>8, TransferImplementsGate
<1>9. ASSUME NEW a \in ACCOUNTS, NEW k \in KEYS, SetOwner(a, k)
      PROVE  Gate!Next
  <2>1. Gate!HandOver(a, k)
      BY <1>2, <1>9 DEF SetOwner, Gate!HandOver
  <2> QED
      BY <2>1 DEF Gate!Next
<1>10. CASE UNCHANGED vars
    BY <1>2, <1>10 DEF vars, Gate!vars
<1> QED
    BY <1>3, <1>4, <1>5, <1>6, <1>7, <1>8, <1>9, <1>10 DEF Next

(* Whatever the admin, the users and the owners of accounts do, in any order: tokens
   move past the hook only as GatedVault says. *)
THEOREM ImplementsGate == Spec => GateSpec
BY InitImplementsGate, StepImplementsGate, Invariance, PTL DEF Spec, GateSpec, Gate!Spec

=============================================================================
