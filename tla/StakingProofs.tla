---------------------------- MODULE StakingProofs ----------------------------
(***************************************************************************)
(* Theorems about Staking, for every set of assets and owners, every day   *)
(* length, reward rate and freeze period.                                  *)
(***************************************************************************)
EXTENDS Staking, SumTheorems

LEMMA InitFlags ==
  ASSUME Init
  PROVE  collection \in BOOLEAN /\ configured \in BOOLEAN /\ tracked \in BOOLEAN
<1>1. collection = FALSE /\ configured = FALSE /\ tracked = FALSE
  BY DEF Init
<1> QED
  BY <1>1

(***************************************************************************)
(* Arithmetic of days and rewards.                                         *)
(***************************************************************************)

\* Whole days of a non-negative span are a natural number that fits the span.
LEMMA DaysFit ==
  ASSUME NEW m \in Nat, NEW d \in Nat \ {0}
  PROVE  m \div d \in Nat /\ (m \div d) * d <= m
  OBVIOUS

\* Days already paid for and days still to pay add up to the days of the whole span.
LEMMA DaysSplit ==
  ASSUME NEW a \in ASSETS, now \in Nat, last_claim[a] \in Nat, since[a] \in Nat,
         paid[a] \in Nat, last_claim[a] <= now,
         last_claim[a] = since[a] + paid[a] * SECONDS_PER_DAY
  PROVE  paid[a] + DaysSince(last_claim[a]) = DaysSince(since[a])
<1>0. SECONDS_PER_DAY \in Nat \ {0}
  BY StakingAssumption
<1>1. PICK n \in Nat, l \in Nat, s \in Nat, p \in Nat, d \in Nat \ {0} :
         n = now /\ l = last_claim[a] /\ s = since[a] /\ p = paid[a] /\ d = SECONDS_PER_DAY
  BY <1>0
<1>2. l = s + p * d /\ l <= n
  BY <1>1
<1>3. p + ((n - l) \div d) = (n - s) \div d
  BY <1>2
<1> QED
  BY <1>1, <1>3 DEF DaysSince

LEMMA ProductNat ==
  ASSUME NEW x \in Nat, NEW y \in Nat, NEW z \in Nat
  PROVE  (x * y * z) \div 10000 \in Nat
<1>1. x * y \in Nat
  OBVIOUS
<1>2. (x * y) * z \in Nat
  BY <1>1
<1> QED
  BY <1>2

LEMMA CardinalityAdd ==
  ASSUME NEW S, IsFiniteSet(S), NEW x, x \notin S
  PROVE  Cardinality(S \cup {x}) = Cardinality(S) + 1
  BY FS_AddElement

USE StakingAssumption DEF accounts, plugins, history

(***************************************************************************)
(* Types and clocks.  The days a claim pays for are a natural number only  *)
(* because the reward clock never runs ahead of the cluster clock, so the  *)
(* two invariants are inductive together and not apart.                    *)
(***************************************************************************)

IInv == TypeOK /\ ClocksExact

\* The days that claim_rewards and unstake find to pay for a staked asset.
LEMMA DaysToPay ==
  ASSUME IInv, NEW a \in ASSETS, staked[a] = "true"
  PROVE  /\ DaysSince(last_claim[a]) \in Nat
         /\ last_claim[a] + DaysSince(last_claim[a]) * SECONDS_PER_DAY <= now
         /\ Reward(DaysSince(last_claim[a])) \in Nat
<1>1. last_claim[a] \in Nat /\ now \in Nat /\ last_claim[a] <= now
  BY DEF IInv, TypeOK, ClocksExact, StakedAssets
<1>2. now - last_claim[a] \in Nat
  BY <1>1
<1>3. /\ DaysSince(last_claim[a]) \in Nat
      /\ DaysSince(last_claim[a]) * SECONDS_PER_DAY <= now - last_claim[a]
  BY <1>2, DaysFit DEF DaysSince
<1>4. last_claim[a] + DaysSince(last_claim[a]) * SECONDS_PER_DAY <= now
  <2> DEFINE span == DaysSince(last_claim[a]) * SECONDS_PER_DAY
  <2>1. span \in Nat /\ span <= now - last_claim[a]
    BY <1>3
  <2> HIDE DEF span
  <2>2. last_claim[a] + span <= now
    BY <2>1, <1>1
  <2> QED
    BY <2>2 DEF span
<1>5. config.rewards_bps \in Nat
  BY DEF IInv, TypeOK
<1> QED
  BY <1>3, <1>4, <1>5, ProductNat DEF Reward

LEMMA InitIInv == Init => IInv
<1> SUFFICES ASSUME Init PROVE IInv
  OBVIOUS
<1>1. /\ config \in [rewards_bps : Nat, freeze_period : Nat]
      /\ stats \in [total_staked : Nat, total_staked_lifetime : Nat]
  BY DEF Init
<1>2. /\ owner \in [ASSETS -> OWNERS \cup {None}]
      /\ staked \in [ASSETS -> {"absent", "true", "false"}]
      /\ staked_at \in [ASSETS -> Nat]
      /\ last_claim \in [ASSETS -> Nat]
      /\ freeze \in [ASSETS -> {"absent", "frozen", "thawed"}]
      /\ rewards \in [OWNERS -> Nat]
  BY DEF Init
<1>4. TypeOK
  <2>1. /\ now \in Nat /\ paid_total \in Nat
        /\ since \in [ASSETS -> Nat] /\ paid \in [ASSETS -> Nat]
    BY DEF Init
  <2> QED
    BY <1>1, <1>2, <2>1, InitFlags DEF TypeOK
<1>3. StakedAssets = {}
  BY DEF Init, StakedAssets
<1> QED
  BY <1>3, <1>4 DEF IInv, ClocksExact

LEMMA CountTypes ==
  ASSUME TypeOK, NEW delta \in Int, Count(delta)
  PROVE  tracked' \in BOOLEAN /\ stats' \in [total_staked : Nat, total_staked_lifetime : Nat]
<1> DEFINE total == stats.total_staked + delta
           current == IF total < 0 THEN 0 ELSE total
           lifetime == stats.total_staked_lifetime + IF delta > 0 THEN delta ELSE 0
<1>1. current \in Nat /\ lifetime \in Nat
  BY DEF TypeOK
<1>2. tracked' = TRUE /\ stats' = [total_staked |-> current, total_staked_lifetime |-> lifetime]
  BY DEF Count
<1> HIDE DEF current, lifetime
<1> QED
  BY <1>1, <1>2

LEMMA PayTypes ==
  ASSUME TypeOK, NEW a \in ASSETS, NEW days \in Nat, Reward(days) \in Nat, PayDays(a, days)
  PROVE  /\ rewards' \in [OWNERS -> Nat]
         /\ paid' \in [ASSETS -> Nat]
         /\ paid_total' \in Nat
<1> DEFINE amount == Reward(days)
<1>1. amount \in Nat /\ rewards' = [rewards EXCEPT ![owner[a]] = @ + amount]
  BY DEF PayDays
<1>2. rewards \in [OWNERS -> Nat]
  BY DEF TypeOK
<1> HIDE DEF amount
<1>3. paid' \in [ASSETS -> Nat] /\ paid_total' \in Nat
  BY DEF TypeOK, PayDays
<1>4. CASE owner[a] \in OWNERS
  BY <1>1, <1>2, <1>3, <1>4
<1>5. CASE owner[a] \notin OWNERS
  <2>1. rewards' = rewards
    BY <1>1, <1>2, <1>5
  <2> QED
    BY <1>2, <1>3, <2>1
<1> QED
  BY <1>4, <1>5

LEMMA StepIInv == IInv /\ [Next]_vars => IInv'
<1> SUFFICES ASSUME IInv, [Next]_vars
             PROVE  IInv'
  OBVIOUS
<1>0. TypeOK /\ ClocksExact
  BY DEF IInv
<1> USE DEF TypeOK
<1>a. ASSUME TypeOK', UNCHANGED <<staked, staked_at, last_claim, since, paid>>, now' >= now
      PROVE  IInv'
  BY <1>0, <1>a DEF IInv, ClocksExact, StakedAssets
<1>1. CASE CreateCollection
  BY <1>0, <1>1, <1>a DEF CreateCollection
<1>2. ASSUME NEW bps \in RewardsBps, NEW period \in FreezePeriods, Initialize(bps, period)
      PROVE  IInv'
  BY <1>0, <1>2, <1>a DEF Initialize
<1>3. ASSUME NEW a \in ASSETS, NEW o \in OWNERS, MintAsset(a, o)
      PROVE  IInv'
  BY <1>0, <1>3, <1>a DEF MintAsset
<1>4. ASSUME NEW a \in ASSETS, Stake(a)
      PROVE  IInv'
  <2>1. TypeOK'
    <3>1. /\ tracked' \in BOOLEAN
          /\ stats' \in [total_staked : Nat, total_staked_lifetime : Nat]
      BY <1>0, <1>4, CountTypes DEF Stake
    <3> QED
      BY <1>0, <1>4, <3>1 DEF Stake, StartClocks, Freeze
  <2>2. ClocksExact'
    <3> SUFFICES ASSUME NEW b \in ASSETS, staked'[b] = "true"
                 PROVE  /\ staked_at'[b] = since'[b]
                        /\ last_claim'[b] = since'[b] + paid'[b] * SECONDS_PER_DAY
                        /\ last_claim'[b] <= now'
      BY DEF ClocksExact, StakedAssets
    <3>1. CASE b = a
      BY <1>0, <1>4, <3>1 DEF Stake, StartClocks
    <3>2. CASE b # a
      BY <1>0, <1>4, <3>2 DEF Stake, StartClocks, ClocksExact, StakedAssets
    <3> QED
      BY <3>1, <3>2
  <2> QED
    BY <2>1, <2>2 DEF IInv
<1>5. ASSUME NEW a \in ASSETS, ClaimRewards(a)
      PROVE  IInv'
  <2> DEFINE days == DaysSince(last_claim[a])
  <2>1. /\ days \in Nat
        /\ last_claim[a] + days * SECONDS_PER_DAY <= now
        /\ Reward(days) \in Nat
    BY <1>5, DaysToPay DEF ClaimRewards
  <2>2. PayDays(a, days) /\ AdvanceClaim(a, days) /\ staked[a] = "true"
    BY <1>5 DEF ClaimRewards
  <2>3. days * SECONDS_PER_DAY \in Nat
    BY <2>1
  <2> HIDE DEF days
  <2>4. TypeOK'
    <3>1. /\ rewards' \in [OWNERS -> Nat]
          /\ paid' \in [ASSETS -> Nat]
          /\ paid_total' \in Nat
      BY <1>0, <2>1, <2>2, PayTypes
    <3>2. last_claim' \in [ASSETS -> Nat]
      BY <1>0, <2>2, <2>3 DEF AdvanceClaim
    <3> QED
      BY <1>0, <1>5, <3>1, <3>2 DEF ClaimRewards, AdvanceClaim
  <2>5. ClocksExact'
    <3> SUFFICES ASSUME NEW b \in ASSETS, staked'[b] = "true"
                 PROVE  /\ staked_at'[b] = since'[b]
                        /\ last_claim'[b] = since'[b] + paid'[b] * SECONDS_PER_DAY
                        /\ last_claim'[b] <= now'
      BY DEF ClocksExact, StakedAssets
    <3>1. /\ staked_at[b] = since[b]
          /\ last_claim[b] = since[b] + paid[b] * SECONDS_PER_DAY
          /\ last_claim[b] <= now
      BY <1>0, <1>5 DEF ClaimRewards, ClocksExact, StakedAssets
    <3>2. CASE b = a
      <4>1. /\ last_claim'[a] = last_claim[a] + days * SECONDS_PER_DAY
            /\ paid'[a] = paid[a] + days
            /\ UNCHANGED <<staked_at, since, now>>
        BY <1>0, <1>5, <2>2 DEF ClaimRewards, AdvanceClaim, PayDays
      <4>2. (paid[a] + days) * SECONDS_PER_DAY
               = paid[a] * SECONDS_PER_DAY + days * SECONDS_PER_DAY
        BY <1>0, <2>1
      <4> QED
        BY <1>0, <2>1, <2>3, <3>1, <3>2, <4>1, <4>2
    <3>3. CASE b # a
      BY <1>0, <1>5, <2>2, <3>1, <3>3 DEF ClaimRewards, AdvanceClaim, PayDays
    <3> QED
      BY <3>2, <3>3
  <2> QED
    BY <2>4, <2>5 DEF IInv
<1>6. ASSUME NEW a \in ASSETS, Unstake(a)
      PROVE  IInv'
  <2>1. /\ UnstakeDays(a) \in Nat /\ Reward(UnstakeDays(a)) \in Nat
        /\ PayDays(a, UnstakeDays(a))
    BY <1>6, DaysToPay DEF Unstake, UnstakeDays
  <2>2. TypeOK'
    <3>1. /\ tracked' \in BOOLEAN
          /\ stats' \in [total_staked : Nat, total_staked_lifetime : Nat]
      BY <1>0, <1>6, CountTypes DEF Unstake
    <3>2. /\ rewards' \in [OWNERS -> Nat]
          /\ paid' \in [ASSETS -> Nat]
          /\ paid_total' \in Nat
      BY <1>0, <2>1, PayTypes
    <3>3. /\ staked' \in [ASSETS -> {"absent", "true", "false"}]
          /\ staked_at' \in [ASSETS -> Nat]
          /\ last_claim' \in [ASSETS -> Nat]
          /\ freeze' \in [ASSETS -> {"absent", "frozen", "thawed"}]
      BY <1>0, <1>6 DEF Unstake, Thaw
    <3> QED
      BY <1>0, <1>6, <3>1, <3>2, <3>3 DEF Unstake
  <2>3. ClocksExact'
    <3> SUFFICES ASSUME NEW b \in ASSETS, staked'[b] = "true"
                 PROVE  /\ staked_at'[b] = since'[b]
                        /\ last_claim'[b] = since'[b] + paid'[b] * SECONDS_PER_DAY
                        /\ last_claim'[b] <= now'
      BY DEF ClocksExact, StakedAssets
    <3>1. b # a
      BY <1>0, <1>6 DEF Unstake
    <3> QED
      BY <1>0, <1>6, <2>1, <3>1 DEF Unstake, PayDays, ClocksExact, StakedAssets
  <2> QED
    BY <2>2, <2>3 DEF IInv
<1>7. ASSUME NEW a \in ASSETS, NEW o \in OWNERS, Transfer(a, o)
      PROVE  IInv'
  BY <1>0, <1>7, <1>a DEF Transfer
<1>8. CASE Tick
  BY <1>0, <1>8, <1>a DEF Tick
<1>9. CASE UNCHANGED vars
  BY <1>0, <1>9, <1>a DEF vars
<1> QED
  BY <1>1, <1>2, <1>3, <1>4, <1>5, <1>6, <1>7, <1>8, <1>9 DEF Next

\* Types, and the clocks of every staked asset: staked_at is the time of the stake and
\* last_claim is ahead of it by exactly the days paid for since.
THEOREM TypesAndClocks == Spec => [](TypeOK /\ ClocksExact)
  BY InitIInv, StepIInv, PTL DEF Spec, IInv

\* Types alone: in particular the attributes claim_rewards and unstake parse from an
\* asset are never negative, nor is a reward.
THEOREM TypeCorrect == Spec => []TypeOK
<1>1. IInv => TypeOK
  BY DEF IInv
<1> QED
  BY <1>1, InitIInv, StepIInv, PTL DEF Spec

(***************************************************************************)
(* What an asset is paid for over a stake.                                 *)
(***************************************************************************)

\* However its owners interleave claims, an asset that leaves its stake has been staked
\* for the freeze period and was paid for each of its whole days exactly once.
THEOREM EveryDayPaidOnce == Spec => UnstakePaysEveryDay
<1>1. IInv /\ [Next]_vars =>
        [\A a \in ASSETS : (staked[a] = "true" /\ staked'[a] # "true") =>
            /\ DaysSince(since[a]) >= config.freeze_period
            /\ paid'[a] = DaysSince(since[a])]_vars
  <2> SUFFICES ASSUME IInv, Next,
                      NEW a \in ASSETS, staked[a] = "true", staked'[a] # "true"
               PROVE  /\ DaysSince(since[a]) >= config.freeze_period
                      /\ paid'[a] = DaysSince(since[a])
    OBVIOUS
  <2>0. TypeOK /\ ClocksExact
    BY DEF IInv
  <2>1. Unstake(a)
    <3>1. ASSUME NEW b \in ASSETS, Stake(b)
          PROVE  FALSE
      BY <2>0, <3>1 DEF Stake, TypeOK
    <3>2. ASSUME NEW b \in ASSETS, Unstake(b)
          PROVE  b = a
      BY <2>0, <3>2 DEF Unstake, TypeOK
    <3>3. ~UNCHANGED staked
      OBVIOUS
    <3> QED
      BY <3>1, <3>2, <3>3 DEF Next, CreateCollection, Initialize, MintAsset, ClaimRewards,
                              Transfer, Tick
  <2>2. /\ staked_at[a] = since[a]
        /\ last_claim[a] = since[a] + paid[a] * SECONDS_PER_DAY
        /\ last_claim[a] <= now
        /\ now \in Nat /\ since[a] \in Nat /\ paid[a] \in Nat
    BY <2>0 DEF TypeOK, ClocksExact, StakedAssets
  <2>3. DaysSince(since[a]) >= config.freeze_period
    BY <2>1, <2>2 DEF Unstake
  <2>4. paid'[a] = paid[a] + DaysSince(last_claim[a])
    BY <2>0, <2>1 DEF Unstake, UnstakeDays, PayDays, TypeOK
  <2>5. paid[a] + DaysSince(last_claim[a]) = DaysSince(since[a])
    BY <2>0, <2>2, DaysSplit DEF TypeOK
  <2> QED
    BY <2>3, <2>4, <2>5
<1> QED
  BY <1>1, InitIInv, StepIInv, PTL DEF Spec, UnstakePaysEveryDay

(***************************************************************************)
(* A staked asset cannot be transferred.                                   *)
(***************************************************************************)

LEMMA StepStakedFrozen == TypeOK /\ StakedFrozen /\ [Next]_vars => StakedFrozen'
<1> SUFFICES ASSUME TypeOK, StakedFrozen, [Next]_vars
             PROVE  StakedFrozen'
  OBVIOUS
<1> USE DEF TypeOK, StakedFrozen, StakedAssets
<1>1. ASSUME UNCHANGED <<staked, freeze, owner>>
      PROVE  StakedFrozen'
  BY <1>1
<1>2. ASSUME NEW a \in ASSETS, NEW o \in OWNERS, MintAsset(a, o)
      PROVE  StakedFrozen'
  BY <1>2 DEF MintAsset
<1>3. ASSUME NEW a \in ASSETS, Stake(a)
      PROVE  StakedFrozen'
  BY <1>3 DEF Stake, Freeze
<1>4. ASSUME NEW a \in ASSETS, Unstake(a)
      PROVE  StakedFrozen'
  BY <1>4 DEF Unstake, Thaw
<1>5. ASSUME NEW a \in ASSETS, NEW o \in OWNERS, Transfer(a, o)
      PROVE  StakedFrozen'
  BY <1>5 DEF Transfer
<1> QED
  BY <1>1, <1>2, <1>3, <1>4, <1>5
     DEF Next, CreateCollection, Initialize, ClaimRewards, Tick, vars

\* A staked asset stays with the owner that staked it: stake freezes it on a first stake
\* and on every later one, and only unstake thaws it.
THEOREM StakedStays == Spec => StakedNeverMoves
<1>1. Init => StakedFrozen
  BY DEF Init, StakedFrozen, StakedAssets
<1>2. IInv /\ StakedFrozen /\ [Next]_vars =>
        [\A a \in ASSETS : (staked[a] = "true" /\ staked'[a] = "true") =>
            owner'[a] = owner[a]]_vars
  <2> SUFFICES ASSUME IInv, StakedFrozen, Next, NEW a \in ASSETS, staked[a] = "true"
               PROVE  owner'[a] = owner[a]
    OBVIOUS
  <2>1. freeze[a] = "frozen" /\ owner[a] # None
    BY DEF StakedFrozen, StakedAssets
  <2>2. owner \in [ASSETS -> OWNERS \cup {None}]
    BY DEF IInv, TypeOK
  <2>3. ASSUME NEW b \in ASSETS, NEW o \in OWNERS, MintAsset(b, o) \/ Transfer(b, o)
        PROVE  owner'[a] = owner[a]
    BY <2>1, <2>2, <2>3 DEF MintAsset, Transfer
  <2> QED
    BY <2>3 DEF Next, CreateCollection, Initialize, Stake, ClaimRewards, Unstake, Tick
<1>3. IInv => TypeOK
  BY DEF IInv
<1> QED
  BY <1>1, <1>2, <1>3, InitIInv, StepIInv, StepStakedFrozen, PTL DEF Spec, StakedNeverMoves

(***************************************************************************)
(* The collection's counter.                                               *)
(***************************************************************************)

LEMMA StakedFinite == IsFiniteSet(StakedAssets) /\ Cardinality(StakedAssets) \in Nat
<1>1. StakedAssets \subseteq ASSETS
  BY DEF StakedAssets
<1>2. IsFiniteSet(StakedAssets)
  BY <1>1, FS_Subset
<1> QED
  BY <1>2, FS_CardinalityType

LEMMA StepCountExact == TypeOK /\ CountExact /\ [Next]_vars => CountExact'
<1> SUFFICES ASSUME TypeOK, CountExact, [Next]_vars
             PROVE  CountExact'
  OBVIOUS
<1>0. /\ stats.total_staked \in Nat /\ stats.total_staked_lifetime \in Nat
      /\ stats.total_staked = Cardinality(StakedAssets)
      /\ stats.total_staked <= stats.total_staked_lifetime
      /\ staked \in [ASSETS -> {"absent", "true", "false"}]
  BY DEF TypeOK, CountExact
<1>1. ASSUME UNCHANGED <<staked, stats>>
      PROVE  CountExact'
  BY <1>0, <1>1 DEF CountExact, StakedAssets
<1>2. ASSUME NEW a \in ASSETS, Stake(a)
      PROVE  CountExact'
  <2>0. a \notin StakedAssets
    BY <1>2 DEF Stake, StakedAssets
  <2>1. StakedAssets' = StakedAssets \cup {a}
    BY <1>0, <1>2 DEF Stake, StakedAssets
  <2>2. Cardinality(StakedAssets \cup {a}) = Cardinality(StakedAssets) + 1
    BY <2>0, StakedFinite, CardinalityAdd
  <2>3. /\ stats'.total_staked = stats.total_staked + 1
        /\ stats'.total_staked_lifetime = stats.total_staked_lifetime + 1
    BY <1>0, <1>2 DEF Stake, Count
  <2> QED
    BY <1>0, <2>1, <2>2, <2>3 DEF CountExact
<1>3. ASSUME NEW a \in ASSETS, Unstake(a)
      PROVE  CountExact'
  <2>1. a \in StakedAssets /\ StakedAssets' = StakedAssets \ {a}
    BY <1>0, <1>3 DEF Unstake, StakedAssets
  <2>2. /\ IsFiniteSet(StakedAssets \ {a})
        /\ Cardinality(StakedAssets \ {a}) = Cardinality(StakedAssets) - 1
    BY <2>1, StakedFinite, FS_RemoveElement
  <2>3. Cardinality(StakedAssets \ {a}) \in Nat
    BY <2>2, FS_CardinalityType
  <2>4. /\ stats'.total_staked = stats.total_staked - 1
        /\ stats'.total_staked_lifetime = stats.total_staked_lifetime
    BY <1>0, <1>3, <2>2, <2>3 DEF Unstake, Count
  <2> QED
    BY <1>0, <2>1, <2>2, <2>4 DEF CountExact
<1> QED
  BY <1>1, <1>2, <1>3
     DEF Next, CreateCollection, Initialize, MintAsset, ClaimRewards, Transfer, Tick, vars

\* The collection's total_staked counts exactly the staked assets, so that the clamp at
\* zero in update_collection_staked_count never takes effect.
THEOREM CounterExact == Spec => []CountExact
<1>1. Init => CountExact
  <2> SUFFICES ASSUME Init PROVE CountExact
    OBVIOUS
  <2>1. StakedAssets = {}
    BY DEF Init, StakedAssets
  <2>2. stats.total_staked = 0 /\ stats.total_staked_lifetime = 0
    BY DEF Init
  <2> QED
    BY <2>1, <2>2, FS_EmptySet DEF CountExact
<1>2. IInv => TypeOK
  BY DEF IInv
<1> QED
  BY <1>1, <1>2, InitIInv, StepIInv, StepCountExact, PTL DEF Spec

(***************************************************************************)
(* Rewards are additive: splitting a stake over many claims changes        *)
(* nothing.  The rate never changes once a day was paid for, because       *)
(* initialize runs once and nothing is paid before it.                     *)
(***************************************************************************)

\* The division is exact because the decimals of the rewards mint are at least four.
LEMMA DivisionExact ==
  ASSUME NEW x \in Nat
  PROVE  (x * UNIT) \div 10000 = x * (UNIT \div 10000) /\ UNIT \div 10000 \in Nat
<1>1. PICK k \in Nat : UNIT = 10000 * k
  OBVIOUS
<1>2. UNIT \div 10000 = k
  BY <1>1
<1>3. x * UNIT = 10000 * (x * k) /\ x * k \in Nat
  BY <1>1
<1>4. (10000 * (x * k)) \div 10000 = x * k
  BY <1>3
<1> QED
  BY <1>2, <1>3, <1>4

LEMMA RewardIs ==
  ASSUME NEW m \in Nat, config.rewards_bps \in Nat
  PROVE  Reward(m) = (m * config.rewards_bps) * (UNIT \div 10000)
<1> DEFINE x == m * config.rewards_bps
<1>1. x \in Nat
  OBVIOUS
<1>2. Reward(m) = (x * UNIT) \div 10000
  BY DEF Reward
<1> HIDE DEF x
<1>3. (x * UNIT) \div 10000 = x * (UNIT \div 10000)
  BY <1>1, DivisionExact
<1> QED
  BY <1>2, <1>3 DEF x

LEMMA RewardAdds ==
  ASSUME NEW m \in Nat, NEW n \in Nat, config.rewards_bps \in Nat
  PROVE  /\ Reward(m + n) = Reward(m) + Reward(n)
         /\ Reward(m) \in Nat
         /\ Reward(0) = 0
<1> DEFINE b == config.rewards_bps
           k == UNIT \div 10000
<1>1. /\ m * b \in Nat /\ n * b \in Nat
      /\ (m + n) * b = m * b + n * b
      /\ 0 * b = 0
  OBVIOUS
<1>2. /\ Reward(m) = (m * b) * k
      /\ Reward(n) = (n * b) * k
      /\ Reward(m + n) = (m * b + n * b) * k
      /\ Reward(0) = 0 * k
      /\ k \in Nat
  <2>1. k \in Nat
    BY DivisionExact
  <2>2. m + n \in Nat /\ 0 \in Nat
    OBVIOUS
  <2>3. \A d \in Nat : Reward(d) = (d * b) * k
    BY RewardIs
  <2> HIDE DEF k, b
  <2>4. /\ Reward(m) = (m * b) * k
        /\ Reward(n) = (n * b) * k
        /\ Reward(m + n) = ((m + n) * b) * k
        /\ Reward(0) = (0 * b) * k
    BY <2>2, <2>3
  <2> QED
    BY <1>1, <2>1, <2>4
<1> HIDE DEF k, b
<1>3. /\ (m * b + n * b) * k = (m * b) * k + (n * b) * k
      /\ 0 * k = 0
      /\ (m * b) * k \in Nat
  BY <1>1, <1>2
<1> QED
  BY <1>2, <1>3

\* With what makes RewardsAdditive inductive: nothing was paid before initialize.
RewardInv == RewardsAdditive /\ (~configured => paid_total = 0)

\* Paying a staked asset keeps it.
LEMMA PayAdds ==
  ASSUME IInv, StakedFrozen, RewardsAdditive,
         NEW a \in ASSETS, staked[a] = "true", config' = config,
         NEW days \in Nat, PayDays(a, days)
  PROVE  RewardsAdditive'
<1>1. /\ owner[a] \in OWNERS
      /\ rewards \in [OWNERS -> Nat]
      /\ paid_total \in Nat
      /\ config.rewards_bps \in Nat
  BY DEF IInv, TypeOK, StakedFrozen, StakedAssets
<1>2. /\ Reward(paid_total + days) = Reward(paid_total) + Reward(days)
      /\ Reward(days) \in Nat
  BY <1>1, RewardAdds
<1> DEFINE amount == Reward(days)
<1>3. /\ rewards' = [rewards EXCEPT ![owner[a]] = rewards[owner[a]] + amount]
      /\ paid_total' = paid_total + days
  BY <1>1 DEF PayDays
<1>4. SumFunction(rewards') = SumFunction(rewards) + amount
  <2> DEFINE o == owner[a]
  <2>1. amount \in Nat /\ o \in OWNERS
    BY <1>1, <1>2
  <2> HIDE DEF amount, o
  <2>2. /\ rewards' \in [OWNERS -> Nat]
        /\ rewards'[o] = rewards[o] + amount
        /\ rewards[o] \in Nat
        /\ \A x \in OWNERS \ {o} : rewards'[x] = rewards[x]
    BY <1>1, <1>3, <2>1 DEF o
  <2>3. SumFunction(rewards') = SumFunction(rewards) + (rewards'[o] - rewards[o])
    BY <1>1, <2>1, <2>2, SumOfUpdate
  <2>4. SumFunction(rewards) \in Nat
    BY <1>1, SumOfArray
  <2> QED
    BY <2>1, <2>2, <2>3, <2>4
<1>5. Reward(paid_total)' = Reward(paid_total + days)
  BY <1>3 DEF Reward
<1> QED
  BY <1>2, <1>4, <1>5 DEF RewardsAdditive

LEMMA StepRewardInv ==
  IInv /\ StakedFrozen /\ RewardInv /\ [Next]_vars => RewardInv'
<1> SUFFICES ASSUME IInv, StakedFrozen, RewardInv, [Next]_vars
             PROVE  RewardInv'
  OBVIOUS
<1>0. TypeOK /\ ClocksExact /\ RewardsAdditive
  BY DEF IInv, RewardInv
<1>1. ASSUME UNCHANGED <<configured, config, rewards, paid_total>>
      PROVE  RewardInv'
  BY <1>1 DEF RewardInv, RewardsAdditive, Reward
<1>2. ASSUME NEW bps \in RewardsBps, NEW period \in FreezePeriods, Initialize(bps, period)
      PROVE  RewardInv'
  <2>1. paid_total = 0 /\ UNCHANGED <<rewards, paid_total>> /\ configured'
    BY <1>2 DEF Initialize, RewardInv
  <2>2. config.rewards_bps \in Nat /\ config'.rewards_bps \in Nat
    BY <1>0, <1>2 DEF Initialize, TypeOK
  <2>3. Reward(0) = 0 /\ Reward(0)' = 0
    BY <2>2 DEF Reward
  <2> QED
    BY <1>0, <2>1, <2>3 DEF RewardInv, RewardsAdditive, Reward
<1>3. ASSUME NEW a \in ASSETS, ClaimRewards(a)
      PROVE  RewardInv'
  <2>1. DaysSince(last_claim[a]) \in Nat
    BY <1>3, DaysToPay DEF ClaimRewards
  <2>2. /\ staked[a] = "true" /\ configured /\ configured' = configured /\ config' = config
        /\ PayDays(a, DaysSince(last_claim[a]))
    BY <1>3 DEF ClaimRewards
  <2> QED
    BY <1>0, <2>1, <2>2, PayAdds DEF RewardInv
<1>4. ASSUME NEW a \in ASSETS, Unstake(a)
      PROVE  RewardInv'
  <2>1. UnstakeDays(a) \in Nat
    BY <1>4, DaysToPay DEF Unstake, UnstakeDays
  <2>2. /\ staked[a] = "true" /\ configured /\ configured' = configured /\ config' = config
        /\ PayDays(a, UnstakeDays(a))
    BY <1>4 DEF Unstake
  <2> QED
    BY <1>0, <2>1, <2>2, PayAdds DEF RewardInv
<1> QED
  BY <1>1, <1>2, <1>3, <1>4
     DEF Next, CreateCollection, MintAsset, Stake, Transfer, Tick, vars

\* However the days of all stakes are split over claims and unstakes, the rewards ever
\* minted are the rewards of the days ever paid for: no claim loses or gains a fraction
\* of a token to rounding, because the rewards mint has six decimals.
THEOREM ClaimsAdditive == Spec => []RewardsAdditive
<1>1. Init => RewardInv /\ StakedFrozen
  <2> SUFFICES ASSUME Init PROVE RewardInv /\ StakedFrozen
    OBVIOUS
  <2>1. paid_total = 0 /\ config.rewards_bps = 0 /\ rewards = [o \in OWNERS |-> 0]
    BY DEF Init
  <2>2. Reward(paid_total) = 0
    BY <2>1 DEF Reward
  <2>3. SumFunction(rewards) = 0
    BY <2>1, SumZero DEF SumFunction
  <2>4. StakedFrozen
    BY DEF Init, StakedFrozen, StakedAssets
  <2> QED
    BY <2>1, <2>2, <2>3, <2>4 DEF RewardInv, RewardsAdditive
<1>2. IInv => TypeOK
  BY DEF IInv
<1>3. RewardInv => RewardsAdditive
  BY DEF RewardInv
<1> QED
  BY <1>1, <1>2, <1>3, InitIInv, StepIInv, StepStakedFrozen, StepRewardInv, PTL DEF Spec

(***************************************************************************)
(* An unstake that is due.  EventuallyUnstaked is liveness and stays with  *)
(* TLC; here is what it needs of the program: an unstake that is due finds *)
(* all it asks for, and stays due until somebody sends it.                 *)
(***************************************************************************)

\* The asset has served the freeze period that is configured.
Due(a) == staked[a] = "true" /\ DaysSince(staked_at[a]) >= config.freeze_period

\* What unstake asks for besides: the Config account, an owner to pay and to thaw the
\* asset for, and rewards that fit a u64.
Granted(a) ==
  /\ configured
  /\ owner[a] \in OWNERS /\ freeze[a] = "frozen"
  /\ RewardFits(UnstakeDays(a))

DueIsGranted == \A a \in ASSETS : Due(a) => Granted(a)
DueUntilUnstaked == [][\A a \in ASSETS : Due(a) => Due(a)' \/ staked'[a] # "true"]_vars

\* Assets are staked under a Config account that is there to stay, and the clock and
\* the rate are in their ranges.
Configured ==
  /\ now <= MaxTime
  /\ configured => config.rewards_bps \in RewardsBps
  /\ StakedAssets # {} => configured

LEMMA StepConfigured == TypeOK /\ Configured /\ [Next]_vars => Configured'
<1> SUFFICES ASSUME TypeOK, Configured, [Next]_vars
             PROVE  Configured'
  OBVIOUS
<1> USE DEF TypeOK, Configured, StakedAssets
<1>1. ASSUME now' <= MaxTime, UNCHANGED <<configured, config, staked>>
      PROVE  Configured'
  BY <1>1
<1>2. ASSUME NEW bps \in RewardsBps, NEW period \in FreezePeriods, Initialize(bps, period)
      PROVE  Configured'
  BY <1>2 DEF Initialize
<1>3. ASSUME NEW a \in ASSETS, Stake(a) \/ Unstake(a)
      PROVE  Configured'
  BY <1>3 DEF Stake, Unstake
<1>4. CASE Tick
  BY <1>1, <1>4 DEF Tick
<1> QED
  BY <1>1, <1>2, <1>3, <1>4
     DEF Next, CreateCollection, MintAsset, ClaimRewards, Transfer, vars

LEMMA ConfiguredInvariance == Spec => [](IInv /\ StakedFrozen /\ Configured)
<1>1. Init => StakedFrozen /\ Configured
  BY DEF Init, StakedFrozen, Configured, StakedAssets
<1>2. IInv => TypeOK
  BY DEF IInv
<1> QED
  BY <1>1, <1>2, InitIInv, StepIInv, StepStakedFrozen, StepConfigured, PTL DEF Spec

\* Later is not fewer days.
LEMMA DaysMonotone ==
  ASSUME NEW m \in Nat, NEW n \in Nat, m <= n, NEW d \in Nat \ {0}
  PROVE  m \div d <= n \div d
  OBVIOUS

\* A product grows with each factor.
LEMMA ProductMonotone ==
  ASSUME NEW m \in Nat, NEW n \in Nat, m <= n, NEW x \in Nat, NEW y \in Nat
  PROVE  m * x * y <= n * x * y
<1>1. m * x <= n * x /\ m * x \in Nat /\ n * x \in Nat
  OBVIOUS
<1>2. (m * x) * y <= (n * x) * y
  BY <1>1
<1> QED
  BY <1>2

\* As long as the rewards of the longest stake that the clock allows fit a u64 (at 10^6
\* units a token, more than 200 million days at the highest rate), nothing can refuse an
\* unstake that is due: no earlier claim, transfer or initialize takes away what it needs.
THEOREM DueAlwaysGranted ==
  ASSUME \A bps \in RewardsBps : (MaxTime \div SECONDS_PER_DAY) * bps * UNIT <= MaxU64
  PROVE  Spec => []DueIsGranted
<1>1. IInv /\ StakedFrozen /\ Configured => DueIsGranted
  <2> SUFFICES ASSUME IInv, StakedFrozen, Configured, NEW a \in ASSETS, Due(a)
               PROVE  Granted(a)
    BY DEF DueIsGranted
  <2>1. TypeOK /\ ClocksExact /\ a \in StakedAssets
    BY DEF IInv, Due, StakedAssets
  <2>2. configured /\ freeze[a] = "frozen" /\ owner[a] \in OWNERS
    BY <2>1 DEF Configured, StakedFrozen, TypeOK
  <2> DEFINE days == DaysSince(last_claim[a])
             most == MaxTime \div SECONDS_PER_DAY
             rate == config.rewards_bps
  <2>3. rate \in RewardsBps /\ rate \in Nat
    <3>1. rate \in RewardsBps
      BY <2>2 DEF Configured
    <3>2. rate \in Nat
      BY <2>1 DEF TypeOK
    <3> QED
      BY <3>1, <3>2
  <2>4. last_claim[a] \in Nat /\ last_claim[a] <= now /\ now \in Nat /\ now <= MaxTime
    BY <2>1 DEF TypeOK, ClocksExact, Configured
  <2>5. now - last_claim[a] \in Nat /\ now - last_claim[a] <= MaxTime
    BY <2>4
  <2>6. days \in Nat /\ most \in Nat /\ days <= most
    BY <2>5, DaysFit, DaysMonotone DEF DaysSince
  <2> HIDE DEF days, most, rate
  <2>7. days * rate * UNIT <= most * rate * UNIT
    BY <2>3, <2>6, ProductMonotone
  <2>8. most * rate * UNIT <= MaxU64
    BY <2>3 DEF most
  <2>9. days * rate * UNIT \in Nat /\ most * rate * UNIT \in Nat
    <3>1. days * rate \in Nat /\ most * rate \in Nat
      BY <2>3, <2>6
    <3> QED
      BY <3>1
  <2>10. days * rate * UNIT <= MaxU64
    BY <2>7, <2>8, <2>9
  <2> QED
    BY <2>2, <2>10 DEF Granted, RewardFits, UnstakeDays, days, rate
<1> QED
  BY <1>1, ConfiguredInvariance, PTL

\* An asset that may be unstaked may be unstaked until it is: claims leave the freeze
\* clock alone, the freeze period cannot be changed, and time only helps.
THEOREM DueStays == Spec => DueUntilUnstaked
<1>1. IInv /\ Configured /\ [Next]_vars
        => [\A a \in ASSETS : Due(a) => Due(a)' \/ staked'[a] # "true"]_vars
  <2> SUFFICES ASSUME IInv, Configured, Next, NEW a \in ASSETS, Due(a), staked'[a] = "true"
               PROVE  Due(a)'
    OBVIOUS
  <2>1. TypeOK /\ ClocksExact /\ a \in StakedAssets
    BY DEF IInv, Due, StakedAssets
  <2>2. configured /\ now \in Nat /\ staked_at[a] \in Nat /\ staked_at[a] <= now
    <3>1. /\ staked_at[a] = since[a] /\ last_claim[a] <= now
          /\ last_claim[a] = since[a] + paid[a] * SECONDS_PER_DAY
      BY <2>1 DEF ClocksExact
    <3>2. since[a] \in Nat /\ now \in Nat /\ paid[a] * SECONDS_PER_DAY \in Nat
      BY <2>1 DEF TypeOK
    <3> QED
      BY <2>1, <3>1, <3>2 DEF Configured
  <2>3. config' = config /\ staked_at'[a] = staked_at[a] /\ now' \in Nat /\ now' >= now
    <3>1. ASSUME NEW b \in ASSETS, Stake(b)
          PROVE  b # a /\ staked_at' = [staked_at EXCEPT ![b] = now] /\ UNCHANGED <<now, config>>
      BY <2>1, <3>1 DEF Stake, StartClocks, StakedAssets
    <3>2. ASSUME NEW b \in ASSETS, Unstake(b)
          PROVE  b # a /\ staked_at' = [staked_at EXCEPT ![b] = 0] /\ UNCHANGED <<now, config>>
      BY <2>1, <3>2 DEF Unstake, TypeOK
    <3>3. ASSUME NEW b \in ASSETS, ClaimRewards(b)
          PROVE  UNCHANGED <<staked_at, now, config>>
      BY <3>3 DEF ClaimRewards, AdvanceClaim
    <3>4. staked_at \in [ASSETS -> Nat]
      BY <2>1 DEF TypeOK
    <3>5. CASE UNCHANGED <<staked_at, now, config>>
      BY <2>2, <3>5
    <3>6. ASSUME NEW b \in ASSETS, Stake(b) \/ Unstake(b)
          PROVE  config' = config /\ staked_at'[a] = staked_at[a] /\ now' = now
      BY <3>1, <3>2, <3>4, <3>6
    <3>7. CASE Tick
      BY <2>2, <3>7 DEF Tick
    <3>8. ~(\E bps \in RewardsBps, period \in FreezePeriods : Initialize(bps, period))
      BY <2>2 DEF Initialize
    <3>9. ASSUME CreateCollection \/ \E b \in ASSETS, o \in OWNERS : MintAsset(b, o) \/ Transfer(b, o)
          PROVE  UNCHANGED <<staked_at, now, config>>
      BY <3>9 DEF CreateCollection, MintAsset, Transfer
    <3> QED
      BY <2>2, <3>3, <3>5, <3>6, <3>7, <3>8, <3>9 DEF Next
  <2>4. /\ now - staked_at[a] \in Nat /\ now' - staked_at[a] \in Nat
        /\ now - staked_at[a] <= now' - staked_at[a]
    BY <2>2, <2>3
  <2>5. /\ (now - staked_at[a]) \div SECONDS_PER_DAY
              <= (now' - staked_at[a]) \div SECONDS_PER_DAY
        /\ (now - staked_at[a]) \div SECONDS_PER_DAY \in Nat
        /\ (now' - staked_at[a]) \div SECONDS_PER_DAY \in Nat
    BY <2>4, DaysFit, DaysMonotone
  <2>6. config.freeze_period \in Nat
    BY <2>1 DEF TypeOK
  <2> QED
    BY <2>3, <2>5, <2>6 DEF Due, DaysSince
<1> QED
  BY <1>1, ConfiguredInvariance, PTL DEF Spec, DueUntilUnstaked

=============================================================================
