-------------------------- MODULE FundraiserProofs --------------------------
(***************************************************************************)
(* Theorems about Fundraiser, for every set of contributors, every amount, *)
(* target, duration, decimals and clock bound.                             *)
(***************************************************************************)
EXTENDS Fundraiser, SumTheorems

USE FundraiserAssumption DEF history

(***************************************************************************)
(* Type correctness, with the records and their amounts in step.           *)
(***************************************************************************)

\* A record belongs to one contributor, and there are finitely many.
LEMMA RecordHolder ==
  ASSUME NEW r \in RECORDS
  PROVE  Holder(r) \in CONTRIBUTORS /\ r \in RecordsOf(Holder(r))
BY DEF RECORDS, Holder, RecordsOf

LEMMA RecordsFinite ==
  /\ IsFiniteSet(RECORDS)
  /\ \A c \in CONTRIBUTORS : RecordsOf(c) \in SUBSET RECORDS /\ IsFiniteSet(RecordsOf(c))
<1>1. IsFiniteSet(RECORDS)
  BY FS_Product DEF RECORDS
<1>2. \A c \in CONTRIBUTORS : RecordsOf(c) \in SUBSET RECORDS
  BY DEF RECORDS, RecordsOf
<1> QED
  BY <1>1, <1>2, FS_Subset

LEMMA InitTypeOK == Init => TypeOK
<1> SUFFICES ASSUME Init PROVE TypeOK
  OBVIOUS
<1>1. fundraiser \in [open : BOOLEAN, amount_to_raise : Nat, current_amount : Nat,
                     time_started : Nat, duration : Nat]
  BY DEF Init, Closed
<1>2. /\ contributor_amount \in [RECORDS -> Nat]
      /\ \A r \in RECORDS : r \in contributor_account <=> contributor_amount[r] > 0
  BY DEF Init
<1> QED
  BY <1>1, <1>2 DEF Init, TypeOK

\* Each instruction, and each step of the world outside, preserves the types.
LEMMA StepTypeOK == TypeOK /\ [Next]_vars => TypeOK'
<1> SUFFICES ASSUME TypeOK, [Next]_vars
             PROVE  TypeOK'
  OBVIOUS
<1> USE DEF TypeOK
<1>1. ASSUME NEW amount \in TARGETS, NEW duration \in DURATIONS, Initialize(amount, duration)
      PROVE  TypeOK'
  <2>1. amount \in Nat /\ duration \in Nat /\ now \in Nat
    BY <1>1
  <2>2. fundraiser' \in [open : BOOLEAN, amount_to_raise : Nat, current_amount : Nat,
                         time_started : Nat, duration : Nat]
    BY <1>1, <2>1 DEF Initialize
  <2> QED
    BY <1>1, <2>2 DEF Initialize
<1>2. ASSUME NEW r \in RECORDS, NEW amount \in AMOUNTS, NEW v \in Vaults,
             Contribute(r, amount, v)
      PROVE  TypeOK'
  <2>1. /\ amount \in Nat /\ amount > 0
        /\ r \in contributor_account'
        /\ contributor_amount' \in [RECORDS -> Nat]
        /\ contributor_amount'[r] > 0
        /\ \A d \in RECORDS \ {r} :
              /\ contributor_amount'[d] = contributor_amount[d]
              /\ d \in contributor_account' <=> d \in contributor_account
    BY <1>2 DEF Contribute, ContributeGuard
  <2>2. /\ vault' \in [{"ata", "aux"} -> Nat]
        /\ wallet' \in [CONTRIBUTORS -> Nat]
    <3>1. Holder(r) \in CONTRIBUTORS
      BY RecordHolder
    <3>2. wallet' \in [CONTRIBUTORS -> Nat]
      BY <1>2, <2>1, <3>1 DEF Contribute
    <3> QED
      BY <1>2, <2>1, <3>2 DEF Contribute
  <2>3. fundraiser' \in [open : BOOLEAN, amount_to_raise : Nat, current_amount : Nat,
                         time_started : Nat, duration : Nat]
    BY <1>2, <2>1 DEF Contribute, Accept
  <2> QED
    BY <1>2, <2>1, <2>2, <2>3 DEF Contribute
<1>3. ASSUME NEW v \in Vaults, CheckContributions(v)
      PROVE  TypeOK'
  BY <1>3 DEF CheckContributions, CloseVault, ValidVault, Closed
<1>4. ASSUME NEW r \in RECORDS, NEW v \in Vaults, Refund(r, v)
      PROVE  TypeOK'
  <2>1. /\ contributor_amount' \in [RECORDS -> Nat]
        /\ \A d \in RECORDS :
              d \in contributor_account' <=> contributor_amount'[d] > 0
    BY <1>4 DEF Refund, CloseRecord
  <2>2. vault' \in [{"ata", "aux"} -> Nat] /\ wallet' \in [CONTRIBUTORS -> Nat]
    <3>1. Holder(r) \in CONTRIBUTORS
      BY RecordHolder
    <3>2. wallet' \in [CONTRIBUTORS -> Nat]
      BY <1>4, <3>1 DEF Refund
    <3> QED
      BY <1>4, <3>2 DEF Refund, RefundCovered
  <2>3. fundraiser' \in [open : BOOLEAN, amount_to_raise : Nat, current_amount : Nat,
                         time_started : Nat, duration : Nat]
    BY <1>4 DEF Refund, RefundCovered, Release
  <2> QED
    BY <1>4, <2>1, <2>2, <2>3 DEF Refund, CloseRecord
<1>5. ASSUME NEW v \in Vaults, NEW amount \in DEPOSITS, DirectDeposit(v, amount)
      PROVE  TypeOK'
  BY <1>5 DEF DirectDeposit
<1>6. ASSUME NEW v \in Vaults, OpenTokenAccount(v)
      PROVE  TypeOK'
  BY <1>6 DEF OpenTokenAccount
<1>7. CASE Tick
  BY <1>7 DEF Tick
<1>8. CASE UNCHANGED vars
  BY <1>8 DEF vars
<1> QED
  BY <1>1, <1>2, <1>3, <1>4, <1>5, <1>6, <1>7, <1>8 DEF Next

\* TypeOK holds in every reachable state; in particular a contributor's record
\* exists exactly when it holds something (contribute.rs rolls an empty one back).
THEOREM TypeCorrect == Spec => []TypeOK
  BY InitTypeOK, StepTypeOK, PTL DEF Spec

(***************************************************************************)
(* The book value of an open campaign is backed by tokens.                 *)
(***************************************************************************)

LEMMA StepSolvent == TypeOK /\ Solvent /\ [Next]_vars => Solvent'
<1> SUFFICES ASSUME TypeOK, Solvent, [Next]_vars
             PROVE  Solvent'
  OBVIOUS
<1> USE DEF TypeOK, Solvent
<1>1. ASSUME NEW amount \in TARGETS, NEW duration \in DURATIONS, Initialize(amount, duration)
      PROVE  Solvent'
  BY <1>1 DEF Initialize
<1>2. ASSUME NEW r \in RECORDS, NEW amount \in AMOUNTS, NEW v \in Vaults,
             Contribute(r, amount, v)
      PROVE  Solvent'
  <2>1. amount \in Nat /\ fundraiser.open
    BY <1>2 DEF Contribute, ContributeGuard
  <2>2. fundraiser'.current_amount = fundraiser.current_amount + amount
    BY <1>2 DEF Contribute, Accept
  <2>3. vault'["ata"] + vault'["aux"] = vault["ata"] + vault["aux"] + amount
    BY <1>2, <2>1 DEF Contribute
  <2> QED
    BY <2>1, <2>2, <2>3
<1>3. ASSUME NEW v \in Vaults, CheckContributions(v)
      PROVE  Solvent'
  BY <1>3 DEF CheckContributions, Closed
<1>4. ASSUME NEW r \in RECORDS, NEW v \in Vaults, Refund(r, v)
      PROVE  Solvent'
  <2>1. /\ fundraiser.open
        /\ fundraiser'.current_amount = fundraiser.current_amount - contributor_amount[r]
    BY <1>4 DEF Refund, RefundGuard, Release
  <2>2. vault'["ata"] + vault'["aux"] = vault["ata"] + vault["aux"] - contributor_amount[r]
    BY <1>4 DEF Refund
  <2> QED
    BY <2>1, <2>2
<1>5. ASSUME NEW v \in Vaults, NEW amount \in DEPOSITS, DirectDeposit(v, amount)
      PROVE  Solvent'
  BY <1>5 DEF DirectDeposit
<1>6. ASSUME NEW v \in Vaults, OpenTokenAccount(v)
      PROVE  Solvent'
  BY <1>6 DEF OpenTokenAccount
<1>7. CASE Tick
  BY <1>7 DEF Tick
<1>8. CASE UNCHANGED vars
  BY <1>8 DEF vars
<1> QED
  BY <1>1, <1>2, <1>3, <1>4, <1>5, <1>6, <1>7, <1>8 DEF Next

\* What an open campaign's current_amount says it holds is in the token accounts of
\* its PDA, although contribute and refund let the caller name any of them.
THEOREM Solvency == Spec => []Solvent
<1>1. Init => Solvent
  BY DEF Init, Solvent, Closed
<1> QED
  BY <1>1, TypeCorrect, StepSolvent, PTL DEF Spec

(***************************************************************************)
(* A record is what its contributor paid and has not got back.             *)
(***************************************************************************)

\* What a record gains, its contributor's wallet loses; n is negative for a refund.
LEMMA WholeAfter ==
  ASSUME TypeOK, WalletsWhole, NEW r \in RECORDS, NEW n \in Int,
         Adds(RECORDS, contributor_amount, r, n, contributor_amount'),
         \A d \in CONTRIBUTORS :
            wallet'[d] = IF d = Holder(r) THEN wallet[d] - n ELSE wallet[d]
  PROVE  WalletsWhole'
<1> SUFFICES ASSUME NEW d \in CONTRIBUTORS
             PROVE  wallet'[d] + SumFunctionOnSet(contributor_amount', RecordsOf(d))
                        = Endowment
  BY DEF WalletsWhole, RecordsOf
<1> DEFINE S == RecordsOf(d)
           f == contributor_amount
           g == contributor_amount'
<1>1. S \in SUBSET RECORDS /\ IsFiniteSet(S) /\ (r \in S <=> d = Holder(r))
  BY RecordsFinite DEF RECORDS, RecordsOf, Holder
<1>2. wallet[d] \in Int /\ wallet[d] + SumFunctionOnSet(f, S) = Endowment
  BY DEF TypeOK, WalletsWhole
<1>3. Adds(RECORDS, f, r, n, g)
  OBVIOUS
<1> HIDE DEF S, f, g
<1>4. /\ SumFunctionOnSet(f, S) \in Int
      /\ r \in S => SumFunctionOnSet(g, S) = SumFunctionOnSet(f, S) + n
      /\ r \notin S => SumFunctionOnSet(g, S) = SumFunctionOnSet(f, S)
  BY <1>1, <1>3, SumAdds
<1>5. wallet'[d] + SumFunctionOnSet(g, S) = Endowment
  BY <1>1, <1>2, <1>4
<1> QED
  BY <1>5 DEF S, g

LEMMA StepWalletsWhole == TypeOK /\ WalletsWhole /\ [Next]_vars => WalletsWhole'
<1> SUFFICES ASSUME TypeOK, WalletsWhole, [Next]_vars
             PROVE  WalletsWhole'
  OBVIOUS
<1> USE DEF TypeOK, WalletsWhole
<1>1. ASSUME NEW amount \in TARGETS, NEW duration \in DURATIONS, Initialize(amount, duration)
      PROVE  WalletsWhole'
  BY <1>1 DEF Initialize
<1>2. ASSUME NEW r \in RECORDS, NEW amount \in AMOUNTS, NEW v \in Vaults,
             Contribute(r, amount, v)
      PROVE  WalletsWhole'
  <2>1. amount \in Int /\ contributor_amount' \in [RECORDS -> Int]
    BY <1>2, StepTypeOK DEF Next
  <2>2. Adds(RECORDS, contributor_amount, r, amount, contributor_amount')
    BY <1>2, <2>1 DEF Contribute, Adds
  <2>3. \A d \in CONTRIBUTORS :
            wallet'[d] = IF d = Holder(r) THEN wallet[d] - amount ELSE wallet[d]
    BY <1>2 DEF Contribute
  <2> QED
    BY <2>1, <2>2, <2>3, WholeAfter
<1>3. ASSUME NEW v \in Vaults, CheckContributions(v)
      PROVE  WalletsWhole'
  BY <1>3 DEF CheckContributions
<1>4. ASSUME NEW r \in RECORDS, NEW v \in Vaults, Refund(r, v)
      PROVE  WalletsWhole'
  <2> DEFINE n == -contributor_amount[r]
  <2>1. /\ n \in Int /\ contributor_amount[r] + n = 0
        /\ contributor_amount' \in [RECORDS -> Int]
    BY <1>4, StepTypeOK DEF Next
  <2>2. Adds(RECORDS, contributor_amount, r, n, contributor_amount')
    BY <1>4, <2>1 DEF Refund, CloseRecord, Adds
  <2>3. \A d \in CONTRIBUTORS :
            wallet'[d] = IF d = Holder(r) THEN wallet[d] - n ELSE wallet[d]
    BY <1>4 DEF Refund
  <2> HIDE DEF n
  <2> QED
    BY <2>1, <2>2, <2>3, WholeAfter
<1>5. ASSUME NEW v \in Vaults, NEW amount \in DEPOSITS, DirectDeposit(v, amount)
      PROVE  WalletsWhole'
  BY <1>5 DEF DirectDeposit
<1>6. ASSUME NEW v \in Vaults, OpenTokenAccount(v)
      PROVE  WalletsWhole'
  BY <1>6 DEF OpenTokenAccount
<1>7. CASE Tick
  BY <1>7 DEF Tick
<1>8. CASE UNCHANGED vars
  BY <1>8 DEF vars
<1> QED
  BY <1>1, <1>2, <1>3, <1>4, <1>5, <1>6, <1>7, <1>8 DEF Next

\* Across every campaign of the maker, no contributor is paid back twice, nor more
\* than was paid: wallet and record always add up to what the wallet started with.
THEOREM Wholeness == Spec => []WalletsWhole
<1>1. Init => WalletsWhole
  <2> SUFFICES ASSUME Init, NEW c \in CONTRIBUTORS
               PROVE  wallet[c] + SumFunctionOnSet(contributor_amount, RecordsOf(c))
                          = Endowment
    BY DEF WalletsWhole
  <2>1. \A r \in RecordsOf(c) : contributor_amount[r] = 0
    BY RecordsFinite DEF Init
  <2>2. SumFunctionOnSet(contributor_amount, RecordsOf(c)) = 0
    BY <2>1, RecordsFinite, SumZero
  <2> QED
    BY <2>2 DEF Init
<1> QED
  BY <1>1, TypeCorrect, StepWalletsWhole, PTL DEF Spec

(***************************************************************************)
(* The ten-percent cap, and the targets that it makes unreachable.         *)
(***************************************************************************)

LEMMA StepCapRespected == TypeOK /\ CapRespected /\ [Next]_vars => CapRespected'
<1> SUFFICES ASSUME TypeOK, CapRespected, [Next]_vars
             PROVE  CapRespected'
  OBVIOUS
<1> USE DEF TypeOK, CapRespected, max_contribution
<1>1. ASSUME NEW amount \in TARGETS, NEW duration \in DURATIONS, Initialize(amount, duration)
      PROVE  CapRespected'
  BY <1>1 DEF Initialize
<1>2. ASSUME NEW r \in RECORDS, NEW amount \in AMOUNTS, NEW v \in Vaults,
             Contribute(r, amount, v)
      PROVE  CapRespected'
  <2>1. /\ fundraiser.open /\ fundraiser'.open
        /\ fundraiser'.amount_to_raise = fundraiser.amount_to_raise
        /\ carried' = carried
    BY <1>2 DEF Contribute, ContributeGuard, Accept
  <2>2. contributor_amount'[r] <= max_contribution
    BY <1>2 DEF Contribute, ContributeGuard, WithinCap
  <2>3. \A d \in RECORDS \ {r} : contributor_amount'[d] = contributor_amount[d]
    BY <1>2 DEF Contribute
  <2> QED
    BY <2>1, <2>2, <2>3
<1>3. ASSUME NEW v \in Vaults, CheckContributions(v)
      PROVE  CapRespected'
  BY <1>3 DEF CheckContributions, Closed
<1>4. ASSUME NEW r \in RECORDS, NEW v \in Vaults, Refund(r, v)
      PROVE  CapRespected'
  <2>1. /\ fundraiser.open /\ fundraiser'.open
        /\ fundraiser'.amount_to_raise = fundraiser.amount_to_raise
        /\ carried' = carried
    BY <1>4 DEF Refund, RefundGuard, Release
  <2>2. /\ contributor_amount'[r] = 0
        /\ \A d \in RECORDS \ {r} : contributor_amount'[d] = contributor_amount[d]
    BY <1>4 DEF Refund, CloseRecord
  <2>3. max_contribution \in Nat
    BY DEF MAX_CONTRIBUTION_PERCENTAGE, PERCENTAGE_SCALER
  <2> QED
    BY <2>1, <2>2, <2>3
<1>5. ASSUME NEW v \in Vaults, NEW amount \in DEPOSITS, DirectDeposit(v, amount)
      PROVE  CapRespected'
  BY <1>5 DEF DirectDeposit
<1>6. ASSUME NEW v \in Vaults, OpenTokenAccount(v)
      PROVE  CapRespected'
  BY <1>6 DEF OpenTokenAccount
<1>7. CASE Tick
  BY <1>7 DEF Tick
<1>8. CASE UNCHANGED vars
  BY <1>8 DEF vars
<1> QED
  BY <1>1, <1>2, <1>3, <1>4, <1>5, <1>6, <1>7, <1>8 DEF Next

\* In an open campaign a record exceeds ten percent of the target only when an earlier
\* campaign left it behind, untouched since (contribute.rs's two caps).
THEOREM Capped == Spec => []CapRespected
<1>1. Init => CapRespected
  BY DEF Init, CapRespected, Closed
<1> QED
  BY <1>1, TypeCorrect, StepCapRespected, PTL DEF Spec

\* A target below ten units, or too large for checked_mul, admits no payment.
LEMMA DeadTargetRejects ==
  ASSUME TypeOK, NEW r \in RECORDS, NEW amount \in Nat, ContributeGuard(r, amount)
  PROVE  fundraiser.amount_to_raise >= 10 * UNIT /\ MaxContributionDefined
<1> DEFINE target == fundraiser.amount_to_raise
<1>1. amount >= UNIT /\ amount <= max_contribution /\ MaxContributionDefined
  BY DEF ContributeGuard, WithinCap
<1>2. target \in Nat /\ UNIT \in Nat
  BY DEF TypeOK
<1>3. UNIT <= (target * 10) \div 100
  BY <1>1, <1>2 DEF max_contribution, MAX_CONTRIBUTION_PERCENTAGE, PERCENTAGE_SCALER
<1> HIDE DEF target
<1>4. target >= 10 * UNIT
  BY <1>2, <1>3
<1> QED
  BY <1>1, <1>4 DEF target

LEMMA StepDeadTarget ==
  TypeOK /\ DeadTargetNeverFunded /\ [Next]_vars => DeadTargetNeverFunded'
<1> SUFFICES ASSUME TypeOK, DeadTargetNeverFunded, [Next]_vars
             PROVE  DeadTargetNeverFunded'
  OBVIOUS
<1> USE DEF TypeOK, DeadTargetNeverFunded, MaxContributionDefined
<1>1. ASSUME NEW amount \in TARGETS, NEW duration \in DURATIONS, Initialize(amount, duration)
      PROVE  DeadTargetNeverFunded'
  BY <1>1 DEF Initialize
<1>2. ASSUME NEW r \in RECORDS, NEW amount \in AMOUNTS, NEW v \in Vaults,
             Contribute(r, amount, v)
      PROVE  DeadTargetNeverFunded'
  <2>1. amount \in Nat /\ ContributeGuard(r, amount)
    BY <1>2 DEF Contribute
  <2>2. fundraiser.amount_to_raise >= 10 * UNIT /\ MaxContributionDefined
    BY <2>1, DeadTargetRejects
  <2>3. fundraiser'.amount_to_raise = fundraiser.amount_to_raise
    BY <1>2 DEF Contribute, Accept
  <2> QED
    BY <2>2, <2>3
<1>3. ASSUME NEW v \in Vaults, CheckContributions(v)
      PROVE  DeadTargetNeverFunded'
  BY <1>3 DEF CheckContributions, Closed
<1>4. ASSUME NEW r \in RECORDS, NEW v \in Vaults, Refund(r, v)
      PROVE  DeadTargetNeverFunded'
  <2>1. /\ fundraiser.open
        /\ contributor_amount[r] \in Nat
        /\ contributor_amount[r] <= fundraiser.current_amount
    BY <1>4 DEF Refund, RefundGuard, RefundCovered
  <2>2. /\ fundraiser'.amount_to_raise = fundraiser.amount_to_raise
        /\ fundraiser'.current_amount = fundraiser.current_amount - contributor_amount[r]
    BY <1>4 DEF Refund, Release
  <2> QED
    BY <2>1, <2>2
<1>5. ASSUME NEW v \in Vaults, NEW amount \in DEPOSITS, DirectDeposit(v, amount)
      PROVE  DeadTargetNeverFunded'
  BY <1>5 DEF DirectDeposit
<1>6. ASSUME NEW v \in Vaults, OpenTokenAccount(v)
      PROVE  DeadTargetNeverFunded'
  BY <1>6 DEF OpenTokenAccount
<1>7. CASE Tick
  BY <1>7 DEF Tick
<1>8. CASE UNCHANGED vars
  BY <1>8 DEF vars
<1> QED
  BY <1>1, <1>2, <1>3, <1>4, <1>5, <1>6, <1>7, <1>8 DEF Next

\* initialize lets the maker open campaigns that no contribution can ever enter:
\* every target between three and ten units, and every target above MaxU64 / 10.
THEOREM DeadTargets == Spec => []DeadTargetNeverFunded
<1>1. Init => DeadTargetNeverFunded
  BY DEF Init, DeadTargetNeverFunded, Closed
<1> QED
  BY <1>1, TypeCorrect, StepDeadTarget, PTL DEF Spec

(***************************************************************************)
(* Funding and refunding do not overlap.                                   *)
(***************************************************************************)

\* A campaign that has refunded somebody is past its end.
RefundedEnded == (fundraiser.open /\ refunded) => has_ended

LEMMA DivMonotone ==
  ASSUME NEW m \in Int, NEW n \in Int, NEW d \in Nat \ {0}, m <= n
  PROVE  m \div d <= n \div d
  OBVIOUS

\* A campaign that has ended stays ended while the clock runs and the record stands.
LEMMA EndedStays ==
  ASSUME TypeOK, has_ended, now' \in Nat, now' >= now,
         fundraiser'.time_started = fundraiser.time_started,
         fundraiser'.duration = fundraiser.duration
  PROVE  has_ended'
<1>1. /\ now - fundraiser.time_started \in Int
      /\ now' - fundraiser.time_started \in Int
      /\ now - fundraiser.time_started <= now' - fundraiser.time_started
  BY DEF TypeOK
<1>2. (now - fundraiser.time_started) \div SecondsPerDay
         <= (now' - fundraiser.time_started) \div SecondsPerDay
  BY <1>1, DivMonotone
<1>3. /\ fundraiser.duration \in Int
      /\ (now - fundraiser.time_started) \div SecondsPerDay \in Int
      /\ (now' - fundraiser.time_started) \div SecondsPerDay \in Int
  BY <1>1 DEF TypeOK
<1> QED
  BY <1>2, <1>3 DEF has_ended

LEMMA StepRefundedEnded == TypeOK /\ RefundedEnded /\ [Next]_vars => RefundedEnded'
<1> SUFFICES ASSUME TypeOK, RefundedEnded, [Next]_vars
             PROVE  RefundedEnded'
  OBVIOUS
<1>0. ASSUME has_ended, now' = now,
             fundraiser'.time_started = fundraiser.time_started,
             fundraiser'.duration = fundraiser.duration
      PROVE  RefundedEnded'
  BY <1>0, EndedStays DEF RefundedEnded, TypeOK
<1>1. ASSUME NEW amount \in TARGETS, NEW duration \in DURATIONS, Initialize(amount, duration)
      PROVE  RefundedEnded'
  BY <1>1 DEF Initialize, RefundedEnded
<1>2. ASSUME NEW r \in RECORDS, NEW amount \in AMOUNTS, NEW v \in Vaults,
             Contribute(r, amount, v)
      PROVE  RefundedEnded'
  BY <1>2 DEF Contribute, ContributeGuard, RefundedEnded
<1>3. ASSUME NEW v \in Vaults, CheckContributions(v)
      PROVE  RefundedEnded'
  BY <1>3 DEF CheckContributions, Closed, RefundedEnded
<1>4. ASSUME NEW r \in RECORDS, NEW v \in Vaults, Refund(r, v)
      PROVE  RefundedEnded'
  BY <1>4, <1>0 DEF Refund, RefundGuard, Release, TypeOK
<1>5. ASSUME NEW v \in Vaults, NEW amount \in DEPOSITS, DirectDeposit(v, amount)
      PROVE  RefundedEnded'
  BY <1>5, <1>0 DEF DirectDeposit, RefundedEnded
<1>6. ASSUME NEW v \in Vaults, OpenTokenAccount(v)
      PROVE  RefundedEnded'
  BY <1>6, <1>0 DEF OpenTokenAccount, RefundedEnded
<1>7. CASE Tick
  BY <1>7, EndedStays DEF Tick, RefundedEnded, TypeOK
<1>8. CASE UNCHANGED vars
  BY <1>8, <1>0 DEF vars, RefundedEnded
<1> QED
  BY <1>1, <1>2, <1>3, <1>4, <1>5, <1>6, <1>7, <1>8 DEF Next

\* Once a campaign has paid one contributor back, contribute never adds to it again:
\* both instructions read the same has_ended, and an ended campaign stays ended.
THEOREM RefundsEndFunding == Spec => NoFundingAfterRefund
<1>1. Init => RefundedEnded
  BY DEF Init, RefundedEnded
<1>2. TypeOK /\ RefundedEnded /\ [Next]_vars =>
         [(refunded /\ refunded') =>
            fundraiser'.current_amount <= fundraiser.current_amount]_vars
  <2> SUFFICES ASSUME TypeOK, RefundedEnded, Next, refunded, refunded'
               PROVE  fundraiser'.current_amount <= fundraiser.current_amount
    OBVIOUS
  <2> USE DEF TypeOK
  <2>1. ASSUME NEW amount \in TARGETS, NEW duration \in DURATIONS,
               Initialize(amount, duration)
        PROVE  FALSE
    BY <2>1 DEF Initialize
  <2>2. ASSUME NEW r \in RECORDS, NEW amount \in AMOUNTS, NEW v \in Vaults,
               Contribute(r, amount, v)
        PROVE  FALSE
    BY <2>2 DEF Contribute, ContributeGuard, RefundedEnded
  <2>3. ASSUME NEW v \in Vaults, CheckContributions(v)
        PROVE  fundraiser'.current_amount <= fundraiser.current_amount
    BY <2>3 DEF CheckContributions, Closed
  <2>4. ASSUME NEW r \in RECORDS, NEW v \in Vaults, Refund(r, v)
        PROVE  fundraiser'.current_amount <= fundraiser.current_amount
    BY <2>4 DEF Refund, Release
  <2>5. ASSUME fundraiser' = fundraiser
        PROVE  fundraiser'.current_amount <= fundraiser.current_amount
    BY <2>5
  <2> QED
    BY <2>1, <2>2, <2>3, <2>4, <2>5 DEF Next, DirectDeposit, OpenTokenAccount, Tick
<1> QED
  BY <1>1, <1>2, TypeCorrect, StepRefundedEnded, PTL DEF Spec, NoFundingAfterRefund

(***************************************************************************)
(* A token account pays refunds or the claim.                              *)
(***************************************************************************)

\* An account that has paid a refund and that nobody has topped up since is short of
\* the target, in a campaign that has ended.
DrainedShort ==
  fundraiser.open =>
      \A v \in drained : has_ended /\ vault[v] < fundraiser.amount_to_raise

LEMMA StepDrainedShort == TypeOK /\ DrainedShort /\ [Next]_vars => DrainedShort'
<1> SUFFICES ASSUME TypeOK, DrainedShort, [Next]_vars
             PROVE  DrainedShort'
  OBVIOUS
<1> USE DEF TypeOK
<1>0. ASSUME has_ended, now' = now,
             fundraiser'.time_started = fundraiser.time_started,
             fundraiser'.duration = fundraiser.duration
      PROVE  has_ended'
  BY <1>0, EndedStays
<1>1. ASSUME NEW amount \in TARGETS, NEW duration \in DURATIONS, Initialize(amount, duration)
      PROVE  DrainedShort'
  BY <1>1 DEF Initialize, DrainedShort
<1>2. ASSUME NEW r \in RECORDS, NEW amount \in AMOUNTS, NEW v \in Vaults,
             Contribute(r, amount, v)
      PROVE  DrainedShort'
  <2>1. drained' = {}
    BY <1>2 DEF Contribute, ContributeGuard, DrainedShort
  <2> QED
    BY <2>1 DEF DrainedShort
<1>3. ASSUME NEW v \in Vaults, CheckContributions(v)
      PROVE  DrainedShort'
  BY <1>3 DEF CheckContributions, Closed, DrainedShort
<1>4. ASSUME NEW r \in RECORDS, NEW v \in Vaults, Refund(r, v)
      PROVE  DrainedShort'
  <2>1. has_ended'
    BY <1>4, <1>0 DEF Refund, RefundGuard, Release
  <2>2. \A w \in drained : vault[w] < fundraiser.amount_to_raise
    BY <1>4 DEF Refund, RefundGuard, DrainedShort
  <2>3. \A w \in drained' : vault'[w] < fundraiser'.amount_to_raise
    <3>1. /\ fundraiser'.amount_to_raise = fundraiser.amount_to_raise
          /\ vault[v] < fundraiser.amount_to_raise
          /\ contributor_amount[r] \in Nat
      BY <1>4 DEF Refund, RefundGuard, Release
    <3>2. /\ drained' = drained \cup {v}
          /\ vault' = [vault EXCEPT ![v] = @ - contributor_amount[r]]
      BY <1>4 DEF Refund
    <3> QED
      BY <2>2, <3>1, <3>2
  <2> QED
    BY <2>1, <2>3 DEF DrainedShort
<1>5. ASSUME NEW v \in Vaults, NEW amount \in DEPOSITS, DirectDeposit(v, amount)
      PROVE  DrainedShort'
  <2>1. fundraiser.open /\ drained' # {} => has_ended'
    BY <1>5, <1>0 DEF DirectDeposit, DrainedShort
  <2> QED
    BY <1>5, <2>1 DEF DirectDeposit, DrainedShort
<1>6. ASSUME NEW v \in Vaults, OpenTokenAccount(v)
      PROVE  DrainedShort'
  BY <1>6, <1>0 DEF OpenTokenAccount, DrainedShort
<1>7. CASE Tick
  <2>1. now' \in Nat /\ now' >= now
    BY <1>7 DEF Tick
  <2> QED
    BY <1>7, <2>1, EndedStays DEF Tick, DrainedShort
<1>8. CASE UNCHANGED vars
  BY <1>8, <1>0 DEF vars, DrainedShort
<1> QED
  BY <1>1, <1>2, <1>3, <1>4, <1>5, <1>6, <1>7, <1>8 DEF Next

\* Whichever token accounts callers name, one that has paid a refund is never claimed,
\* but for what somebody transfers into it afterwards: the campaign has ended by then,
\* and no contribution can fill the account again.
THEOREM ClaimXorRefund == Spec => AllOrNothing
<1>1. Init => DrainedShort
  BY DEF Init, DrainedShort
<1>2. TypeOK /\ DrainedShort /\ [Next]_vars =>
         [\A v \in Vaults :
            (fundraiser.open /\ ~fundraiser'.open /\ vault'[v] < vault[v])
                => v \notin drained]_vars
  <2> SUFFICES ASSUME TypeOK, DrainedShort, Next, NEW w \in Vaults,
                      fundraiser.open, ~fundraiser'.open, vault'[w] < vault[w]
               PROVE  w \notin drained
    OBVIOUS
  <2> USE DEF TypeOK
  <2>1. ASSUME NEW v \in Vaults, CheckContributions(v)
        PROVE  w \notin drained
    <3>1. w = v
      BY <2>1 DEF CheckContributions
    <3>2. vault[w] >= fundraiser.amount_to_raise
      BY <2>1, <3>1 DEF CheckContributions
    <3> QED
      BY <3>2 DEF DrainedShort
  <2>2. ASSUME NEW r \in RECORDS, NEW amount \in AMOUNTS, NEW v \in Vaults,
               Contribute(r, amount, v)
        PROVE  FALSE
    BY <2>2 DEF Contribute, Accept
  <2>3. ASSUME NEW r \in RECORDS, NEW v \in Vaults, Refund(r, v)
        PROVE  FALSE
    BY <2>3 DEF Refund, Release
  <2> QED
    BY <2>1, <2>2, <2>3 DEF Next, Initialize, DirectDeposit, OpenTokenAccount, Tick
<1> QED
  BY <1>1, <1>2, TypeCorrect, StepDrainedShort, PTL DEF Spec, AllOrNothing

(***************************************************************************)
(* The campaign's total is the sum of the records.                         *)
(***************************************************************************)

\* Writing one record changes the sum of the records by as much.
LEMMA SumOfRecords ==
  ASSUME TypeOK, TypeOK', NEW r \in RECORDS,
         \A d \in RECORDS \ {r} : contributor_amount'[d] = contributor_amount[d]
  PROVE  SumFunction(contributor_amount') = SumFunction(contributor_amount)
            + (contributor_amount'[r] - contributor_amount[r])
BY SumOfUpdate, RecordsFinite DEF TypeOK

LEMMA StepCurrentAmount ==
  TypeOK /\ TypeOK' /\ CurrentAmountExact /\ [Next]_vars => CurrentAmountExact'
<1> SUFFICES ASSUME TypeOK, TypeOK', CurrentAmountExact, [Next]_vars
             PROVE  CurrentAmountExact'
  OBVIOUS
<1>0. /\ SumFunction(contributor_amount) \in Nat
      /\ SumFunction(carried) \in Nat
      /\ fundraiser.current_amount \in Nat
  BY SumOfArray, RecordsFinite DEF TypeOK
<1>k. ASSUME fundraiser' = fundraiser, carried' = carried,
             contributor_amount' = contributor_amount
      PROVE  CurrentAmountExact'
  BY <1>k DEF CurrentAmountExact
<1>1. ASSUME NEW amount \in TARGETS, NEW duration \in DURATIONS, Initialize(amount, duration)
      PROVE  CurrentAmountExact'
  <2>1. /\ fundraiser'.current_amount = 0
        /\ carried' = contributor_amount
        /\ contributor_amount' = contributor_amount
    BY <1>1 DEF Initialize
  <2> QED
    BY <1>0, <2>1 DEF CurrentAmountExact
<1>2. ASSUME NEW r \in RECORDS, NEW amount \in AMOUNTS, NEW v \in Vaults,
             Contribute(r, amount, v)
      PROVE  CurrentAmountExact'
  <2>1. /\ amount \in Nat /\ fundraiser.open
        /\ contributor_amount \in [RECORDS -> Nat]
        /\ contributor_amount[r] \in Nat
    BY <1>2 DEF Contribute, ContributeGuard, TypeOK
  <2>2. /\ fundraiser'.current_amount = fundraiser.current_amount + amount
        /\ carried' = carried
        /\ contributor_amount'[r] = contributor_amount[r] + amount
        /\ \A d \in RECORDS \ {r} : contributor_amount'[d] = contributor_amount[d]
    BY <1>2 DEF Contribute, Accept, TypeOK
  <2>3. SumFunction(contributor_amount') = SumFunction(contributor_amount)
                + (contributor_amount'[r] - contributor_amount[r])
    BY <2>1, <2>2, SumOfRecords
  <2> QED
    BY <1>0, <2>1, <2>2, <2>3 DEF CurrentAmountExact
<1>3. ASSUME NEW v \in Vaults, CheckContributions(v)
      PROVE  CurrentAmountExact'
  BY <1>3 DEF CheckContributions, Closed, CurrentAmountExact
<1>4. ASSUME NEW r \in RECORDS, NEW v \in Vaults, Refund(r, v)
      PROVE  CurrentAmountExact'
  <2>1. /\ fundraiser.open
        /\ contributor_amount \in [RECORDS -> Nat]
        /\ contributor_amount[r] \in Nat
    BY <1>4 DEF Refund, RefundGuard, TypeOK
  <2>2. /\ fundraiser'.current_amount = fundraiser.current_amount - contributor_amount[r]
        /\ carried' = carried
        /\ contributor_amount'[r] = 0
        /\ \A d \in RECORDS \ {r} : contributor_amount'[d] = contributor_amount[d]
    BY <1>4 DEF Refund, Release, CloseRecord, TypeOK
  <2>3. SumFunction(contributor_amount') = SumFunction(contributor_amount)
                + (contributor_amount'[r] - contributor_amount[r])
    BY <2>1, <2>2, SumOfRecords
  <2> QED
    BY <1>0, <2>1, <2>2, <2>3 DEF CurrentAmountExact
<1>5. ASSUME NEW v \in Vaults, NEW amount \in DEPOSITS, DirectDeposit(v, amount)
      PROVE  CurrentAmountExact'
  BY <1>5, <1>k DEF DirectDeposit
<1>6. ASSUME NEW v \in Vaults, OpenTokenAccount(v)
      PROVE  CurrentAmountExact'
  BY <1>6, <1>k DEF OpenTokenAccount
<1>7. CASE Tick
  BY <1>7, <1>k DEF Tick
<1>8. CASE UNCHANGED vars
  BY <1>8, <1>k DEF vars
<1> QED
  BY <1>1, <1>2, <1>3, <1>4, <1>5, <1>6, <1>7, <1>8 DEF Next

\* contribute and refund each write two accounts, the campaign's total and one record:
\* over any number of contributors they never drift apart, but for the amounts that the
\* records of an earlier campaign brought along.
THEOREM TotalIsExact == Spec => []CurrentAmountExact
<1>1. Init => CurrentAmountExact
  BY DEF Init, CurrentAmountExact, Closed
<1> QED
  BY <1>1, TypeCorrect, StepCurrentAmount, PTL DEF Spec

\* The associated account covers what the campaign says it holds, but for what
\* contributors paid into other accounts.
CoveredButAside ==
  fundraiser.open => fundraiser.current_amount <= vault["ata"] + aside

LEMMA StepCovered == TypeOK /\ CoveredButAside /\ [Next]_vars => CoveredButAside'
<1> SUFFICES ASSUME TypeOK, CoveredButAside, [Next]_vars
             PROVE  CoveredButAside'
  OBVIOUS
<1> USE DEF TypeOK, CoveredButAside
<1>1. ASSUME NEW amount \in TARGETS, NEW duration \in DURATIONS, Initialize(amount, duration)
      PROVE  CoveredButAside'
  BY <1>1 DEF Initialize
<1>2. ASSUME NEW r \in RECORDS, NEW amount \in AMOUNTS, NEW v \in Vaults,
             Contribute(r, amount, v)
      PROVE  CoveredButAside'
  <2>1. amount \in Nat /\ fundraiser.open
    BY <1>2 DEF Contribute, ContributeGuard
  <2>2. fundraiser'.current_amount = fundraiser.current_amount + amount
    BY <1>2 DEF Contribute, Accept
  <2>3. vault'["ata"] + aside' = vault["ata"] + aside + amount
    BY <1>2, <2>1 DEF Contribute
  <2> QED
    BY <2>1, <2>2, <2>3
<1>3. ASSUME NEW v \in Vaults, CheckContributions(v)
      PROVE  CoveredButAside'
  BY <1>3 DEF CheckContributions, Closed
<1>4. ASSUME NEW r \in RECORDS, NEW v \in Vaults, Refund(r, v)
      PROVE  CoveredButAside'
  <2>1. /\ fundraiser.open
        /\ contributor_amount[r] \in Nat
        /\ fundraiser'.current_amount = fundraiser.current_amount - contributor_amount[r]
    BY <1>4 DEF Refund, RefundGuard, Release
  <2>2. vault'["ata"] >= vault["ata"] - contributor_amount[r] /\ aside' = aside
    BY <1>4 DEF Refund
  <2> QED
    BY <1>4, <2>1, <2>2 DEF Refund, RefundCovered
<1>5. ASSUME NEW v \in Vaults, NEW amount \in DEPOSITS, DirectDeposit(v, amount)
      PROVE  CoveredButAside'
  BY <1>5 DEF DirectDeposit
<1>6. ASSUME NEW v \in Vaults, OpenTokenAccount(v)
      PROVE  CoveredButAside'
  BY <1>6 DEF OpenTokenAccount
<1>7. CASE Tick
  BY <1>7 DEF Tick
<1>8. CASE UNCHANGED vars
  BY <1>8 DEF vars
<1> QED
  BY <1>1, <1>2, <1>3, <1>4, <1>5, <1>6, <1>7, <1>8 DEF Next

\* Whoever is refunded first, and whichever accounts refunds name: all refunds together
\* can exceed the associated account by no more than was paid into other accounts in
\* this campaign, and into campaigns that were claimed before it.
THEOREM RefundsRunDryOnlyAside == Spec => []ShortageExplained
<1>1. Init => CoveredButAside
  BY DEF Init, CoveredButAside, Closed
<1>2. TypeOK /\ CoveredButAside /\ CurrentAmountExact => ShortageExplained
  <2> SUFFICES ASSUME TypeOK, CoveredButAside, CurrentAmountExact, fundraiser.open
               PROVE  SumFunction(contributor_amount)
                          <= vault["ata"] + aside + SumFunction(carried)
    BY DEF ShortageExplained
  <2>1. /\ SumFunction(contributor_amount) \in Nat
        /\ SumFunction(carried) \in Nat
        /\ fundraiser.current_amount \in Nat
        /\ vault["ata"] \in Nat /\ aside \in Nat
    BY SumOfArray, RecordsFinite DEF TypeOK
  <2>2. /\ fundraiser.current_amount + SumFunction(carried) = SumFunction(contributor_amount)
        /\ fundraiser.current_amount <= vault["ata"] + aside
    BY DEF CurrentAmountExact, CoveredButAside
  <2> QED
    BY <2>1, <2>2
<1> QED
  BY <1>1, <1>2, TypeCorrect, StepCovered, TotalIsExact, PTL DEF Spec

\* What an open campaign's contributors could ask back in total, if all of them came.
Backed ==
  fundraiser.open =>
      SumFunction(contributor_amount)
          <= vault["ata"] + vault["aux"] + SumFunction(carried)

\* All token accounts of the campaign together fall short of its records by no more than
\* what records of earlier campaigns brought along: a campaign that starts without such
\* records has the tokens to pay everybody back, if not in the account a refund names, and
\* the shortage of any other is bounded by amounts known when it was initialized.
THEOREM ShortageIsCarried == Spec => []Backed
<1>1. TypeOK /\ Solvent /\ CurrentAmountExact => Backed
  <2> SUFFICES ASSUME TypeOK, Solvent, CurrentAmountExact, fundraiser.open
               PROVE  SumFunction(contributor_amount)
                          <= vault["ata"] + vault["aux"] + SumFunction(carried)
    BY DEF Backed
  <2>1. /\ SumFunction(contributor_amount) \in Nat
        /\ SumFunction(carried) \in Nat
        /\ fundraiser.current_amount \in Nat
        /\ vault["ata"] \in Nat /\ vault["aux"] \in Nat
    BY SumOfArray, RecordsFinite DEF TypeOK
  <2>2. /\ fundraiser.current_amount + SumFunction(carried) = SumFunction(contributor_amount)
        /\ vault["ata"] + vault["aux"] >= fundraiser.current_amount
    BY DEF CurrentAmountExact, Solvent
  <2> QED
    BY <2>1, <2>2
<1> QED
  BY <1>1, TypeCorrect, Solvency, TotalIsExact, PTL

(***************************************************************************)
(* No tokens are created or destroyed.                                     *)
(***************************************************************************)

\* Tokens that are not in the contributors' wallets.
Elsewhere == vault["ata"] + vault["aux"] + maker_balance + donor_balance

\* The balance of a token account, which is gone with it when it is closed.
Held(v) == IF v \in token_account THEN vault[v] ELSE 0

Conserved ==
  SumFunction(wallet) + Held("ata") + Held("aux") + maker_balance + donor_balance
      = Endowment * Cardinality(CONTRIBUTORS) + DonorFunds

ClosedEmpty == \A v \in {"ata", "aux"} : v \notin token_account => vault[v] = 0

LEMMA StepClosedEmpty == TypeOK /\ ClosedEmpty /\ [Next]_vars => ClosedEmpty'
<1> SUFFICES ASSUME TypeOK, ClosedEmpty, [Next]_vars
             PROVE  ClosedEmpty'
  OBVIOUS
<1> USE DEF TypeOK, ClosedEmpty
<1>1. ASSUME NEW amount \in TARGETS, NEW duration \in DURATIONS, Initialize(amount, duration)
      PROVE  ClosedEmpty'
  BY <1>1 DEF Initialize
<1>2. ASSUME NEW r \in RECORDS, NEW amount \in AMOUNTS, NEW v \in Vaults,
             Contribute(r, amount, v)
      PROVE  ClosedEmpty'
  BY <1>2 DEF Contribute, ValidVault
<1>3. ASSUME NEW v \in Vaults, CheckContributions(v)
      PROVE  ClosedEmpty'
  BY <1>3 DEF CheckContributions, CloseVault
<1>4. ASSUME NEW r \in RECORDS, NEW v \in Vaults, Refund(r, v)
      PROVE  ClosedEmpty'
  BY <1>4 DEF Refund, ValidVault
<1>5. ASSUME NEW v \in Vaults, NEW amount \in DEPOSITS, DirectDeposit(v, amount)
      PROVE  ClosedEmpty'
  BY <1>5 DEF DirectDeposit
<1>6. ASSUME NEW v \in Vaults, OpenTokenAccount(v)
      PROVE  ClosedEmpty'
  BY <1>6 DEF OpenTokenAccount
<1> QED
  BY <1>1, <1>2, <1>3, <1>4, <1>5, <1>6 DEF Next, Tick, vars

LEMMA SumOfWallets ==
  ASSUME TypeOK, TypeOK', NEW c \in CONTRIBUTORS,
         \A d \in CONTRIBUTORS \ {c} : wallet'[d] = wallet[d]
  PROVE  SumFunction(wallet') = SumFunction(wallet) + (wallet'[c] - wallet[c])
BY SumOfUpdate DEF TypeOK

LEMMA StepConserved ==
  TypeOK /\ TypeOK' /\ [Next]_vars
      => SumFunction(wallet') + Elsewhere' = SumFunction(wallet) + Elsewhere
<1> SUFFICES ASSUME TypeOK, TypeOK', [Next]_vars
             PROVE  SumFunction(wallet') + Elsewhere' = SumFunction(wallet) + Elsewhere
  OBVIOUS
<1>0. /\ SumFunction(wallet) \in Nat
      /\ vault \in [{"ata", "aux"} -> Nat] /\ vault["ata"] \in Nat /\ vault["aux"] \in Nat
      /\ maker_balance \in Nat /\ donor_balance \in Nat
      /\ Vaults \subseteq {"ata", "aux"}
  BY SumOfArray, FundraiserAssumption DEF TypeOK
<1>1. ASSUME UNCHANGED <<wallet, vault, maker_balance, donor_balance>>
      PROVE  SumFunction(wallet') + Elsewhere' = SumFunction(wallet) + Elsewhere
  BY <1>1 DEF Elsewhere
<1>2. ASSUME NEW r \in RECORDS, NEW amount \in AMOUNTS, NEW v \in Vaults,
             Contribute(r, amount, v)
      PROVE  SumFunction(wallet') + Elsewhere' = SumFunction(wallet) + Elsewhere
  <2> DEFINE c == Holder(r)
  <2>c. c \in CONTRIBUTORS
    BY RecordHolder
  <2>1. amount \in Nat /\ wallet[c] \in Nat
    BY <2>c, FundraiserAssumption DEF TypeOK
  <2>2. wallet'[c] = wallet[c] - amount /\ \A d \in CONTRIBUTORS \ {c} : wallet'[d] = wallet[d]
    BY <1>2, <2>c DEF Contribute, TypeOK
  <2>3. SumFunction(wallet') = SumFunction(wallet) + (wallet'[c] - wallet[c])
    BY <2>2, <2>c, SumOfWallets
  <2>4. Elsewhere' = Elsewhere + amount
    BY <1>0, <1>2, <2>1 DEF Contribute, Elsewhere
  <2>5. Elsewhere \in Nat
    BY <1>0 DEF Elsewhere
  <2> QED
    BY <1>0, <2>1, <2>2, <2>3, <2>4, <2>5
<1>3. ASSUME NEW v \in Vaults, CheckContributions(v)
      PROVE  SumFunction(wallet') + Elsewhere' = SumFunction(wallet) + Elsewhere
  <2>1. wallet' = wallet /\ Elsewhere' = Elsewhere
    BY <1>0, <1>3 DEF CheckContributions, Elsewhere
  <2> QED
    BY <2>1
<1>4. ASSUME NEW r \in RECORDS, NEW v \in Vaults, Refund(r, v)
      PROVE  SumFunction(wallet') + Elsewhere' = SumFunction(wallet) + Elsewhere
  <2> DEFINE c == Holder(r)
  <2>c. c \in CONTRIBUTORS
    BY RecordHolder
  <2>1. contributor_amount[r] \in Nat /\ wallet[c] \in Nat
    BY <2>c DEF TypeOK
  <2>2. /\ wallet'[c] = wallet[c] + contributor_amount[r]
        /\ \A d \in CONTRIBUTORS \ {c} : wallet'[d] = wallet[d]
    BY <1>4, <2>c DEF Refund, TypeOK
  <2>3. SumFunction(wallet') = SumFunction(wallet) + (wallet'[c] - wallet[c])
    BY <2>2, <2>c, SumOfWallets
  <2>4. Elsewhere' = Elsewhere - contributor_amount[r]
    BY <1>0, <1>4, <2>1 DEF Refund, Elsewhere
  <2>5. Elsewhere \in Nat
    BY <1>0 DEF Elsewhere
  <2> QED
    BY <1>0, <2>1, <2>2, <2>3, <2>4, <2>5
<1>5. ASSUME NEW v \in Vaults, NEW amount \in DEPOSITS, DirectDeposit(v, amount)
      PROVE  SumFunction(wallet') + Elsewhere' = SumFunction(wallet) + Elsewhere
  <2>1. amount \in Nat /\ wallet' = wallet
    BY <1>5 DEF DirectDeposit
  <2>2. Elsewhere' = Elsewhere
    BY <1>0, <1>5, <2>1 DEF DirectDeposit, Elsewhere
  <2> QED
    BY <2>1, <2>2
<1> QED
  BY <1>1, <1>2, <1>3, <1>4, <1>5 DEF Next, Initialize, OpenTokenAccount, Tick, vars

\* Over any number of campaigns every token of the mint is in a wallet, with the maker, or
\* in a token account of the campaign that exists: claims and refunds move all of what they
\* take from a vault, whichever account they name, and close none with tokens in it.
THEOREM TokensConserved == Spec => []Conserved
<1> DEFINE Total == SumFunction(wallet) + Elsewhere
           Kept == Total = Endowment * Cardinality(CONTRIBUTORS) + DonorFunds
<1>1. Init => Kept /\ ClosedEmpty
  <2> SUFFICES ASSUME Init PROVE Kept
    BY DEF Init, ClosedEmpty
  <2>1. \A c \in CONTRIBUTORS : wallet[c] = Endowment
    BY DEF Init
  <2>2. wallet \in [CONTRIBUTORS -> Nat]
    BY FundraiserAssumption DEF Init
  <2>3. SumFunction(wallet) = Endowment * Cardinality(CONTRIBUTORS)
    BY <2>1, <2>2, SumOfArray, SumConstant, FundraiserAssumption
  <2>4. Elsewhere = DonorFunds
    BY FundraiserAssumption DEF Init, Elsewhere
  <2> QED
    BY <2>3, <2>4
<1>2. TypeOK /\ TypeOK' /\ Kept /\ [Next]_vars => Kept'
  BY StepConserved
<1>3. TypeOK /\ ClosedEmpty /\ [Next]_vars => ClosedEmpty'
  BY StepClosedEmpty
<1>4. TypeOK /\ ClosedEmpty /\ Kept => Conserved
  <2> SUFFICES ASSUME TypeOK, ClosedEmpty, Kept PROVE Conserved
    OBVIOUS
  <2>1. /\ SumFunction(wallet) \in Nat /\ vault["ata"] \in Nat /\ vault["aux"] \in Nat
        /\ maker_balance \in Nat /\ donor_balance \in Nat
    BY SumOfArray, FundraiserAssumption DEF TypeOK
  <2>2. Held("ata") = vault["ata"] /\ Held("aux") = vault["aux"]
    BY DEF Held, ClosedEmpty
  <2> QED
    BY <2>1, <2>2 DEF Conserved, Elsewhere
<1> HIDE DEF Kept
<1> QED
  BY <1>1, <1>2, <1>3, <1>4, TypeCorrect, PTL DEF Spec

=============================================================================
