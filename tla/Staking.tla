------------------------------- MODULE Staking -------------------------------
(***************************************************************************)
(* The anchor-core-staking program, for one collection of MPL Core assets. *)
(*                                                                         *)
(* Everything the program knows of a stake is kept in plugins of the asset *)
(* itself (Attributes: staked, staked_at, last_claim; FreezeDelegate) and  *)
(* in an Attributes plugin of the collection (total_staked,                *)
(* total_staked_lifetime).  An instruction is one atomic step, and one     *)
(* that fails is rolled back by the runtime.                               *)
(***************************************************************************)
EXTENDS Integers, FiniteSets, Functions

CONSTANTS
    ASSETS,         \* assets that may be minted into the collection
    OWNERS,         \* wallets
    RewardsBps,     \* rewards_bps arguments of initialize
    FreezePeriods,  \* freeze_period arguments of initialize, in days
    SECONDS_PER_DAY,
    UNIT,           \* 10^decimals of the rewards mint (mint::decimals = 6)
    MaxU64,
    None,           \* an account, plugin or owner that does not exist
    MaxTime,        \* bound of the clock
    MaxStakes       \* bound on the number of stake instructions

ASSUME StakingAssumption ==
    /\ IsFiniteSet(ASSETS)
    /\ IsFiniteSet(OWNERS)
    /\ None \notin OWNERS
    /\ RewardsBps \subseteq Nat
    /\ FreezePeriods \subseteq Nat
    /\ SECONDS_PER_DAY \in Nat \ {0}
    /\ UNIT \in Nat /\ UNIT % 10000 = 0
    /\ MaxU64 \in Nat
    /\ MaxTime \in Nat
    /\ MaxStakes \in Nat

VARIABLES
    now,         \* the cluster clock, in seconds
    collection,  \* has create_collection run?
    configured,  \* has initialize created the Config account?
    config,      \* the Config account: rewards_bps and freeze_period
    tracked,     \* does the collection have its Attributes plugin?
    stats,       \* its counters: total_staked and total_staked_lifetime
    owner,       \* owner of each asset, None before it is minted
    staked,      \* attribute "staked": "absent", "true" or "false"
    staked_at,   \* attribute "staked_at"
    last_claim,  \* attribute "last_claim"
    freeze,      \* FreezeDelegate plugin: "absent", "frozen" or "thawed"
    rewards,     \* rewards-token balance of each wallet
    since,       \* history: when the asset was last staked
    paid,        \* history: days paid for since it was last staked
    paid_total   \* history: days paid for by the program, ever

accounts == <<collection, configured, config>>
plugins == <<staked, staked_at, last_claim, freeze>>
history == <<since, paid, paid_total>>
vars == <<now, accounts, tracked, stats, owner, plugins, rewards, history>>

---------------------------------------------------------------------------

Init ==
    /\ now = 0
    /\ collection = FALSE
    /\ configured = FALSE
    /\ config = [rewards_bps |-> 0, freeze_period |-> 0]
    /\ tracked = FALSE
    /\ stats = [total_staked |-> 0, total_staked_lifetime |-> 0]
    /\ owner = [a \in ASSETS |-> None]
    /\ staked = [a \in ASSETS |-> "absent"]
    /\ staked_at = [a \in ASSETS |-> 0]
    /\ last_claim = [a \in ASSETS |-> 0]
    /\ freeze = [a \in ASSETS |-> "absent"]
    /\ rewards = [o \in OWNERS |-> 0]
    /\ since = [a \in ASSETS |-> 0]
    /\ paid = [a \in ASSETS |-> 0]
    /\ paid_total = 0

\* create_collection: the update authority of the collection is the program's PDA.
CreateCollection ==
    /\ ~collection
    /\ collection' = TRUE
    /\ UNCHANGED <<now, configured, config, tracked, stats, owner, plugins, rewards, history>>

\* initialize: `init` on the config account makes it run once per collection.
Initialize(bps, period) ==
    /\ collection
    /\ ~configured
    /\ configured' = TRUE
    /\ config' = [rewards_bps |-> bps, freeze_period |-> period]
    /\ UNCHANGED <<now, collection, tracked, stats, owner, plugins, rewards, history>>

\* mint_asset: anybody mints an asset of the collection to itself, configured or not.
MintAsset(a, o) ==
    /\ collection
    /\ owner[a] = None
    /\ owner' = [owner EXCEPT ![a] = o]
    /\ UNCHANGED <<now, accounts, tracked, stats, plugins, rewards, history>>

---------------------------------------------------------------------------
(* Helpers of the three staking instructions. *)

\* bug: the operands of the subtraction are swapped
DaysSince_swapped(t) == (t - now) \div SECONDS_PER_DAY

\* Whole days from t to now.
DaysSince(t) == (now - t) \div SECONDS_PER_DAY

\* bug: whole tokens only, the fraction of a token is lost at every claim
Reward_truncated(days) == ((days * config.rewards_bps) \div 10000) * UNIT

Reward(days) == (days * config.rewards_bps * UNIT) \div 10000

\* The checked multiplications of the reward.
RewardFits(days) == days * config.rewards_bps * UNIT <= MaxU64

\* bug: the counter is only ever raised
Count_never_down(delta) ==
    /\ tracked' = TRUE
    /\ stats' = [total_staked |-> stats.total_staked + (IF delta > 0 THEN delta ELSE 0),
                 total_staked_lifetime |-> stats.total_staked_lifetime + 1]

(* update_collection_staked_count: reads the counters (0 when the plugin does not
   exist yet), applies delta with a floor of 0, and adds or updates the plugin. *)
Count(delta) ==
    LET total == stats.total_staked + delta IN
    /\ tracked' = TRUE
    /\ stats' = [total_staked |-> IF total < 0 THEN 0 ELSE total,
                 total_staked_lifetime |->
                    stats.total_staked_lifetime + IF delta > 0 THEN delta ELSE 0]

\* bug: freezing only happens where the plugin is added, on the first stake
Freeze_first_stake_only(a) ==
    freeze' = [freeze EXCEPT ![a] = IF @ = "absent" THEN "frozen" ELSE @]

\* The FreezeDelegate plugin is added on a first stake and updated on a later one.
Freeze(a) == freeze' = [freeze EXCEPT ![a] = "frozen"]

Thaw(a) == freeze' = [freeze EXCEPT ![a] = "thawed"]

\* mint_to_checked, to the rewards account of whoever owns the asset now.
PayDays(a, days) ==
    /\ RewardFits(days)
    /\ rewards' = [rewards EXCEPT ![owner[a]] = @ + Reward(days)]
    /\ paid' = [paid EXCEPT ![a] = @ + days]
    /\ paid_total' = paid_total + days

---------------------------------------------------------------------------

\* bug: the reward clock of the previous stake is kept
StartClocks_keep_claim(a) ==
    /\ staked_at' = [staked_at EXCEPT ![a] = now]
    /\ UNCHANGED last_claim

StartClocks(a) ==
    /\ staked_at' = [staked_at EXCEPT ![a] = now]
    /\ last_claim' = [last_claim EXCEPT ![a] = now]

\* stake: the owner stakes an asset that is not staked already.
Stake(a) ==
    /\ configured
    /\ owner[a] # None
    /\ staked[a] # "true"
    /\ stats.total_staked_lifetime < MaxStakes
    /\ staked' = [staked EXCEPT ![a] = "true"]
    /\ StartClocks(a)
    /\ Freeze(a)
    /\ Count(1)
    /\ since' = [since EXCEPT ![a] = now]
    /\ paid' = [paid EXCEPT ![a] = 0]
    /\ UNCHANGED <<now, accounts, owner, rewards, paid_total>>

\* bug: the freeze clock moves along with the reward clock
AdvanceClaim_both_clocks(a, days) ==
    /\ last_claim' = [last_claim EXCEPT ![a] = @ + days * SECONDS_PER_DAY]
    /\ staked_at' = [staked_at EXCEPT ![a] = @ + days * SECONDS_PER_DAY]

\* The reward clock moves by the days paid for; the freeze clock is not touched.
AdvanceClaim(a, days) ==
    /\ last_claim' = [last_claim EXCEPT ![a] = @ + days * SECONDS_PER_DAY]
    /\ UNCHANGED staked_at

\* claim_rewards: with less than a day to claim it returns Ok and changes nothing.
ClaimRewards(a) ==
    LET days == DaysSince(last_claim[a]) IN
    /\ configured
    /\ staked[a] = "true"
    /\ days # 0
    /\ AdvanceClaim(a, days)
    /\ PayDays(a, days)
    /\ UNCHANGED <<now, accounts, tracked, stats, owner, staked, freeze, since>>

\* bug: the days already claimed are paid for again
UnstakeDays_from_stake(a) == DaysSince(staked_at[a])

\* Days still to be paid for at unstake.
UnstakeDays(a) == DaysSince(last_claim[a])

\* unstake: after the freeze period, thaws the asset and pays what is left.
Unstake(a) ==
    /\ configured
    /\ staked[a] = "true"
    /\ DaysSince(staked_at[a]) >= config.freeze_period
    /\ staked' = [staked EXCEPT ![a] = "false"]
    /\ staked_at' = [staked_at EXCEPT ![a] = 0]
    /\ last_claim' = [last_claim EXCEPT ![a] = 0]
    /\ Thaw(a)
    /\ Count(-1)
    /\ PayDays(a, UnstakeDays(a))
    /\ UNCHANGED <<now, accounts, owner, since>>

---------------------------------------------------------------------------
(* The world outside the program. *)

\* MPL Core lets the owner transfer an asset unless its FreezeDelegate is frozen.
Transfer(a, o) ==
    /\ owner[a] # None
    /\ freeze[a] # "frozen"
    /\ owner' = [owner EXCEPT ![a] = o]
    /\ UNCHANGED <<now, accounts, tracked, stats, plugins, rewards, history>>

Tick ==
    /\ now < MaxTime
    /\ now' = now + 1
    /\ UNCHANGED <<accounts, tracked, stats, owner, plugins, rewards, history>>

Next ==
    \/ CreateCollection
    \/ \E bps \in RewardsBps, period \in FreezePeriods : Initialize(bps, period)
    \/ \E a \in ASSETS, o \in OWNERS : MintAsset(a, o)
    \/ \E a \in ASSETS : Stake(a)
    \/ \E a \in ASSETS : ClaimRewards(a)
    \/ \E a \in ASSETS : Unstake(a)
    \/ \E a \in ASSETS, o \in OWNERS : Transfer(a, o)
    \/ Tick

Spec == Init /\ [][Next]_vars

\* The clock runs, and an owner who wants the asset back keeps asking for it.
FairSpec == Spec /\ WF_vars(Tick) /\ \A a \in ASSETS : WF_vars(Unstake(a))

---------------------------------------------------------------------------
(* Properties. *)

StakedAssets == {a \in ASSETS : staked[a] = "true"}

(* Every variable has its type. *)
TypeOK ==
    /\ now \in Nat
    /\ collection \in BOOLEAN
    /\ configured \in BOOLEAN
    /\ config \in [rewards_bps : Nat, freeze_period : Nat]
    /\ tracked \in BOOLEAN
    /\ stats \in [total_staked : Nat, total_staked_lifetime : Nat]
    /\ owner \in [ASSETS -> OWNERS \cup {None}]
    /\ staked \in [ASSETS -> {"absent", "true", "false"}]
    /\ staked_at \in [ASSETS -> Nat]
    /\ last_claim \in [ASSETS -> Nat]
    /\ freeze \in [ASSETS -> {"absent", "frozen", "thawed"}]
    /\ rewards \in [OWNERS -> Nat]
    /\ since \in [ASSETS -> Nat]
    /\ paid \in [ASSETS -> Nat]
    /\ paid_total \in Nat

(* The collection's counter is the number of assets staked, so its floor at zero
   never hides a miscount, and it never exceeds the lifetime counter. *)
CountExact ==
    /\ stats.total_staked = Cardinality(StakedAssets)
    /\ stats.total_staked <= stats.total_staked_lifetime

(* While an asset is staked its two clocks say what happened: staked_at is when it
   was staked, and last_claim is that plus exactly the days already paid for. *)
ClocksExact ==
    \A a \in StakedAssets :
        /\ staked_at[a] = since[a]
        /\ last_claim[a] = since[a] + paid[a] * SECONDS_PER_DAY
        /\ last_claim[a] <= now

(* However often its rewards were claimed in between, an asset that is unstaked has
   stayed staked for the freeze period and has been paid for every whole day of
   the stake, once. *)
UnstakePaysEveryDay ==
    [][\A a \in ASSETS : (staked[a] = "true" /\ staked'[a] # "true") =>
            /\ DaysSince(since[a]) >= config.freeze_period
            /\ paid'[a] = DaysSince(since[a])]_vars

(* Splitting the days of a stake over many claims mints what one claim would: the
   rewards of all wallets together are the rewards of all the days paid for. *)
RewardsAdditive == SumFunction(rewards) = Reward(paid_total)

(* A staked asset is frozen, and somebody owns it. *)
StakedFrozen == \A a \in StakedAssets : freeze[a] = "frozen" /\ owner[a] # None

(* A staked asset stays with the owner that staked it. *)
StakedNeverMoves ==
    [][\A a \in ASSETS : (staked[a] = "true" /\ staked'[a] = "true") =>
            owner'[a] = owner[a]]_vars

(* An owner who keeps asking gets a staked asset back, no matter how often rewards
   are claimed in the meantime (given that the clock runs past its freeze period). *)
EventuallyUnstaked ==
    \A a \in ASSETS :
        (staked[a] = "true"
         /\ staked_at[a] + config.freeze_period * SECONDS_PER_DAY <= MaxTime)
            ~> staked[a] # "true"

=============================================================================
