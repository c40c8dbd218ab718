# TLA+ models and proofs of the Accel programs

This directory holds TLA+ models of the programs in this repository, the TLC
configurations that check them on small instances, and TLAPS proofs of the
properties that matter most, for every value of the constants. `PROJECT.json` maps
every definition to the lines of source it was translated from.

Run `tlc -config X.cfg M` for a row of the table of runs, and `tlapm MProofs.tla`
for the proofs.

## 1. The system

The repository is a set of independent programs: six Solana programs, a
command-line task queue and a storage library. Programs do not call each other; they
meet other programs (SPL Token, the associated token program, MPL Core, TukTuk, the
VRF and GPT oracles, MagicBlock's delegation program) through cross-program calls, and
two of them share a TukTuk queue.

On Solana an instruction runs alone on the accounts it writes and an instruction
that fails is rolled back with everything it called. **An instruction is therefore
one atomic step of a model, and a failing one is no step.** What remains hard is the
order of instructions: anybody may send any of them at any time, accounts are closed
and made again at the same address, and tokens reach a program's accounts without
the program being asked. The task queue is different: its commands are operating
system processes that interleave at every system call and may be killed. And a
delegated account exists twice, in the rollup and on the base layer, with commits on
their way from the one to the other.

| Component | State | Operations | What is hard |
|---|---|---|---|
| `pinocchio-fundraiser` | one Fundraiser account per maker, a Contributor account per contributor and bump, vault token accounts of the fundraiser's address (PDA) | initialize, contribute, check_contributions, refund | records outlive a campaign; any token account of the PDA passes as vault; the caller chooses the record's bump; the vault's balance, not the book value, decides between claim and refund; the deadline; caps and overflow |
| `anchor-core-staking` | attributes and freeze plugin of each asset, counters on the collection, Config account | create_collection, initialize, mint_asset, stake, claim_rewards, unstake | two clocks per stake, repeated claims, stake again after unstake and transfer, rounding of rewards, liveness of the freeze |
| `accel-p-escrow` | one Escrow account per maker and bump, token accounts of its address | make, take, refund | amounts are recorded, balances are not looked at; any token account of the escrow passes; the address is used again |
| `anchor-escrow-q2-2026` | one Escrow account per maker and seed, one vault each | make, take, refund | the amount offered is the vault's balance; several escrows of one maker |
| `persistent-todo` | `todos.bin`, `todos.bin.tmp`, the memory of each process | add, done, list | kills, two processes, one shared temporary name, writes over each other's bytes |
| `whitelist_transfer_hook_q2` | Vault account with up to 16 whitelist entries, Token-2022 mint | initialize_vault, add/remove, mint_tokens, transfer_hook | limits and owners that change between transfers, the full list, both directions of a transfer, a delegate that signs for anybody |
| `er-state-account` | a user account, on the base layer or delegated to a rollup | init, update, update_commit, delegate, undelegate, close, schedule, request/consume randomness | commits taken before the data is stored, commits in flight, callbacks and queued tasks that arrive late |
| `solana-gpt-oracle` | OracleState, treasury; the oracle's contexts and interaction accounts | initialize, create_context, schedule, request_gpt, callback, fund_treasury | queued requests for a context that was replaced, answers out of order, an empty treasury, ids of a shared queue |
| `generic-storage` | one byte buffer | save, load, convert | none of the kinds a model shows |
| cron clients, TypeScript tests, migrations | - | - | clients of the above |

The properties that make each modelled component correct are listed with its module
below; the hazards they answer to are in `PROJECT.json`.

## 2. Modules

| Module | What it is |
|---|---|
| `Fundraiser`, `MCFundraiser`, `FundraiserProofs` | the fundraiser, its instances, its proofs |
| `Staking`, `MCStaking`, `StakingProofs` | the staking program |
| `TodoQueue` | abstract: a FIFO queue of numbered tasks |
| `TodoStore`, `MCTodoStore`, `TodoStoreProofs` | the task queue on files; implements `TodoQueue` |
| `AtomicSwap` | abstract: offers that are taken or refunded in one step |
| `AccelEscrow`, `MCAccelEscrow`, `AccelEscrowProofs` | the Pinocchio escrow; implements `AtomicSwap` |
| `AnchorEscrow`, `MCAnchorEscrow`, `AnchorEscrowProofs` | the Anchor escrow; implements `AtomicSwap` |
| `GatedVault` | abstract: tokens move in or out of a vault, within a limit per person |
| `TransferHook`, `MCTransferHook`, `TransferHookProofs` | the transfer hook; implements `GatedVault` |
| `Register` | abstract: one value that only writes change |
| `DelegatedState` | er-state-account, base layer and rollup; implements `Register` |
| `GptOracle` | the GPT program |
| `SharedQueue`, `MCSharedQueue`, `DelegatedStateProofs` | both programs over one TukTuk queue; their proofs |
| `SumTheorems` | lemmas on sums over finite sets, for the proofs about tokens and rewards |

Operators whose comment begins with `bug:` are not part of a specification: each
gives another definition the form a plausible mistake would, and is used to confirm
that a property notices it (`PROJECT.json`, `mutants`).

### Fundraiser

One maker, followed through any number of campaigns at the same PDA. `Initialize`,
`Contribute`, `CheckContributions` and `Refund` are the four instructions, each with
all its guards; `vault` gives the balance of each token account whose owner is the
PDA (`"ata"`, the associated one, and `"aux"`, any other), because
`validate_token_account` compares owner and mint but not the address. A record
(`RECORDS`) belongs to a contributor and a bump: `verify_contributor_pda` checks that
the address is derived with the bump the caller gave, not that it is the canonical
one, so that a contributor may hold several. `DirectDeposit`, `OpenTokenAccount`
(of the associated account too, before the campaign or after it) and `Tick` are the
outside world. The caps keep the code's integer arithmetic: `checked_mul` is the guard
`MaxContributionDefined`, the division truncates.

Four variables are history: `carried`, what the records held when the campaign began;
`aside`, what it was paid into other accounts than the associated one; `refunded`,
whether it has paid anybody back; `drained`, the accounts it did so from that nobody has
topped up since by a transfer of their own.

- `Solvent`: the PDA's token accounts together back the recorded total.
- `WalletsWhole`: a wallet plus its records is constant, over all campaigns.
- `CurrentAmountExact`: the total is the sum of the records, less what they carried
  over from earlier campaigns.
- `CapRespected`: a record over the cap is an old one that was not paid into since. It
  says nothing of several records of one wallet, and neither does the code.
- `DeadTargetNeverFunded`: targets under ten units, or too large to multiply, are
  accepted by initialize and never funded.
- `NoFundingAfterRefund`: a campaign that has paid one contributor back only shrinks.
- `AllOrNothing`: an account that has paid a refund is not claimed, unless somebody
  topped it up since. Of several accounts one may pay refunds and another be claimed,
  and a transfer from outside may fill an account again; the code allows both.
- `ShortageExplained`: what the associated account lacks to refund everybody was paid
  into another account, or into an earlier campaign. With contributions to the
  associated account alone, and no old records, no due refund fails for want of tokens.

Two properties are false, and say so in runs of their own (section 4):
`RefundAlwaysAvailable`, that whoever paid into a campaign can be paid back, and
`NothingStranded`, that a claim leaves the associated account closed.

### Staking

One collection. The plugins of each asset are functions of the asset (`staked`,
`staked_at`, `last_claim`, `freeze`); the counters are `stats`; the rewards account
of each wallet is `rewards`. `paid` and `since` are history: days paid for, and the
time of the last stake. A claim of less than a day is no step, as in the code.
`Transfer` is MPL Core's rule that a frozen asset stays. The loops over attribute
lists are reduced to the three attributes they treat; `Reward` truncates as
`checked_div` does.

- `ClocksExact`, `UnstakePaysEveryDay`: every whole day of a stake is paid for once,
  however claims are spread, and the freeze period is served.
- `RewardsAdditive`: truncation loses nothing over many claims, given that the
  rewards mint's unit (10^6) is a multiple of 10000.
- `CountExact`: `total_staked` is the number of staked assets, so its floor at zero
  never acts.
- `StakedNeverMoves`: a staked asset stays with its owner.
- `EventuallyUnstaked`: an owner who keeps asking gets the asset back.

Fairness (`FairSpec`): weak fairness of the clock, which the cluster advances, and of
each asset's `Unstake`: its owner keeps sending the instruction. Nothing else is
assumed to happen; claims by the owner may come in between as often as they like.
The property speaks of stakes whose freeze period ends within the clock's bound.

### TodoStore and TodoQueue

`TodoQueue` is the promise: `Add` appends the next id, `Done` removes the oldest.
`TodoStore` is what runs: `Add` and `Done` load and change the queue in memory,
`OpenTmp` and `WriteTmp` are the two halves of `fs::write` (truncate, then write),
`Rename` and `RenameFails` are `fs::rename`. Names (`bin`, `tmp`) refer to files as
directory entries do, so that a process keeps writing to the file it opened after
another one has renamed it. A file is the sequence of fields that Borsh writes
(`Encode`): the counter, the length of the queue, the tasks, each by its id. `Decodable`
is `try_from_slice`, which wants every byte and no more. A process writes from the start
of the file it truncated earlier, and what another one has put there meanwhile stays
behind its bytes (`Overlay`): a short store over a long one, or the beginning of one
store over another. `Crash` ends a process anywhere, perhaps with some of its fields
written. The mapping is the content of `todos.bin`; `Rename` is the step that counts,
every other step is a stutter.

- `QueueSpec`, `EachOnceInOrder`: with one process, kills included, commands take
  effect at their rename or not at all, and every task is completed once and in order.
- `SnapshotsConsistent`: with any number of processes, whatever decodes is one
  consistent store: ids increase and lie below the counter. One thing breaks this, and
  the history variable `mixed` records it: a process killed in its write over bytes that
  another one has put into the same file. The counter of the one followed by the tasks of
  the other may decode, with ids that are not below the counter.

A cut falls between two fields. A cut within a field mixes the bytes of two numbers; it
is the same case, with more values. An uninterrupted write is one step, as it is one
`write` call. Texts are left out, and with them their lengths: two stores with as many
tasks are equally long in the model, which is when mixing can decode.

### AtomicSwap, AccelEscrow, AnchorEscrow

`AtomicSwap` holds offers and the balances of wallets: `Make` sets tokens aside,
`Take` exchanges both sides and `Refund` gives the maker's back. `TopUp` and `Lose` say
where tokens that others send to the program's accounts may go: to whoever ends up
with the offer, or out of reach.

`AccelEscrow` records both amounts in the account; the refinement is the identity on
escrows and balances, a direct deposit is `Lose`. `token_account` and `vault` give the
token accounts of each escrow's address by mint and kind. An address (`Addresses`) is a
maker and a bump, as `make` takes any bump that derives one. `Withdraw` is the common end
of take and refund: the transfer of the recorded amount and the `CloseAccount` that
fails unless this was the whole balance, hence its guard `vault = give`.
- `VaultExact`: the associated account of an open escrow holds the promise plus what
  others sent to it since (`donated`), whatever accounts earlier escrows at that address
  used.
- `Conserved`: no instruction creates or destroys tokens.
- `SwapSpec`: each instruction is a step of the swap or no step.

`AnchorEscrow` does not record the amount offered: `Offered` maps an escrow and the
balance of its vault to one offer, and a direct deposit is `TopUp`. Here take and
refund move the whole balance (`Moved`), so that `Close`, which the token program
refuses while anything is left, cannot be blocked by a deposit. Anchor may
refuse instructions that name one account twice (equal mints, or a maker that takes
its own offer); the model lets them through, so that the safety properties hold
with and without that refusal.

### GatedVault and TransferHook

`TransferHook` has the program's instructions (`InitializeVault`,
`InitializeTransferHook`, `AddToWhitelist`, `RemoveFromWhitelist`, `MintTokens`) and
the two Token-2022 instructions that matter to it: `Transfer`, which runs
`ExecuteHook` before any token moves, and `SetOwner`, by which an account that is not
an associated one changes hands. The mint has the admin as permanent delegate, so the
admin may sign for any source. The whitelist is the sequence the code keeps, with
`find` and `position` as `Position`, the first entry of a user. A transfer of an
account to itself is left out because Token-2022 returns from it before calling the
hook, and it moves nothing. `admin` and the accounts are made once; the vault's address
(`VaultPda`) may own further accounts and be listed, as nothing forbids it.

- `GateSpec`: the program implements `GatedVault`, whose state is a table of limits. A
  transfer is a deposit or a withdrawal of the other side's owner at that moment, an
  update replaces the limit, and a removal leaves none.
- `SlotsExact`: the length of the list is the number of users that may move tokens,
  which is what makes "full" mean what the error says.
- `AdditionsAccepted`: the admin's addition is enabled for every listed user, full list
  or not, and for a new one while there is room. `GateSpec` cannot say this: a program
  that refuses every addition implements the gate as well.

The limit is one per transfer, in the code as in `GatedVault`: it is not used up.

### Register, DelegatedState, GptOracle, SharedQueue

`DelegatedState` follows the account of one user. `account` is what the base layer has,
`copy` what the rollup has, `layer` says who may write: `"base"`, `"rollup"`, or nobody
while it is `"leaving"` after `Undelegate`. `flight` are commits that have not landed.
`update_commit` calls `commit_accounts` before Anchor stores the new data (there is no
`exit` before the call), so the rollup may pick up the old or the new data: `UpdateCommit`
chooses. `Land` lets a commit land, and those before it with it. `version` numbers the
writes, for the properties only. `Write` is common to `Update`, `UpdateCommit`,
`ConsumeRandomUpdate` (the answer to one earlier `RequestRandomUpdate` of that layer) and
`ScheduledUpdate`, which anybody may send (`SendScheduledUpdate`) and TukTuk sends when a
task runs (`RunTask`). `OtherTask` is what other users of the queue may do.

- `RegisterSpec`: seen through the layer it lives on, the account is a register.
  Delegation, undelegation, commits that land and tasks that come and go change nothing,
  and the VRF writes no more often than it was asked.
- `BaseNeverGoesBack`: the base layer may be behind but never goes back.
- `ComesBack`: an account that was undelegated comes back to the base layer.

`GptOracle` has `oracle_state` and the `treasury` of the program, the oracle's
`descriptions` (one for each context, in the order of its counter) and `interactions`
(one for each context, as the treasury is always the payer), and the queue's `tasks`,
where a task is the context it was compiled for. Texts are their lengths.
`InteractWithLlm` is what the code relies on: the interaction takes the new text, its
answer is outstanding again, and the treasury pays what rent is missing, if it can.
A wallet or the TukTuk queue is `task_queue_authority`; the first sends requests itself,
the second has tasks run. That the queue's authority signs for a task is what
`src/solana_gpt_oracle_tuktuk/README.md` relies on, and is not in the code.
`ProcessOracleCallback` asks only who signs; that the oracle answers an interaction once
(`Answer`), and that an answer to another client may name this program (`AnswerOther`),
is the oracle's doing and modelled outside.

- `PromptsMatch`: no agent is asked a prompt other than its own.
- `StaleTasksInert`: once the program has another context, a task of the old one asks
  nobody, and stays stale until it is dropped.
- `GptTypeOK`: also that texts fit their accounts, and the treasury keeps its rent.

`SharedQueue` composes the two over one `tasks`: callers choose the queue, and the scripts
of both `Anchor.toml` name the same one. An id is free (`IdFree`) when TukTuk can create
the task's account. That the account's program behaves in the composition as it does
alone is no property of the code, as neither program can touch the other's state; it is a
lemma by which its theorems carry over.

Fairness (`Fairness` of `SharedSpec`): weak fairness of `LandSome`, that commits reach
the base layer some day, which is the rollup's service. Nobody is assumed to send an
instruction, to run a task or to answer.

## 3. Runs

| Run | Instance | Shows |
|---|---|---|
| `fundraiser_vaults` | 2 contributors with 2 records each, 2 token accounts, targets 14 (20 is the smallest that can be funded), 20, 40 and 60 (overflow), unit 2, 2-second days, 4 seconds, 40 tokens from outside | the books stay exact, backed and capped; what refunds and claims may do to each other |
| `fundraiser_stale_record` | the same, one token account | a record of a claimed campaign blocks a refund of the next (violation) |
| `fundraiser_stranded` | the same, 2 token accounts | a claim through another account leaves the associated one open (violation) |
| `staking` | 2 assets, 2 wallets, 8 seconds of 2-second days, 3 stakes, freeze periods 0 and 2, half a unit per day | clocks, counters, rewards, and the liveness of unstake |
| `todo_sequential` | 1 process, 4 tasks, 4 completions, kills | implements the queue |
| `todo_concurrent` | 2 processes, 3 files, ids below 2, 3 completions, kills | whatever decodes is consistent, but for one kind of kill |
| `todo_torn` | the same | a truncated file is renamed into place (violation) |
| `accel_escrow` | 2 wallets with one token of each of 2 mints, one maker, 2 bumps, amounts 0 and 1, 2 token accounts per address and mint | vaults exact, tokens conserved, swap implemented |
| `accel_escrow_dust` | one bump, one token account per mint, amounts 1 and 2 | a direct deposit blocks the refund (violation) |
| `anchor_escrow` | 2 wallets, one maker, 2 seeds, 2 mints, amounts 0 to 2 | tokens conserved, swap implemented |
| `transfer_hook` | 2 wallets and the vault's key on a list of 2, 2 accounts and the vault's, amounts 0 to 2, 2 tokens | gated vault implemented, no slot wasted, no addition refused but for room |
| `shared_queue` | 1 id, data 0 and 1, 3 writes, 2 commits in flight, 1 request per layer; 2 contexts, 2 requests, texts of 1 to 3 with a prompt of at most 2 and an answer of at most 1, a treasury of at most 5 with rent 2 | register implemented, base copy in order, prompts kept apart, the account comes back |

Why the bounds are enough. Two contributors cannot fill a target at ten percent each;
transfers from outside fill it for them, so that campaigns are claimed and opened again,
before the end and after refunds, and the theorems of section 5 cover contributors in
numbers that need no help. Two records of one contributor, two accounts and two
campaigns are enough for every mix of them. Two-second days separate "a day" from "a
tick", so partial days occur; four days cover a freeze period of two days, several
claims, and a second stake. Two processes are the least that can share the temporary
file, with one file more than processes so that a new name never lacks one; two tasks
give stores of the same length with different counters, which is what mixes. One maker
with two wallets and two mints is enough for two escrows in a row to meet left-over
accounts; two seeds, or two bumps, are enough for two escrows to interleave. Three keys
and two entries are the least with which a list is full and somebody is turned away, and
a removal from its front moves another entry. Two commits in flight are the least that
can land out of order, and three writes let an account be written, committed and written
again before it is handed back; one id of the queue makes every task of one program meet
one of the other; a second context is what makes a task stale, and a treasury of 5 pays
for one text and not always for the next. In the runs with symmetry the permuted values
are named by no property, and none of those runs checks liveness. `CHECK_DEADLOCK FALSE`
is set where the system may really stop: when clocks and supplies are exhausted, all
tasks were added and completed, or the writes are used up.

Bounds in the guards: `MaxTime` (both clocks), `MaxStakes` (stake instructions),
`MaxTodos` (ids, and the length of the queue), `MaxDone` (completions), `DonorFunds`,
`Endowment` and `MaxSupply` (supplies), `MaxWrites`, `MaxCommits`, `MaxRequests` (user
account), `MaxContexts`, `MaxAsked`, `MaxFunds` (GPT program).

## 4. What the violations say

Each is a disagreement of the code with a line of the repository, quoted in
`PROJECT.json` under `findings`:

1. A claim leaves Contributor accounts open; the next campaign at the same address
   adds to them, and a contributor's refund then asks for more than the vault holds.
2. A claim closes the token account its caller names. Through a second account of the
   campaign it leaves the associated one open, and the next `initialize`, which must
   create that account, fails from then on. An associated account that anybody opens
   before the first `initialize` has the same effect.
3. The comment on `save` calls the write atomic; with two processes it is not.
4. The Pinocchio escrow's refund (and take) cannot close an account that holds more
   than was recorded. The Anchor escrow has no such state.

One more disagreement is harmless and has no run:
`src/programs/anchor-core-staking/src/constants.rs:15` says that `last_claim` is advanced
by unstake, and `unstake.rs:154` sets it to 0. Nothing is paid twice because of this:
`UnstakePaysEveryDay` and `ClocksExact` hold.

## 5. Proofs

All theorems hold for every value of the constants that satisfies the named
assumptions, among them any number of contributors, bumps, assets, makers, seeds, mints
and processes, and any bounds.

- **FundraiserProofs.** `TypeCorrect` is inductive because the record/amount equivalence
  in it is: contributions are at least one unit, refunds close the record. `Solvency`
  needs types and the fact that claims close the campaign; `Wholeness` and `Capped` are
  inductive with the types. `DeadTargets` follows from the guards, by the arithmetic of
  ten percent. `RefundsEndFunding` needs that a campaign that refunded somebody has
  ended, and that `has_ended` is stable. `ClaimXorRefund` rests on the invariant
  `DrainedShort`: an account that has paid a refund and was not topped up since is short
  of the target, in a campaign that has ended; contributions, to whichever account, are
  then over. `TotalIsExact` is inductive with the types: contribute and refund change
  one term of the sum of the records, and the total by the same amount.
  `RefundsRunDryOnlyAside` adds that the associated account and what was paid aside
  cover the total (`CoveredButAside`), and replaces the total by the records.
  `ShortageIsCarried` says the same of all accounts together, from `Solvency`. None of
  these assumes anything about which token accounts exist or what donors do.
  `TokensConserved` accounts for every token of the mint over all campaigns; it needs
  that a token account that does not exist, or was closed by a claim, is empty.
- **StakingProofs.** The inductive invariant is types, `ClocksExact`, and
  `StakedFrozen` (a staked asset is frozen and owned). From it follow
  `EveryDayPaidOnce` and `StakedStays`. `CounterExact` adds that `total_staked` is the
  cardinality of the set of staked assets, with the library's lemmas on adding and
  removing one element. `ClaimsAdditive` adds that what one claim mints is the reward of
  its days without a remainder, which is where `UNIT` must be a multiple of 10000.
  `DueAlwaysGranted` and `DueStays` are the safety half of `EventuallyUnstaked`: an asset
  that is staked, whose freeze period is over, meets every guard of `Unstake` for its
  owner, and goes on doing so until it is unstaked. The first assumes that the rewards of
  the longest stake the clock allows fit a `u64`; without that the checked
  multiplication refuses the unstake for good.
- **TodoStoreProofs.** `SnapshotsStayConsistent` strengthens `SnapshotsConsistent` with
  the same of every process's memory: content only ever comes from there. Its core is
  what a write can leave behind (`PutConsistent`): all fields of a store over other
  bytes decode only as that store, and a part of them decodes only over other bytes.
  `StoreImplementsQueue` assumes one process; its invariant says that the store decodes,
  that a process between its write and its rename finds its own bytes in the temporary
  file, and that these are one queue step away from what is stored. `StoreKeepsOrder`
  follows from the refinement and `QueueKeepsOrder`, the same property of the abstract
  queue.
- **AccelEscrowProofs.** The invariant is types (with "an account that does not exist is
  empty", which is what makes a new associated account start at zero) and `VaultExact`.
  `ImplementsSwap` maps make, take and refund to the steps of the same name; refund
  needs `escrow[a].maker = Maker(a)` from the invariant. `TokensConserved` counts a
  mint's tokens in wallets and in the token accounts of escrows (`Held`), and takes the
  step of each instruction as a transfer of one amount between two of the sums.
- **AnchorEscrowProofs.** Types, with "the vault of an escrow that is not open is
  empty", are inductive and enough for `ImplementsSwap`; its core is that closing and
  depositing change exactly one entry of `Offered`. `TokensConserved` counts a mint's
  tokens in wallets and in the vaults of the escrows that offer this mint (`Offering`),
  a set that grows and shrinks with `make`, `take` and `refund`.
- **TransferHookProofs.** The invariant adds to the types that no user has two entries
  and no entry allows 0; with two entries a removal would leave a limit behind. From it
  follow `NoSlotWasted`, where adding and removing an entry adds and removes one element
  of the set of allowed users, and `ImplementsGate`, where lemmas say what each operation
  on the list does to the table of limits.
- **DelegatedStateProofs.** The account's invariant says that versions in flight never
  decrease, lie between what the base layer has and what the rollup has, and that only
  the youngest commit can be the last, with the copy as it is; hence
  `ImplementsRegister` (a last commit hands back what the rollup had) and
  `NeverGoesBack`. The lemma `Undisturbed` lifts both to the composition, because every
  step of the GPT program is a step `OtherTask` or a stutter. The GPT invariant says
  that the program's prompt is the description of its context and that tasks name
  contexts that exist; it gives `SharedPrompts` and `SharedStale`.
  `SharedCommitsNotLost` says that a commit in flight stays there until the base layer
  has it or something newer. `SharedWayBack` is the safety half of `ComesBack`: an
  account that is leaving has its last commit in flight. What the liveness property adds
  is only that commits do land.
- **SumTheorems.** What the proofs about tokens and rewards need of the library's sum of
  a function over a finite set: the sum over no element, over one more or one fewer,
  after a change of one or two values, that one term is at most the sum of
  non-negative ones, and that tables of amounts may be added by columns. The library
  defines the sum by a fold that takes the elements in an order of its choice. The
  induction that makes the order irrelevant is over the finite subsets of a set, stated
  for a *set* of subsets instead of a predicate (`WellFoundedInduction` gives a minimal
  element of those left out), because a theorem with a predicate parameter cannot be used.

Assumptions of constants are those named `...Assumption` in each module: amounts,
supplies and bounds are naturals, the marks for "no account" are no accounts, `UNIT` is
a multiple of 10000 in `Staking`. `CONTRIBUTORS`, `ASSETS`, `OWNERS`, `PEOPLE`, `Vaults`,
`BUMPS` and `SEEDS` are finite: at any time there are finitely many accounts, a bump is a
byte and a seed a `u64`. TLC evaluates the assumptions in the runs.

Only model-checked: `EventuallyUnstaked` and `ComesBack`, since liveness is out of the
prover's reach, and `AdditionsAccepted`, since `ENABLED` is. Every other property of the
passing runs is a theorem. The properties of the four runs that expect a violation are
false, and so not theorems.

## 6. What the models leave out

- Lamports, rent and byte layouts, signature checks (an instruction's signer is its
  parameter), addresses: a PDA is identified with what it is derived from. Where a
  caller chooses the bump (`contribute`, `make` of the Pinocchio escrow) it is part of
  that; where the code fixes it, it is left out. `initialize` of the fundraiser takes a
  bump as well: campaigns of one maker at different addresses share nothing, and one is
  followed.
- One mint per fundraiser. Contributors are not the maker.
- An associated token account of the Anchor escrow's address that somebody created before
  the program did (`make` would fail); `AccelEscrow` and `Fundraiser` have it.
- Transfer fees and other extensions of Token-2022 mints.
- For the transfer hook: burning and closing token accounts, which call no hook; freezing;
  a change of the mint's own authorities (the vault has no instruction for it).
- For the user account: users other than one; how MagicBlock and the VRF work inside. The
  program's `initialize` and `close` are left to the base layer, as a rollup neither makes
  nor removes accounts. What the VRF delivers is any value of `DATA`.
- For the GPT program: what other clients of the oracle ask it, but not their answers
  that name this program; contexts that others create; rewards, trigger times and free
  slots of TukTuk tasks. Contexts of the oracle are counted by its counter, and this
  program's are followed alone.
- MPL Core beyond ownership, the three attributes and the freeze; burning an asset. The
  authority of the freeze plugin is one of these things: MPL Core takes it from the
  program when the asset is transferred, and a second stake that meets the old plugin
  (`stake.rs:145`) may then be refused. The model lets every such stake succeed, so that
  what holds of it holds with and without the refusal; that a second stake is possible
  is not shown.
- The clock never runs backwards.
- For the task queue: task texts and times, `list`, loss of power (no fsync is
  modelled), a path that does not end in `.bin`. Reading the file is one step.

## 7. Plan

Done, in the order of how much can go wrong: Fundraiser, Staking, TodoStore with
TodoQueue, the two escrows with AtomicSwap, TransferHook with GatedVault, and
DelegatedState and GptOracle with Register over one queue.

Left, each of them an addition to a module that exists:

1. An abstract `Pledge` for Fundraiser: a contributor's tokens are in the wallet,
   pledged, or collected; the fundraiser implements it while no record is carried over.
2. Contexts that others create, in `GptOracle`.
3. The authority of the freeze plugin, in `Staking`.

`generic-storage`, the cron clients and the TypeScript sources stay out: a sequential
object around three external serializers, straight-line set-up code, and tests.
