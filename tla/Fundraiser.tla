----------------------------- MODULE Fundraiser -----------------------------
(***************************************************************************)
(* The pinocchio-fundraiser program: a maker opens a campaign for one      *)
(* mint, contributors pay tokens into a vault owned by the campaign's      *)
(* program-derived address (PDA), the maker claims the vault once it holds *)
(* the target, and contributors take their contributions back when the     *)
(* campaign has ended short of it.                                         *)
(*                                                                         *)
(* The module follows ONE maker, hence one fundraiser PDA, through any     *)
(* number of campaigns: a claim closes the fundraiser account and the      *)
(* maker may initialize it again at the same address.  The contributors'   *)
(* records live at addresses derived from that PDA, so they outlive a      *)
(* campaign.  A record's address also depends on a bump, which the caller  *)
(* of contribute chooses: one contributor may hold several records.        *)
(*                                                                         *)
(* An instruction is one atomic step; an instruction that returns an error *)
(* is rolled back by the runtime and is therefore no step at all.          *)
(***************************************************************************)
EXTENDS Integers, FiniteSets, Functions

CONSTANTS
    CONTRIBUTORS,   \* wallets that may contribute, all different from the maker
    BUMPS,          \* contributor_bump arguments that give an address
    AMOUNTS,        \* amounts a contributor asks to pay
    DEPOSITS,       \* amounts transferred or minted to a vault directly
    TARGETS,        \* amount_to_raise arguments the maker may choose
    DURATIONS,      \* duration arguments (days) the maker may choose
    UNIT,           \* pow10(mint.decimals()): one whole token
    MaxU64,         \* largest u64
    SecondsPerDay,  \* SECONDS_TO_DAYS
    Vaults,         \* token accounts of the PDA in use: the ATA, maybe another
    Endowment,      \* tokens each contributor starts with
    DonorFunds,     \* tokens that may reach a vault by a plain token transfer
    MaxTime         \* bound of the clock

ASSUME FundraiserAssumption ==
    /\ IsFiniteSet(CONTRIBUTORS) /\ IsFiniteSet(BUMPS)
    /\ AMOUNTS \subseteq Nat
    /\ DEPOSITS \subseteq Nat
    /\ TARGETS \subseteq 0..MaxU64
    /\ DURATIONS \subseteq Nat
    /\ UNIT \in Nat \ {0}
    /\ MaxU64 \in Nat
    /\ SecondsPerDay \in Nat \ {0}
    /\ "ata" \in Vaults /\ Vaults \subseteq {"ata", "aux"}
    /\ Endowment \in Nat
    /\ DonorFunds \in Nat
    /\ MaxTime \in Nat

VARIABLES
    now,                  \* the cluster clock, in seconds
    fundraiser,           \* the Fundraiser account; open iff owned by the program
    contributor_account,  \* Contributor accounts that exist
    contributor_amount,   \* their amount fields, 0 when they do not exist
    token_account,        \* token accounts of the PDA that exist
    vault,                \* their balances
    wallet,               \* balance of each contributor
    maker_balance,        \* balance of the maker
    donor_balance,        \* balance of everybody else
    carried,              \* history: the records' amounts when the campaign began
    aside,                \* history: paid into other accounts in this campaign
    refunded,             \* history: has this campaign refunded anybody?
    drained               \* history: accounts it refunded from, not topped up since

vars == <<now, fundraiser, contributor_account, contributor_amount, token_account,
          vault, wallet, maker_balance, donor_balance, carried, aside, refunded, drained>>

history == <<carried, aside, refunded, drained>>

---------------------------------------------------------------------------
(* Constants and helpers of the code. *)

\* Addresses of Contributor accounts.
RECORDS == CONTRIBUTORS \X BUMPS

Holder(r) == r[1]

MIN_AMOUNT_TO_RAISE == 3
MAX_CONTRIBUTION_PERCENTAGE == 10
PERCENTAGE_SCALER == 100

Closed == [open |-> FALSE, amount_to_raise |-> 0, current_amount |-> 0,
           time_started |-> 0, duration |-> 0]

\* A duration of 0 never ends.
has_ended ==
    /\ fundraiser.duration # 0
    /\ (now - fundraiser.time_started) \div SecondsPerDay >= fundraiser.duration

\* checked_mul: the cap exists only when the product fits a u64.
MaxContributionDefined ==
    fundraiser.amount_to_raise * MAX_CONTRIBUTION_PERCENTAGE <= MaxU64

max_contribution ==
    (fundraiser.amount_to_raise * MAX_CONTRIBUTION_PERCENTAGE) \div PERCENTAGE_SCALER

\* bug: the cap is checked against the payment alone
WithinCap_payment_only(r, amount) == amount <= max_contribution

\* Both caps: on the payment and on the record's running total.
WithinCap(r, amount) ==
    /\ amount <= max_contribution
    /\ contributor_amount[r] + amount <= max_contribution

\* validate_token_account: any existing token account of the right owner and
\* mint will do; that it is the associated one is never checked.
ValidVault(v) == v \in token_account

---------------------------------------------------------------------------

Init ==
    /\ now = 0
    /\ fundraiser = Closed
    /\ contributor_account = {}
    /\ contributor_amount = [r \in RECORDS |-> 0]
    /\ token_account = {}
    /\ vault = [v \in {"ata", "aux"} |-> 0]
    /\ wallet = [c \in CONTRIBUTORS |-> Endowment]
    /\ maker_balance = 0
    /\ donor_balance = DonorFunds
    /\ carried = [r \in RECORDS |-> 0]
    /\ aside = 0
    /\ refunded = FALSE
    /\ drained = {}

(* process_initialize: fails while the account is open, or when the vault's
   associated account already exists (Create is not the idempotent variant). *)
Initialize(amount, duration) ==
    /\ ~fundraiser.open
    /\ MIN_AMOUNT_TO_RAISE * UNIT <= MaxU64
    /\ amount > MIN_AMOUNT_TO_RAISE * UNIT
    /\ "ata" \notin token_account
    /\ token_account' = token_account \cup {"ata"}
    /\ fundraiser' = [open |-> TRUE, amount_to_raise |-> amount, current_amount |-> 0,
                      time_started |-> now, duration |-> duration]
    /\ carried' = contributor_amount
    /\ aside' = 0
    /\ refunded' = FALSE
    /\ drained' = {}
    /\ UNCHANGED <<now, contributor_account, contributor_amount, vault, wallet,
                   maker_balance, donor_balance>>

\* bug: the campaign's own total is not updated
Accept_no_total(r, amount) == UNCHANGED fundraiser

\* The two account writes that follow the transfer.
Accept(r, amount) ==
    fundraiser' = [fundraiser EXCEPT !.current_amount = @ + amount]

\* bug: the deadline is not looked at
ContributeGuard_late(r, amount) ==
    /\ fundraiser.open
    /\ amount >= UNIT
    /\ MaxContributionDefined
    /\ WithinCap(r, amount)

\* bug: dust is accepted
ContributeGuard_dust(r, amount) ==
    /\ fundraiser.open
    /\ ~has_ended
    /\ MaxContributionDefined
    /\ WithinCap(r, amount)

ContributeGuard(r, amount) ==
    /\ fundraiser.open
    /\ ~has_ended
    /\ amount >= UNIT
    /\ MaxContributionDefined
    /\ WithinCap(r, amount)
    /\ fundraiser.current_amount + amount <= MaxU64

(* process_contribute: creates the contributor's record on first use, moves the
   tokens, then adds the payment to the campaign's total and to the record. *)
Contribute(r, amount, v) ==
    /\ ContributeGuard(r, amount)
    /\ ValidVault(v)
    /\ amount <= wallet[Holder(r)]
    /\ wallet' = [wallet EXCEPT ![Holder(r)] = @ - amount]
    /\ vault' = [vault EXCEPT ![v] = @ + amount]
    /\ Accept(r, amount)
    /\ contributor_account' = contributor_account \cup {r}
    /\ contributor_amount' = [contributor_amount EXCEPT ![r] = @ + amount]
    /\ aside' = IF v = "ata" THEN aside ELSE aside + amount
    /\ UNCHANGED <<now, token_account, maker_balance, donor_balance, carried,
                   refunded, drained>>

CloseVault(v) == token_account' = token_account \ {v}

(* process_check_contributions: the maker claims the whole vault, whatever the
   clock says, and closes vault and fundraiser.  The contributors' records stay. *)
CheckContributions(v) ==
    /\ fundraiser.open
    /\ ValidVault(v)
    /\ vault[v] >= fundraiser.amount_to_raise
    /\ maker_balance' = maker_balance + vault[v]
    /\ vault' = [vault EXCEPT ![v] = 0]
    /\ CloseVault(v)
    /\ fundraiser' = Closed
    /\ UNCHANGED <<now, contributor_account, contributor_amount, wallet,
                   donor_balance, history>>

\* bug: the record survives its refund
CloseRecord_forgotten(r) == UNCHANGED <<contributor_account, contributor_amount>>

CloseRecord(r) ==
    /\ contributor_account' = contributor_account \ {r}
    /\ contributor_amount' = [contributor_amount EXCEPT ![r] = 0]

\* bug: the campaign's total keeps what was paid back
Release_forgotten(r) == UNCHANGED fundraiser

Release(r) ==
    fundraiser' = [fundraiser EXCEPT !.current_amount = @ - contributor_amount[r]]

\* bug: refunds do not wait for the end
RefundGuard_early(r, v) ==
    /\ fundraiser.open
    /\ r \in contributor_account
    /\ vault[v] < fundraiser.amount_to_raise

RefundGuard(r, v) ==
    /\ fundraiser.open
    /\ r \in contributor_account
    /\ has_ended
    /\ vault[v] < fundraiser.amount_to_raise

\* What the transfer and the checked_sub of the refund need.
RefundCovered(r, v) ==
    /\ contributor_amount[r] <= vault[v]
    /\ contributor_amount[r] <= fundraiser.current_amount

(* process_refund: pays the record's amount back and closes the record. *)
Refund(r, v) ==
    /\ RefundGuard(r, v)
    /\ ValidVault(v)
    /\ RefundCovered(r, v)
    /\ wallet' = [wallet EXCEPT ![Holder(r)] = @ + contributor_amount[r]]
    /\ vault' = [vault EXCEPT ![v] = @ - contributor_amount[r]]
    /\ Release(r)
    /\ CloseRecord(r)
    /\ refunded' = TRUE
    /\ drained' = drained \cup {v}
    /\ UNCHANGED <<now, token_account, maker_balance, donor_balance, carried, aside>>

---------------------------------------------------------------------------
(* The world outside the program. *)

\* Anybody may transfer or mint tokens straight into a token account of the PDA.
DirectDeposit(v, amount) ==
    /\ v \in token_account
    /\ amount \in 1..donor_balance
    /\ donor_balance' = donor_balance - amount
    /\ vault' = [vault EXCEPT ![v] = @ + amount]
    /\ drained' = drained \ {v}
    /\ UNCHANGED <<now, fundraiser, contributor_account, contributor_amount,
                   token_account, wallet, maker_balance, carried, aside, refunded>>

\* Anybody may open token accounts whose owner is the PDA, before initialize the
\* associated one too.
OpenTokenAccount(v) ==
    /\ token_account' = token_account \cup {v}
    /\ UNCHANGED <<now, fundraiser, contributor_account, contributor_amount, vault,
                   wallet, maker_balance, donor_balance, history>>

Tick ==
    /\ now < MaxTime
    /\ now' = now + 1
    /\ UNCHANGED <<fundraiser, contributor_account, contributor_amount, token_account,
                   vault, wallet, maker_balance, donor_balance, history>>

Next ==
    \/ \E amount \in TARGETS, duration \in DURATIONS : Initialize(amount, duration)
    \/ \E r \in RECORDS, amount \in AMOUNTS, v \in Vaults : Contribute(r, amount, v)
    \/ \E v \in Vaults : CheckContributions(v)
    \/ \E r \in RECORDS, v \in Vaults : Refund(r, v)
    \/ \E v \in Vaults, amount \in DEPOSITS : DirectDeposit(v, amount)
    \/ \E v \in Vaults : OpenTokenAccount(v)
    \/ Tick

Spec == Init /\ [][Next]_vars

---------------------------------------------------------------------------
(* Properties. *)

\* All the records of a contributor.
RecordsOf(c) == {c} \X BUMPS

(* Every variable has its type, and a contributor's record exists exactly when
   it holds something: the record that Contribute creates before its checks is
   rolled back with them when one fails. *)
TypeOK ==
    /\ now \in Nat
    /\ fundraiser \in [open : BOOLEAN, amount_to_raise : Nat, current_amount : Nat,
                       time_started : Nat, duration : Nat]
    /\ contributor_account \in SUBSET RECORDS
    /\ contributor_amount \in [RECORDS -> Nat]
    /\ \A r \in RECORDS : r \in contributor_account <=> contributor_amount[r] > 0
    /\ token_account \in SUBSET Vaults
    /\ vault \in [{"ata", "aux"} -> Nat]
    /\ wallet \in [CONTRIBUTORS -> Nat]
    /\ maker_balance \in Nat
    /\ donor_balance \in Nat
    /\ carried \in [RECORDS -> Nat]
    /\ aside \in Nat
    /\ refunded \in BOOLEAN
    /\ drained \in SUBSET Vaults

(* The campaign's book value is backed by tokens: what the open campaign says it
   holds is in the token accounts of its PDA, whichever of them callers named. *)
Solvent == fundraiser.open => vault["ata"] + vault["aux"] >= fundraiser.current_amount

(* The records say what their contributor paid and has not got back, over any
   number of campaigns: nobody is refunded twice or more than was paid. *)
WalletsWhole ==
    \A c \in CONTRIBUTORS :
        wallet[c] + SumFunctionOnSet(contributor_amount, RecordsOf(c)) = Endowment

(* The campaign's total is the sum of the records, but for the amounts the
   records already held when the campaign was initialized. *)
CurrentAmountExact ==
    fundraiser.open =>
        fundraiser.current_amount + SumFunction(carried) = SumFunction(contributor_amount)

(* A record above a campaign's cap of ten percent of the target is one an earlier
   campaign left behind, and has not been paid into since. *)
CapRespected ==
    fundraiser.open =>
        \A r \in RECORDS : \/ contributor_amount[r] <= max_contribution
                           \/ contributor_amount[r] = carried[r]

(* initialize accepts every target above three units, yet a target whose ten
   percent is less than one unit, or does not fit a u64, takes no contribution. *)
DeadTargetNeverFunded ==
    (/\ fundraiser.open
     /\ \/ fundraiser.amount_to_raise < 10 * UNIT
        \/ ~MaxContributionDefined) => fundraiser.current_amount = 0

(* Refunding and funding never overlap: once a campaign has paid one contributor
   back, it only shrinks. *)
NoFundingAfterRefund ==
    [][(refunded /\ refunded') =>
            fundraiser'.current_amount <= fundraiser.current_amount]_vars

(* An account that has paid a refund is never claimed, unless somebody has topped it
   up since by a transfer of their own: refund and claim read the same balance, and
   what refunds take away no contribution can put back. *)
AllOrNothing ==
    [][\A v \in Vaults :
            (fundraiser.open /\ ~fundraiser'.open /\ vault'[v] < vault[v])
                => v \notin drained]_vars

(* Should all records be refunded from the associated account, what it lacks was
   paid into another account in this campaign, or into an earlier campaign.  Where
   neither happened no refund fails for want of tokens. *)
ShortageExplained ==
    fundraiser.open =>
        SumFunction(contributor_amount) <= vault["ata"] + aside + SumFunction(carried)

(* In every campaign whoever paid into it and whose refund is due can be
   paid back, as the refund test expects.  A claim leaves the records open, and
   what the next campaign's contributor is owed then includes the old payment. *)
RefundAlwaysAvailable ==
    \A r \in RECORDS :
        RefundGuard(r, "ata") /\ contributor_amount[r] > carried[r]
            => RefundCovered(r, "ata")

(* After a claim nothing of the campaign is left in its associated account and the
   account is gone, as the claim test expects, so that the maker can initialize the
   next campaign.  A claim through another account leaves both behind. *)
NothingStranded ==
    [][(fundraiser.open /\ ~fundraiser'.open)
            => vault'["ata"] = 0 /\ "ata" \notin token_account']_vars

=============================================================================
