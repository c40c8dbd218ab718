----------------------------- MODULE AccelEscrow -----------------------------
(***************************************************************************)
(* The accel-p-escrow program (Pinocchio).  A maker has one escrow at each *)
(* address its key and a bump derive; make records what to give and what   *)
(* to receive, take and refund move exactly the recorded amounts and then  *)
(* close the token account that their caller names.                        *)
(***************************************************************************)
EXTENDS Integers, FiniteSets, Functions

CONSTANTS
    PEOPLE,    \* wallets, any of which may take any escrow
    MAKERS,    \* those that make escrows
    BUMPS,     \* bumps that derive an address from a maker's key
    MINTS,     \* tokens
    AMOUNTS,   \* amounts make is called with
    DEPOSITS,  \* amounts transferred to an escrow's token accounts directly
    Vaults,    \* kinds of token accounts of an escrow in use: the ATA, maybe another
    Endowment, \* tokens of each mint everybody starts with
    NoEscrow   \* the escrow account does not exist

Escrow == [maker : PEOPLE, mint_a : MINTS, mint_b : MINTS, give : Nat, receive : Nat]

ASSUME EscrowAssumption ==
    /\ IsFiniteSet(PEOPLE) /\ IsFiniteSet(BUMPS) /\ IsFiniteSet(Vaults)
    /\ MAKERS \subseteq PEOPLE
    /\ AMOUNTS \subseteq Nat
    /\ DEPOSITS \subseteq AMOUNTS
    /\ "ata" \in Vaults
    /\ Endowment \in Nat
    /\ NoEscrow \notin Escrow

VARIABLES
    escrow,         \* the escrow account at each address
    token_account,  \* token accounts of these addresses that exist: <<address, mint, kind>>
    vault,          \* their balances
    balance,        \* tokens of each wallet, by mint
    donated         \* history: tokens sent to an open escrow's ATA by others than make

vars == <<escrow, token_account, vault, balance, donated>>

\* make checks that the address is derived from maker and bump, not that the bump is
\* the first that yields one.
Addresses == MAKERS \X BUMPS
Maker(a) == a[1]

\* Balances after a transfer of n tokens of mint from one wallet to another.
Transferred(b, from, to, mint, n) ==
    LET debited == [b EXCEPT ![<<from, mint>>] = @ - n] IN
    [debited EXCEPT ![<<to, mint>>] = @ + n]

Init ==
    /\ escrow = [a \in Addresses |-> NoEscrow]
    /\ token_account = {}
    /\ vault = [t \in Addresses \X MINTS \X Vaults |-> 0]
    /\ balance = [w \in PEOPLE \X MINTS |-> Endowment]
    /\ donated = [a \in Addresses |-> 0]

---------------------------------------------------------------------------

\* bug: the two amounts of the instruction data are swapped
Recorded_swapped(m, mint_a, mint_b, give, receive) ==
    [maker |-> m, mint_a |-> mint_a, mint_b |-> mint_b, give |-> receive, receive |-> give]

\* What make writes into the escrow account.
Recorded(m, mint_a, mint_b, give, receive) ==
    [maker |-> m, mint_a |-> mint_a, mint_b |-> mint_b, give |-> give, receive |-> receive]

\* process_make_instruction: the associated account of mint_a must not exist yet.
Make(a, mint_a, mint_b, give, receive) ==
    /\ escrow[a] = NoEscrow
    /\ <<a, mint_a, "ata">> \notin token_account
    /\ give <= balance[<<Maker(a), mint_a>>]
    /\ escrow' = [escrow EXCEPT ![a] = Recorded(Maker(a), mint_a, mint_b, give, receive)]
    /\ token_account' = token_account \cup {<<a, mint_a, "ata">>}
    /\ vault' = [vault EXCEPT ![<<a, mint_a, "ata">>] = @ + give]
    /\ balance' = [balance EXCEPT ![<<Maker(a), mint_a>>] = @ - give]
    /\ donated' = [donated EXCEPT ![a] = 0]

\* bug: the tokens an account holds beyond the offer vanish with it
Withdraw_burning(a, v) ==
    LET e == escrow[a] IN
    /\ <<a, e.mint_a, v>> \in token_account
    /\ vault[<<a, e.mint_a, v>>] >= e.give
    /\ vault' = [vault EXCEPT ![<<a, e.mint_a, v>>] = 0]
    /\ token_account' = token_account \ {<<a, e.mint_a, v>>}
    /\ escrow' = [escrow EXCEPT ![a] = NoEscrow]

\* bug: an account that still holds tokens is closed, with them in it
Withdraw_leaving(a, v) ==
    LET e == escrow[a] IN
    /\ <<a, e.mint_a, v>> \in token_account
    /\ vault[<<a, e.mint_a, v>>] >= e.give
    /\ vault' = [vault EXCEPT ![<<a, e.mint_a, v>>] = @ - e.give]
    /\ token_account' = token_account \ {<<a, e.mint_a, v>>}
    /\ escrow' = [escrow EXCEPT ![a] = NoEscrow]

(* The end of take and refund: transfer what was recorded out of any token account
   of the escrow for mint_a, close that account, which the token program refuses
   while it holds tokens, and close the escrow. *)
Withdraw(a, v) ==
    LET e == escrow[a] IN
    /\ <<a, e.mint_a, v>> \in token_account
    /\ vault[<<a, e.mint_a, v>>] = e.give
    /\ vault' = [vault EXCEPT ![<<a, e.mint_a, v>>] = 0]
    /\ token_account' = token_account \ {<<a, e.mint_a, v>>}
    /\ escrow' = [escrow EXCEPT ![a] = NoEscrow]

\* bug: the maker is paid nothing
Paid_nothing(taker, e) == balance

\* The first transfer of take.
Paid(taker, e) == Transferred(balance, taker, e.maker, e.mint_b, e.receive)

\* process_take_instruction
Take(a, taker, v) ==
    LET e == escrow[a] IN
    /\ e # NoEscrow
    /\ e.receive <= balance[<<taker, e.mint_b>>]
    /\ Withdraw(a, v)
    /\ balance' = [Paid(taker, e) EXCEPT ![<<taker, e.mint_a>>] = @ + e.give]
    /\ UNCHANGED donated

\* process_refund_instruction
Refund(a, v) ==
    LET e == escrow[a] IN
    /\ e # NoEscrow
    /\ Withdraw(a, v)
    /\ balance' = [balance EXCEPT ![<<Maker(a), e.mint_a>>] = @ + e.give]
    /\ UNCHANGED donated

---------------------------------------------------------------------------
(* The world outside the program. *)

\* Anybody may transfer tokens straight into a token account of an escrow.
DirectDeposit(a, mint, v, donor, n) ==
    /\ <<a, mint, v>> \in token_account
    /\ n <= balance[<<donor, mint>>]
    /\ vault' = [vault EXCEPT ![<<a, mint, v>>] = @ + n]
    /\ balance' = [balance EXCEPT ![<<donor, mint>>] = @ - n]
    /\ donated' = [donated EXCEPT ![a] =
                    IF escrow[a] # NoEscrow /\ escrow[a].mint_a = mint /\ v = "ata"
                        THEN @ + n ELSE @]
    /\ UNCHANGED <<escrow, token_account>>

\* Anybody may open a token account whose owner is an escrow's address, the
\* associated one included.
OpenTokenAccount(a, mint, v) ==
    /\ <<a, mint, v>> \notin token_account
    /\ token_account' = token_account \cup {<<a, mint, v>>}
    /\ UNCHANGED <<escrow, vault, balance, donated>>

Next ==
    \/ \E a \in Addresses, mint_a, mint_b \in MINTS, give, receive \in AMOUNTS :
            Make(a, mint_a, mint_b, give, receive)
    \/ \E a \in Addresses, taker \in PEOPLE, v \in Vaults : Take(a, taker, v)
    \/ \E a \in Addresses, v \in Vaults : Refund(a, v)
    \/ \E a \in Addresses, donor \in PEOPLE, mint \in MINTS, v \in Vaults, n \in DEPOSITS :
            DirectDeposit(a, mint, v, donor, n)
    \/ \E a \in Addresses, mint \in MINTS, v \in Vaults : OpenTokenAccount(a, mint, v)

Spec == Init /\ [][Next]_vars

---------------------------------------------------------------------------
(* Properties. *)

(* Every variable has its type, and a token account that does not exist is empty. *)
TypeOK ==
    /\ escrow \in [Addresses -> Escrow \cup {NoEscrow}]
    /\ token_account \in SUBSET (Addresses \X MINTS \X Vaults)
    /\ vault \in [Addresses \X MINTS \X Vaults -> Nat]
    /\ \A t \in DOMAIN vault : t \notin token_account => vault[t] = 0
    /\ balance \in [PEOPLE \X MINTS -> Nat]
    /\ donated \in [Addresses -> Nat]

(* An open escrow's associated account exists and holds what was promised, and
   beyond that only what others sent to it, whatever account a take or refund of an
   earlier escrow at the same address closed. *)
VaultExact ==
    \A a \in Addresses : escrow[a] # NoEscrow =>
        /\ escrow[a].maker = Maker(a)
        /\ <<a, escrow[a].mint_a, "ata">> \in token_account
        /\ vault[<<a, escrow[a].mint_a, "ata">>] = escrow[a].give + donated[a]

\* What the wallets and the token accounts of escrows hold of a mint.
Held(mint) == SumFunctionOnSet(balance, PEOPLE \X {mint})
                + SumFunctionOnSet(vault, Addresses \X {mint} \X Vaults)

(* No instruction creates or destroys tokens: of each mint, wallets and token
   accounts of escrows hold together what was there at first. *)
Conserved == \A mint \in MINTS : Held(mint) = Endowment * Cardinality(PEOPLE)

(* A take exchanges both sides of the offer and a refund returns the maker's, in
   one step, whichever token account they are told to use. *)
Swap == INSTANCE AtomicSwap WITH
            OFFERS <- Addresses, NoOffer <- NoEscrow, offer <- escrow

SwapSpec == Swap!Spec

(* What the refund test expects: the maker of an open escrow can take the tokens
   back out of its associated account. *)
RefundAvailable ==
    \A a \in Addresses : escrow[a] # NoEscrow =>
        vault[<<a, escrow[a].mint_a, "ata">>] = escrow[a].give

=============================================================================
