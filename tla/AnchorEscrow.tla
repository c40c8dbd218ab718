---------------------------- MODULE AnchorEscrow ----------------------------
(***************************************************************************)
(* The anchor-escrow-q2-2026 program.  A maker opens any number of escrows *)
(* under seeds of its choice; the offered tokens sit in the associated     *)
(* token account of the escrow's address (the vault), and take and refund  *)
(* move whatever the vault holds before they close vault and escrow.       *)
(***************************************************************************)
EXTENDS Integers, FiniteSets, Functions

CONSTANTS
    PEOPLE,    \* wallets, any of which may take any escrow
    MAKERS,    \* those that make escrows
    SEEDS,     \* seeds of the makers
    MINTS,     \* tokens
    AMOUNTS,   \* amounts make is called with
    DEPOSITS,  \* amounts transferred to a vault directly
    Endowment, \* tokens of each mint everybody starts with
    NoEscrow   \* the escrow account does not exist

\* The deposit is not part of the account: the vault's balance says it.
Escrow == [mint_a : MINTS, mint_b : MINTS, receive : Nat]

\* An escrow together with its maker and what its vault holds.
Offer == [maker : PEOPLE, mint_a : MINTS, mint_b : MINTS, give : Nat, receive : Nat]

ASSUME EscrowAssumption ==
    /\ IsFiniteSet(PEOPLE) /\ IsFiniteSet(SEEDS)
    /\ MAKERS \subseteq PEOPLE
    /\ AMOUNTS \subseteq Nat
    /\ DEPOSITS \subseteq AMOUNTS
    /\ Endowment \in Nat
    /\ NoEscrow \notin Escrow \cup Offer

VARIABLES
    escrow,   \* the escrow account of each maker and seed
    vault,    \* balance of its vault, 0 while there is none
    balance   \* tokens of each wallet, by mint

vars == <<escrow, vault, balance>>

Addresses == MAKERS \X SEEDS

\* Balances after a transfer of n tokens of mint from one wallet to another.
Transferred(b, from, to, mint, n) ==
    LET debited == [b EXCEPT ![<<from, mint>>] = @ - n] IN
    [debited EXCEPT ![<<to, mint>>] = @ + n]

Init ==
    /\ escrow = [a \in Addresses |-> NoEscrow]
    /\ vault = [a \in Addresses |-> 0]
    /\ balance = [w \in PEOPLE \X MINTS |-> Endowment]

---------------------------------------------------------------------------

(* make: init_escrow and deposit.  `init` creates escrow and vault and fails when
   the maker has an open escrow under that seed. *)
Make(m, seed, mint_a, mint_b, deposit, receive) ==
    /\ escrow[<<m, seed>>] = NoEscrow
    /\ deposit <= balance[<<m, mint_a>>]
    /\ escrow' = [escrow EXCEPT ![<<m, seed>>] =
                    [mint_a |-> mint_a, mint_b |-> mint_b, receive |-> receive]]
    /\ vault' = [vault EXCEPT ![<<m, seed>>] = deposit]
    /\ balance' = [balance EXCEPT ![<<m, mint_a>>] = @ - deposit]

\* vault.amount, what take and refund transfer out of the vault.
Moved(m, seed) == vault[<<m, seed>>]

Settled(b, to, m, seed) ==
    [b EXCEPT ![<<to, escrow[<<m, seed>>].mint_a>>] = @ + Moved(m, seed)]

\* close_account, which the token program refuses while anything is left in the vault,
\* and `close = maker` on the escrow.
Close(m, seed) ==
    /\ vault[<<m, seed>>] - Moved(m, seed) = 0
    /\ escrow' = [escrow EXCEPT ![<<m, seed>>] = NoEscrow]
    /\ vault' = [vault EXCEPT ![<<m, seed>>] = 0]

\* bug: the escrow is closed and its vault is forgotten
WithdrawAndClose_escrow_only(b, to, m, seed) ==
    /\ balance' = b
    /\ escrow' = [escrow EXCEPT ![<<m, seed>>] = NoEscrow]
    /\ UNCHANGED vault

\* bug: the price is paid out of the vault and the rest burned, to be able to close it
WithdrawAndClose_burning(b, to, m, seed) ==
    LET e == escrow[<<m, seed>>] IN
    /\ e.receive <= vault[<<m, seed>>]
    /\ balance' = [b EXCEPT ![<<to, e.mint_a>>] = @ + e.receive]
    /\ escrow' = [escrow EXCEPT ![<<m, seed>>] = NoEscrow]
    /\ vault' = [vault EXCEPT ![<<m, seed>>] = 0]

\* withdraw_and_close_vault and refund_and_close_vault
WithdrawAndClose(b, to, m, seed) ==
    /\ balance' = Settled(b, to, m, seed)
    /\ Close(m, seed)

\* bug: the payment goes the wrong way round
Paid_to_taker(m, taker, e) == Transferred(balance, m, taker, e.mint_b, e.receive)

\* Take::deposit
Paid(m, taker, e) == Transferred(balance, taker, m, e.mint_b, e.receive)

\* take: deposit, then withdraw_and_close_vault
Take(m, seed, taker) ==
    LET e == escrow[<<m, seed>>] IN
    /\ e # NoEscrow
    /\ e.receive <= balance[<<taker, e.mint_b>>]
    /\ WithdrawAndClose(Paid(m, taker, e), taker, m, seed)

\* refund: refund_and_close_vault
Refund(m, seed) ==
    /\ escrow[<<m, seed>>] # NoEscrow
    /\ WithdrawAndClose(balance, m, m, seed)

---------------------------------------------------------------------------
(* The world outside the program. *)

\* Anybody may transfer tokens straight into a vault.
DirectDeposit(m, seed, donor, n) ==
    LET e == escrow[<<m, seed>>] IN
    /\ e # NoEscrow
    /\ n <= balance[<<donor, e.mint_a>>]
    /\ vault' = [vault EXCEPT ![<<m, seed>>] = @ + n]
    /\ balance' = [balance EXCEPT ![<<donor, e.mint_a>>] = @ - n]
    /\ UNCHANGED escrow

Next ==
    \/ \E m \in MAKERS, seed \in SEEDS, mint_a, mint_b \in MINTS,
          deposit, receive \in AMOUNTS :
            Make(m, seed, mint_a, mint_b, deposit, receive)
    \/ \E m \in MAKERS, seed \in SEEDS, taker \in PEOPLE : Take(m, seed, taker)
    \/ \E m \in MAKERS, seed \in SEEDS : Refund(m, seed)
    \/ \E m \in MAKERS, seed \in SEEDS, donor \in PEOPLE, n \in DEPOSITS :
            DirectDeposit(m, seed, donor, n)

Spec == Init /\ [][Next]_vars

---------------------------------------------------------------------------
(* Properties. *)

(* Every variable has its type, and there is nothing in the vault of an escrow that
   is not open: closing it left nothing behind, so that the seed can be used again. *)
TypeOK ==
    /\ escrow \in [Addresses -> Escrow \cup {NoEscrow}]
    /\ vault \in [Addresses -> Nat]
    /\ \A a \in Addresses : escrow[a] = NoEscrow => vault[a] = 0
    /\ balance \in [PEOPLE \X MINTS -> Nat]

\* The open escrows that offer a mint.
Offering(mint) == {a \in Addresses : escrow[a] # NoEscrow /\ escrow[a].mint_a = mint}

\* What the wallets and the vaults hold of a mint.
Held(mint) == SumFunctionOnSet(balance, PEOPLE \X {mint}) + SumFunctionOnSet(vault, Offering(mint))

(* No instruction creates or destroys tokens: of each mint, wallets and the vaults
   of that mint hold together what was there at first. *)
Conserved == \A mint \in MINTS : Held(mint) = Endowment * Cardinality(PEOPLE)

(* Every open escrow is an offer of what its vault holds, and take and refund
   settle it in one step: escrows of one maker under different seeds do not reach
   into each other, and tokens sent to a vault go to whoever gets the offer. *)
Offered == [a \in Addresses |->
    IF escrow[a] = NoEscrow
        THEN NoEscrow
        ELSE [maker |-> a[1], mint_a |-> escrow[a].mint_a, mint_b |-> escrow[a].mint_b,
              give |-> vault[a], receive |-> escrow[a].receive]]

Swap == INSTANCE AtomicSwap WITH
            OFFERS <- Addresses, NoOffer <- NoEscrow, offer <- Offered

SwapSpec == Swap!Spec

=============================================================================
