----------------------------- MODULE AtomicSwap -----------------------------
(***************************************************************************)
(* What both escrow programs of the repository promise: a maker's tokens   *)
(* are set aside for a price, and either a taker pays that price and gets  *)
(* them, in one step, or the maker gets them back.                         *)
(***************************************************************************)
EXTENDS Integers

CONSTANTS
    PEOPLE,    \* wallets
    MINTS,     \* tokens
    OFFERS,    \* addresses an offer may live at
    AMOUNTS,   \* amounts of tokens
    Endowment, \* tokens of each mint everybody starts with
    NoOffer    \* there is no offer at this address

VARIABLES
    offer,    \* the offer at each address
    balance   \* tokens of each wallet, by mint

vars == <<offer, balance>>

\* Balances after a transfer of n tokens of mint from one wallet to another.
Transferred(b, from, to, mint, n) ==
    LET debited == [b EXCEPT ![<<from, mint>>] = @ - n] IN
    [debited EXCEPT ![<<to, mint>>] = @ + n]

Init ==
    /\ offer = [o \in OFFERS |-> NoOffer]
    /\ balance = [w \in PEOPLE \X MINTS |-> Endowment]

Make(o, maker, mint_a, mint_b, give, receive) ==
    /\ offer[o] = NoOffer
    /\ give <= balance[<<maker, mint_a>>]
    /\ offer' = [offer EXCEPT ![o] = [maker |-> maker, mint_a |-> mint_a, mint_b |-> mint_b,
                                      give |-> give, receive |-> receive]]
    /\ balance' = [balance EXCEPT ![<<maker, mint_a>>] = @ - give]

Take(o, taker) ==
    LET e == offer[o] IN
    /\ e # NoOffer
    /\ e.receive <= balance[<<taker, e.mint_b>>]
    /\ balance' = [Transferred(balance, taker, e.maker, e.mint_b, e.receive)
                      EXCEPT ![<<taker, e.mint_a>>] = @ + e.give]
    /\ offer' = [offer EXCEPT ![o] = NoOffer]

Refund(o) ==
    LET e == offer[o] IN
    /\ e # NoOffer
    /\ balance' = [balance EXCEPT ![<<e.maker, e.mint_a>>] = @ + e.give]
    /\ offer' = [offer EXCEPT ![o] = NoOffer]

\* A present to whoever ends up with the tokens of the offer.
TopUp(o, donor, n) ==
    /\ offer[o] # NoOffer
    /\ n <= balance[<<donor, offer[o].mint_a>>]
    /\ balance' = [balance EXCEPT ![<<donor, offer[o].mint_a>>] = @ - n]
    /\ offer' = [offer EXCEPT ![o].give = @ + n]

\* Tokens sent somewhere else: nobody's balance grows by a lost token.
Lose(owner, mint, n) ==
    /\ n <= balance[<<owner, mint>>]
    /\ balance' = [balance EXCEPT ![<<owner, mint>>] = @ - n]
    /\ UNCHANGED offer

Next ==
    \/ \E o \in OFFERS, maker \in PEOPLE, mint_a, mint_b \in MINTS, give, receive \in AMOUNTS :
            Make(o, maker, mint_a, mint_b, give, receive)
    \/ \E o \in OFFERS, taker \in PEOPLE : Take(o, taker)
    \/ \E o \in OFFERS : Refund(o)
    \/ \E o \in OFFERS, donor \in PEOPLE, n \in AMOUNTS : TopUp(o, donor, n)
    \/ \E owner \in PEOPLE, mint \in MINTS, n \in AMOUNTS : Lose(owner, mint, n)

Spec == Init /\ [][Next]_vars

=============================================================================
