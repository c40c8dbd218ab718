------------------------- MODULE AnchorEscrowProofs -------------------------
(***************************************************************************)
(* AnchorEscrow keeps its types and leaves nothing in a closed vault, and  *)
(* it implements AtomicSwap with one offer for each maker and seed; no     *)
(* token is lost or made.                                                  *)
(***************************************************************************)
EXTENDS AnchorEscrow, SumTheorems

Wallets == PEOPLE \X MINTS

(* Adding to one entry of a table of amounts, or taking no more than is there,
   keeps it one. *)
LEMMA Credit ==
    ASSUME NEW D, NEW b \in [D -> Nat], NEW w \in D, NEW n \in Nat
    PROVE  [b EXCEPT ![w] = @ + n] \in [D -> Nat]
BY b[w] + n \in Nat

LEMMA Debit ==
    ASSUME NEW D, NEW b \in [D -> Nat], NEW w \in D, NEW n \in Nat, n <= b[w]
    PROVE  [b EXCEPT ![w] = @ - n] \in [D -> Nat]
BY b[w] - n \in Nat

(* The balances after a transfer that the payer can afford are again balances. *)
LEMMA TransferredTypes ==
    ASSUME NEW b \in [Wallets -> Nat], NEW from \in PEOPLE, NEW to \in PEOPLE,
           NEW mint \in MINTS, NEW n \in Nat, n <= b[<<from, mint>>]
    PROVE  Transferred(b, from, to, mint, n) \in [Wallets -> Nat]
<1>1. <<from, mint>> \in Wallets /\ <<to, mint>> \in Wallets
    BY DEF Wallets
<1>2. [b EXCEPT ![<<from, mint>>] = @ - n] \in [Wallets -> Nat]
    BY <1>1, Debit
<1>3. ASSUME NEW debited \in [Wallets -> Nat]
      PROVE  [debited EXCEPT ![<<to, mint>>] = @ + n] \in [Wallets -> Nat]
    BY <1>1, Credit
<1> QED
    BY <1>2, <1>3 DEF Transferred

LEMMA EscrowTypes ==
    ASSUME TypeOK, NEW a \in Addresses, escrow[a] # NoEscrow
    PROVE  /\ escrow[a].mint_a \in MINTS
           /\ escrow[a].mint_b \in MINTS
           /\ escrow[a].receive \in Nat
<1>1. escrow[a] \in Escrow
    BY DEF TypeOK
<1> QED
    BY <1>1 DEF Escrow

LEMMA SettledTypes ==
    ASSUME TypeOK, NEW m \in MAKERS, NEW seed \in SEEDS, escrow[<<m, seed>>] # NoEscrow,
           NEW b \in [Wallets -> Nat], NEW to \in PEOPLE
    PROVE  Settled(b, to, m, seed) \in [Wallets -> Nat]
<1>1. <<m, seed>> \in Addresses
    BY DEF Addresses
<1>2. <<to, escrow[<<m, seed>>].mint_a>> \in Wallets
    BY <1>1, EscrowTypes DEF Wallets
<1>3. vault[<<m, seed>>] \in Nat
    BY <1>1 DEF TypeOK
<1> QED
    BY <1>2, <1>3, Credit DEF Settled, Moved

LEMMA CloseTypes ==
    ASSUME TypeOK, NEW m \in MAKERS, NEW seed \in SEEDS, Close(m, seed)
    PROVE  /\ escrow' \in [Addresses -> Escrow \cup {NoEscrow}]
           /\ vault' \in [Addresses -> Nat]
           /\ \A a \in Addresses : escrow'[a] = NoEscrow => vault'[a] = 0
BY DEF Close, TypeOK

(* What make writes is an escrow, and so not the mark of a missing account. *)
LEMMA MakeRecordsEscrow ==
    ASSUME NEW mint_a \in MINTS, NEW mint_b \in MINTS, NEW receive \in Nat
    PROVE  LET r == [mint_a |-> mint_a, mint_b |-> mint_b, receive |-> receive] IN
           r \in Escrow /\ r # NoEscrow
<1> DEFINE r == [mint_a |-> mint_a, mint_b |-> mint_b, receive |-> receive]
<1>1. r \in Escrow
    BY DEF Escrow
<1>2. r # NoEscrow
    BY <1>1, EscrowAssumption
<1> QED
    BY <1>1, <1>2

LEMMA InitTypeOK == Init => TypeOK
BY EscrowAssumption DEF Init, TypeOK

LEMMA StepTypeOK == TypeOK /\ [Next]_vars => TypeOK'
<1> SUFFICES ASSUME TypeOK, [Next]_vars
             PROVE  TypeOK'
    OBVIOUS
<1> USE EscrowAssumption
<1>1. ASSUME NEW m \in MAKERS, NEW seed \in SEEDS, NEW mint_a \in MINTS, NEW mint_b \in MINTS,
             NEW deposit \in AMOUNTS, NEW receive \in AMOUNTS,
             Make(m, seed, mint_a, mint_b, deposit, receive)
      PROVE  TypeOK'
  <2> DEFINE r == [mint_a |-> mint_a, mint_b |-> mint_b, receive |-> receive]
  <2>1. deposit \in Nat /\ <<m, seed>> \in Addresses /\ <<m, mint_a>> \in Wallets
      BY DEF Addresses, Wallets
  <2>2. r \in Escrow /\ r # NoEscrow
      BY MakeRecordsEscrow
  <2>3. balance' \in [Wallets -> Nat]
      BY <1>1, <2>1, Debit DEF Make, TypeOK, Wallets
  <2>4. escrow' = [escrow EXCEPT ![<<m, seed>>] = r]
      BY <1>1 DEF Make
  <2>5. vault' = [vault EXCEPT ![<<m, seed>>] = deposit]
      BY <1>1 DEF Make
  <2> HIDE DEF r
  <2> QED
      BY <2>1, <2>2, <2>3, <2>4, <2>5 DEF TypeOK, Wallets
<1>2. ASSUME NEW m \in MAKERS, NEW seed \in SEEDS, NEW taker \in PEOPLE, Take(m, seed, taker)
      PROVE  TypeOK'
  <2> DEFINE e == escrow[<<m, seed>>]
  <2>1. /\ e # NoEscrow /\ e.receive <= balance[<<taker, e.mint_b>>]
        /\ Close(m, seed)
        /\ balance' = Settled(Paid(m, taker, e), taker, m, seed)
      BY <1>2 DEF Take, WithdrawAndClose
  <2>2. <<m, seed>> \in Addresses /\ m \in PEOPLE
      BY DEF Addresses
  <2>3. Paid(m, taker, e) \in [Wallets -> Nat]
      BY <2>1, <2>2, EscrowTypes, TransferredTypes DEF Paid, TypeOK, Wallets
  <2>4. balance' \in [Wallets -> Nat]
      BY <2>1, <2>3, SettledTypes
  <2> QED
      BY <2>1, <2>4, CloseTypes DEF TypeOK, Wallets
<1>3. ASSUME NEW m \in MAKERS, NEW seed \in SEEDS, Refund(m, seed)
      PROVE  TypeOK'
  <2>1. balance \in [Wallets -> Nat] /\ m \in PEOPLE
      BY DEF TypeOK, Wallets
  <2>2. balance' \in [Wallets -> Nat]
      BY <1>3, <2>1, SettledTypes DEF Refund, WithdrawAndClose
  <2> QED
      BY <1>3, <2>2, CloseTypes DEF Refund, WithdrawAndClose, TypeOK, Wallets
<1>4. ASSUME NEW m \in MAKERS, NEW seed \in SEEDS, NEW donor \in PEOPLE, NEW n \in DEPOSITS,
             DirectDeposit(m, seed, donor, n)
      PROVE  TypeOK'
  <2>1. n \in Nat /\ <<m, seed>> \in Addresses
      BY DEF Addresses
  <2>2. <<donor, escrow[<<m, seed>>].mint_a>> \in Wallets
      BY <1>4, <2>1, EscrowTypes DEF DirectDeposit, Wallets
  <2>3. balance' \in [Wallets -> Nat]
      BY <1>4, <2>1, <2>2, Debit DEF DirectDeposit, TypeOK, Wallets
  <2>4. vault' \in [Addresses -> Nat]
      BY <1>4, <2>1, Credit DEF DirectDeposit, TypeOK
  <2>5. \A a \in Addresses : escrow'[a] = NoEscrow => vault'[a] = 0
      BY <1>4, <2>1 DEF DirectDeposit, TypeOK
  <2> QED
      BY <1>4, <2>3, <2>4, <2>5 DEF DirectDeposit, TypeOK, Wallets
<1>5. CASE UNCHANGED vars
    BY <1>5 DEF vars, TypeOK
<1> QED
    BY <1>1, <1>2, <1>3, <1>4, <1>5 DEF Next

LEMMA TypeInvariance == Spec => []TypeOK
<1>1. TypeOK /\ [Next]_vars => TypeOK'
    BY StepTypeOK
<1> QED
    BY <1>1, InitTypeOK, PTL DEF Spec

(* For any number of makers, seeds and mints, the vault of an escrow that is not
   open is empty: take and refund leave nothing behind when they close it. *)
THEOREM TypeCorrect == Spec => []TypeOK
BY TypeInvariance

---------------------------------------------------------------------------
(* The offers behind escrows and vaults. *)

(* An escrow that is open is an offer, and offers are not NoEscrow. *)
LEMMA OpenIsOffer ==
    ASSUME TypeOK, NEW a \in Addresses, escrow[a] # NoEscrow
    PROVE  /\ Offered[a] # NoEscrow
           /\ Offered[a].maker = a[1]
           /\ Offered[a].mint_a = escrow[a].mint_a
           /\ Offered[a].mint_b = escrow[a].mint_b
           /\ Offered[a].give = vault[a]
           /\ Offered[a].receive = escrow[a].receive
<1> DEFINE offer == [maker |-> a[1], mint_a |-> escrow[a].mint_a, mint_b |-> escrow[a].mint_b,
                     give |-> vault[a], receive |-> escrow[a].receive]
<1>1. a[1] \in PEOPLE /\ vault[a] \in Nat
    BY EscrowAssumption DEF TypeOK, Addresses
<1>2. Offered[a] = offer
    BY DEF Offered
<1>3. offer \in Offer
    BY <1>1, EscrowTypes DEF Offer
<1>4. Offered[a] # NoEscrow
    BY <1>2, <1>3, EscrowAssumption
<1> QED
    BY <1>2, <1>4

(* Closing an escrow takes its offer away and no other. *)
LEMMA CloseWithdrawsOffer ==
    ASSUME TypeOK, NEW m \in MAKERS, NEW seed \in SEEDS, Close(m, seed)
    PROVE  Offered' = [Offered EXCEPT ![<<m, seed>>] = NoEscrow]
<1> DEFINE o == <<m, seed>>
           new == [Offered EXCEPT ![o] = NoEscrow]
<1>1. o \in Addresses
    BY DEF Addresses
<1>2. DOMAIN Offered' = Addresses /\ DOMAIN new = Addresses
    BY DEF Offered
<1>3. ASSUME NEW a \in Addresses
      PROVE  Offered'[a] = new[a]
  <2>1. CASE a = o
      BY <1>1, <2>1 DEF Close, TypeOK, Offered
  <2>2. CASE a # o
    <3>1. escrow'[a] = escrow[a] /\ vault'[a] = vault[a]
        BY <2>2 DEF Close, TypeOK
    <3> QED
        BY <2>2, <3>1 DEF Offered
  <2> QED
      BY <2>1, <2>2
<1>4. Offered' = [a \in Addresses |-> Offered'[a]] /\ new = [a \in Addresses |-> new[a]]
    BY DEF Offered
<1> QED
    BY <1>3, <1>4

LEMMA StepImplementsSwap == TypeOK /\ [Next]_vars => [Swap!Next]_(Swap!vars)
<1> SUFFICES ASSUME TypeOK, [Next]_vars
             PROVE  Swap!Next \/ UNCHANGED <<Offered, balance>>
    BY DEF Swap!vars
<1> USE EscrowAssumption
<1>1. ASSUME NEW m \in MAKERS, NEW seed \in SEEDS, NEW mint_a \in MINTS, NEW mint_b \in MINTS,
             NEW deposit \in AMOUNTS, NEW receive \in AMOUNTS,
             Make(m, seed, mint_a, mint_b, deposit, receive)
      PROVE  Swap!Next
  <2> DEFINE o == <<m, seed>>
             r == [mint_a |-> mint_a, mint_b |-> mint_b, receive |-> receive]
             offer == [maker |-> m, mint_a |-> mint_a, mint_b |-> mint_b,
                       give |-> deposit, receive |-> receive]
             new == [Offered EXCEPT ![o] = offer]
  <2>1. o \in Addresses /\ m \in PEOPLE /\ o[1] = m
      BY DEF Addresses
  <2>2. r # NoEscrow
      BY MakeRecordsEscrow
  <2>3. escrow' = [escrow EXCEPT ![o] = r] /\ vault' = [vault EXCEPT ![o] = deposit]
      BY <1>1 DEF Make
  <2>4. ASSUME NEW a \in Addresses
        PROVE  Offered'[a] = new[a]
    <3>1. CASE a = o
      <4>1. escrow'[o] = r /\ vault'[o] = deposit
          BY <2>1, <2>3 DEF TypeOK
      <4>2. Offered'[o] = offer
          BY <2>1, <2>2, <4>1 DEF Offered
      <4>3. new[o] = offer
          BY <2>1 DEF Offered
      <4> QED
          BY <3>1, <4>2, <4>3
    <3>2. CASE a # o
      <4>1. escrow'[a] = escrow[a] /\ vault'[a] = vault[a]
          BY <2>3, <3>2 DEF TypeOK
      <4> QED
          BY <3>2, <4>1 DEF Offered
    <3> QED
        BY <3>1, <3>2
  <2>5. Offered' = [a \in Addresses |-> Offered'[a]] /\ new = [a \in Addresses |-> new[a]]
      BY DEF Offered
  <2>6. Offered' = new
      BY <2>4, <2>5
  <2>7. Offered[o] = NoEscrow
      BY <1>1, <2>1 DEF Make, Offered
  <2>8. Swap!Make(o, m, mint_a, mint_b, deposit, receive)
      BY <1>1, <2>6, <2>7 DEF Make, Swap!Make
  <2> QED
      BY <2>1, <2>8 DEF Swap!Next
<1>2. ASSUME NEW m \in MAKERS, NEW seed \in SEEDS, NEW taker \in PEOPLE, Take(m, seed, taker)
      PROVE  Swap!Next
  <2> DEFINE o == <<m, seed>>
  <2>1. o \in Addresses /\ o[1] = m /\ escrow[o] # NoEscrow
      BY <1>2 DEF Take, WithdrawAndClose, Addresses
  <2>2. /\ Offered[o] # NoEscrow
        /\ Offered[o].maker = m
        /\ Offered[o].mint_a = escrow[o].mint_a
        /\ Offered[o].mint_b = escrow[o].mint_b
        /\ Offered[o].give = vault[o]
        /\ Offered[o].receive = escrow[o].receive
      BY <2>1, OpenIsOffer
  <2>3. Offered' = [Offered EXCEPT ![o] = NoEscrow]
      BY <1>2, CloseWithdrawsOffer DEF Take, WithdrawAndClose
  <2>4. Swap!Take(o, taker)
      BY <1>2, <2>2, <2>3
         DEF Take, WithdrawAndClose, Paid, Settled, Moved, Transferred, Swap!Take,
             Swap!Transferred
  <2> QED
      BY <2>1, <2>4 DEF Swap!Next
<1>3. ASSUME NEW m \in MAKERS, NEW seed \in SEEDS, Refund(m, seed)
      PROVE  Swap!Next
  <2> DEFINE o == <<m, seed>>
  <2>1. o \in Addresses /\ o[1] = m /\ escrow[o] # NoEscrow
      BY <1>3 DEF Refund, WithdrawAndClose, Addresses
  <2>2. /\ Offered[o] # NoEscrow
        /\ Offered[o].maker = m
        /\ Offered[o].mint_a = escrow[o].mint_a
        /\ Offered[o].give = vault[o]
      BY <2>1, OpenIsOffer
  <2>3. Offered' = [Offered EXCEPT ![o] = NoEscrow]
      BY <1>3, CloseWithdrawsOffer DEF Refund, WithdrawAndClose
  <2>4. Swap!Refund(o)
      BY <1>3, <2>2, <2>3 DEF Refund, WithdrawAndClose, Settled, Moved, Swap!Refund
  <2> QED
      BY <2>1, <2>4 DEF Swap!Next
<1>4. ASSUME NEW m \in MAKERS, NEW seed \in SEEDS, NEW donor \in PEOPLE, NEW n \in DEPOSITS,
             DirectDeposit(m, seed, donor, n)
      PROVE  Swap!Next
  <2> DEFINE o == <<m, seed>>
             new == [Offered EXCEPT ![o].give = @ + n]
  <2>1. o \in Addresses /\ escrow[o] # NoEscrow /\ n \in AMOUNTS
      BY <1>4 DEF DirectDeposit, Addresses
  <2>2. Offered[o] # NoEscrow /\ Offered[o].mint_a = escrow[o].mint_a
      BY <2>1, OpenIsOffer
  <2>3. escrow' = escrow /\ vault' = [vault EXCEPT ![o] = @ + n]
      BY <1>4 DEF DirectDeposit
  <2>4. ASSUME NEW a \in Addresses
        PROVE  Offered'[a] = new[a]
    <3>1. CASE a = o
      <4>1. vault'[o] = vault[o] + n
          BY <2>1, <2>3 DEF TypeOK
      <4> QED
          BY <2>1, <2>3, <3>1, <4>1 DEF Offered
    <3>2. CASE a # o
      <4>1. vault'[a] = vault[a]
          BY <2>3, <3>2 DEF TypeOK
      <4> QED
          BY <2>3, <3>2, <4>1 DEF Offered
    <3> QED
        BY <3>1, <3>2
  <2>5. Offered' = [a \in Addresses |-> Offered'[a]] /\ new = [a \in Addresses |-> new[a]]
      BY DEF Offered
  <2>6. Offered' = new
      BY <2>4, <2>5
  <2>7. Swap!TopUp(o, donor, n)
      BY <1>4, <2>2, <2>6 DEF DirectDeposit, Swap!TopUp
  <2> QED
      BY <2>1, <2>7 DEF Swap!Next
<1>5. CASE UNCHANGED vars
    BY <1>5 DEF vars, Offered
<1> QED
    BY <1>1, <1>2, <1>3, <1>4, <1>5 DEF Next

(* An escrow and its vault are one offer: whatever is sent to the vault, and
   however escrows of a maker under several seeds interleave, each instruction is
   one step of the atomic swap. *)
THEOREM ImplementsSwap == Spec => SwapSpec
<1>1. Init => Swap!Init
    BY DEF Init, Swap!Init, Offered
<1>2. TypeOK /\ [Next]_vars => [Swap!Next]_(Swap!vars)
    BY StepImplementsSwap
<1> QED
    BY <1>1, <1>2, TypeInvariance, PTL DEF Spec, SwapSpec, Swap!Spec

---------------------------------------------------------------------------
(* No tokens are created or destroyed. *)

(* Crediting a wallet with n, or debiting it when n is negative. *)
CreditWallet(f, p, k, n, g) ==
    p \in PEOPLE /\ k \in MINTS /\ n \in Int /\ Adds(Wallets, f, <<p, k>>, n, g)

(* What the wallets and the vaults hold of a mint. *)
InWallets(f, mint) == Column(f, PEOPLE, mint)
InVaults(mint) == SumFunctionOnSet(vault, Offering(mint))

LEMMA WalletAdds ==
    ASSUME NEW mint \in MINTS, NEW f, NEW g, NEW p, NEW k, NEW n, CreditWallet(f, p, k, n, g)
    PROVE  /\ InWallets(f, mint) \in Int
           /\ k = mint => InWallets(g, mint) = InWallets(f, mint) + n
           /\ k # mint => InWallets(g, mint) = InWallets(f, mint)
<1>1. Credits(PEOPLE, MINTS, f, p, k, n, g)
    BY DEF CreditWallet, Wallets, Credits
<1> QED
    BY <1>1, ColumnAdds, EscrowAssumption DEF InWallets

LEMMA OfferingFinite ==
    ASSUME NEW mint
    PROVE  /\ IsFiniteSet(Offering(mint)) /\ Offering(mint) \in SUBSET Addresses
           /\ IsFiniteSet(Offering(mint)') /\ Offering(mint)' \in SUBSET Addresses
<1>1. IsFiniteSet(Addresses)
    BY EscrowAssumption, FS_Subset, FS_Product DEF Addresses
<1>2. Offering(mint) \in SUBSET Addresses /\ Offering(mint)' \in SUBSET Addresses
    BY DEF Offering
<1> QED
    BY <1>1, <1>2, FS_Subset

LEMMA HeldIs ==
    ASSUME NEW mint \in MINTS
    PROVE  /\ Held(mint) = InWallets(balance, mint) + InVaults(mint)
           /\ Held(mint)' = InWallets(balance', mint) + InVaults(mint)'
BY DEF Held, InWallets, Column, InVaults

(* Of a set of addresses, the vault of one and those of the others. *)
LEMMA Apart ==
    ASSUME NEW S \in SUBSET Addresses, IsFiniteSet(S), NEW f \in [Addresses -> Nat], NEW a
    PROVE  /\ SumFunctionOnSet(f, S \ {a}) \in Int
           /\ a \in S => SumFunctionOnSet(f, S) = f[a] + SumFunctionOnSet(f, S \ {a})
           /\ a \notin S => SumFunctionOnSet(f, S) = SumFunctionOnSet(f, S \ {a})
<1>1. \A x \in S : f[x] \in Int
    OBVIOUS
<1>2. IsFiniteSet(S \ {a}) /\ \A x \in S \ {a} : f[x] \in Int
    BY <1>1, FS_Subset
<1>3. SumFunctionOnSet(f, S \ {a}) \in Int
    BY <1>2, SumType
<1>4. CASE a \in S
    BY <1>1, <1>3, <1>4, SumRemove
<1>5. CASE a \notin S
  <2>1. S \ {a} = S
      BY <1>5
  <2> QED
      BY <1>3, <1>5, <2>1
<1> QED
    BY <1>4, <1>5

(* A step that touches one escrow and its vault changes the sum by what that vault
   counts for after the step, less what it counted for before. *)
LEMMA OneVaultMoves ==
    ASSUME TypeOK, TypeOK', NEW mint, NEW a \in Addresses,
           \A x \in Addresses \ {a} : escrow'[x] = escrow[x] /\ vault'[x] = vault[x]
    PROVE  \E rest \in Int :
             /\ InVaults(mint) \in Int
             /\ a \in Offering(mint) => InVaults(mint) = vault[a] + rest
             /\ a \notin Offering(mint) => InVaults(mint) = rest
             /\ a \in Offering(mint)' => InVaults(mint)' = vault'[a] + rest
             /\ a \notin Offering(mint)' => InVaults(mint)' = rest
<1> DEFINE S == Offering(mint)
           T == Offering(mint)'
           R == S \ {a}
           rest == SumFunctionOnSet(vault, R)
           moved == vault'
<1>1. /\ S \in SUBSET Addresses /\ IsFiniteSet(S)
      /\ T \in SUBSET Addresses /\ IsFiniteSet(T)
    BY OfferingFinite
<1>2. vault \in [Addresses -> Nat] /\ moved \in [Addresses -> Nat]
    BY DEF TypeOK
<1>3. T \ {a} = R
    BY DEF Offering
<1>4. IsFiniteSet(R) /\ \A x \in R : vault[x] \in Int /\ moved[x] = vault[x]
    BY <1>1, <1>2, FS_Subset
<1>5. InVaults(mint) = SumFunctionOnSet(vault, S) /\ InVaults(mint)' = SumFunctionOnSet(moved, T)
    BY DEF InVaults
<1> HIDE DEF S, T, R, rest, moved
<1>6. SumFunctionOnSet(moved, R) = SumFunctionOnSet(vault, R)
    BY <1>4, SumSame
<1>7. /\ rest \in Int
      /\ a \in S => SumFunctionOnSet(vault, S) = vault[a] + rest
      /\ a \notin S => SumFunctionOnSet(vault, S) = rest
    BY <1>1, <1>2, Apart DEF R, rest
<1>8. /\ a \in T => SumFunctionOnSet(moved, T) = moved[a] + rest
      /\ a \notin T => SumFunctionOnSet(moved, T) = rest
    BY <1>1, <1>2, <1>3, <1>6, Apart DEF rest
<1>9. vault[a] \in Int
    BY <1>2
<1> QED
    BY <1>5, <1>7, <1>8, <1>9 DEF S, T, moved

(* What leaves a wallet for vaults of the same mint, or comes back, is held before
   and after. *)
LEMMA MoveKeeps ==
    ASSUME NEW mint \in MINTS, NEW p, NEW k, NEW n \in Int,
           CreditWallet(balance, p, k, -n, balance'),
           InVaults(mint) \in Int,
           k = mint => InVaults(mint)' = InVaults(mint) + n,
           k # mint => InVaults(mint)' = InVaults(mint)
    PROVE  Held(mint)' = Held(mint)
<1> DEFINE d == -n
           b == balance'
           w == InVaults(mint)'
<1>1. d \in Int /\ d = -n /\ CreditWallet(balance, p, k, d, b)
    OBVIOUS
<1>2. Held(mint)' = InWallets(b, mint) + w
    BY HeldIs
<1>3. (k = mint => w = InVaults(mint) + n) /\ (k # mint => w = InVaults(mint))
    OBVIOUS
<1> HIDE DEF d, b, w
<1>4. /\ InWallets(balance, mint) \in Int
      /\ k = mint => InWallets(b, mint) = InWallets(balance, mint) + d
      /\ k # mint => InWallets(b, mint) = InWallets(balance, mint)
    BY <1>1, WalletAdds
<1> QED
    BY <1>1, <1>2, <1>3, <1>4, HeldIs

(* The vault that take and refund close. *)
LEMMA CloseEmpties ==
    ASSUME TypeOK, TypeOK', NEW mint, NEW m \in MAKERS, NEW seed \in SEEDS,
           escrow[<<m, seed>>] # NoEscrow, Close(m, seed)
    PROVE  LET a == <<m, seed>> IN
           /\ InVaults(mint) \in Int
           /\ escrow[a].mint_a = mint => InVaults(mint)' = InVaults(mint) + (-vault[a])
           /\ escrow[a].mint_a # mint => InVaults(mint)' = InVaults(mint)
<1> DEFINE a == <<m, seed>>
<1>1. a \in Addresses
    BY DEF Addresses
<1>2. \A x \in Addresses \ {a} : escrow'[x] = escrow[x] /\ vault'[x] = vault[x]
    BY DEF Close, TypeOK
<1>3. a \in Offering(mint) <=> escrow[a].mint_a = mint
    BY <1>1 DEF Offering
<1>4. a \notin Offering(mint)'
    BY <1>1 DEF Offering, Close, TypeOK
<1>5. vault[a] \in Nat
    BY <1>1 DEF TypeOK
<1> HIDE DEF a
<1>6. PICK rest \in Int :
        /\ InVaults(mint) \in Int
        /\ a \in Offering(mint) => InVaults(mint) = vault[a] + rest
        /\ a \notin Offering(mint) => InVaults(mint) = rest
        /\ a \notin Offering(mint)' => InVaults(mint)' = rest
    BY <1>1, <1>2, OneVaultMoves
<1>7. /\ InVaults(mint) \in Int
      /\ escrow[a].mint_a = mint => InVaults(mint)' = InVaults(mint) + (-vault[a])
      /\ escrow[a].mint_a # mint => InVaults(mint)' = InVaults(mint)
    BY <1>3, <1>4, <1>5, <1>6
<1> QED
    BY <1>7 DEF a

LEMMA StepConserved ==
    TypeOK /\ TypeOK' /\ [Next]_vars => \A mint \in MINTS : Held(mint)' = Held(mint)
<1> SUFFICES ASSUME TypeOK, TypeOK', [Next]_vars, NEW mint \in MINTS
             PROVE  Held(mint)' = Held(mint)
    OBVIOUS
<1> USE EscrowAssumption
<1>0. /\ balance \in [Wallets -> Nat] /\ balance' \in [Wallets -> Nat]
      /\ vault \in [Addresses -> Nat] /\ vault' \in [Addresses -> Nat]
    BY DEF TypeOK, Wallets
<1>1. ASSUME NEW m \in MAKERS, NEW seed \in SEEDS, NEW mint_a \in MINTS, NEW mint_b \in MINTS,
             NEW deposit \in AMOUNTS, NEW receive \in AMOUNTS,
             Make(m, seed, mint_a, mint_b, deposit, receive)
      PROVE  Held(mint)' = Held(mint)
  <2> DEFINE a == <<m, seed>>
             r == [mint_a |-> mint_a, mint_b |-> mint_b, receive |-> receive]
  <2>1. /\ m \in PEOPLE /\ deposit \in Nat
        /\ a \in Addresses /\ <<m, mint_a>> \in Wallets
      BY DEF Addresses, Wallets
  <2>2. r \in Escrow /\ r # NoEscrow /\ r.mint_a = mint_a
      BY MakeRecordsEscrow
  <2>3. /\ escrow[a] = NoEscrow /\ escrow' = [escrow EXCEPT ![a] = r]
        /\ vault' = [vault EXCEPT ![a] = deposit]
      BY <1>1 DEF Make
  <2>4. CreditWallet(balance, m, mint_a, -deposit, balance')
      BY <1>0, <1>1, <2>1 DEF Make, CreditWallet, Adds
  <2> HIDE DEF a, r
  <2>5. \A x \in Addresses \ {a} : escrow'[x] = escrow[x] /\ vault'[x] = vault[x]
      BY <2>1, <2>3 DEF TypeOK
  <2>6. escrow'[a] = r /\ vault'[a] = deposit
      BY <2>1, <2>3 DEF TypeOK
  <2>7. a \notin Offering(mint) /\ (a \in Offering(mint)' <=> mint_a = mint)
      BY <2>1, <2>2, <2>3, <2>6 DEF Offering
  <2>8. PICK rest \in Int :
          /\ InVaults(mint) \in Int
          /\ a \notin Offering(mint) => InVaults(mint) = rest
          /\ a \in Offering(mint)' => InVaults(mint)' = vault'[a] + rest
          /\ a \notin Offering(mint)' => InVaults(mint)' = rest
      BY <2>1, <2>5, OneVaultMoves
  <2>9. /\ InVaults(mint) \in Int
        /\ mint_a = mint => InVaults(mint)' = InVaults(mint) + deposit
        /\ mint_a # mint => InVaults(mint)' = InVaults(mint)
      BY <2>1, <2>6, <2>7, <2>8
  <2> QED
      BY <2>1, <2>4, <2>9, MoveKeeps
<1>2. ASSUME NEW m \in MAKERS, NEW seed \in SEEDS, NEW taker \in PEOPLE, Take(m, seed, taker)
      PROVE  Held(mint)' = Held(mint)
  <2> DEFINE a == <<m, seed>>
             e == escrow[a]
             receive == -e.receive
             give == vault[a]
             given == -give
             debited == [balance EXCEPT ![<<taker, e.mint_b>>] = @ - e.receive]
             paid == Paid(m, taker, e)
             settled == balance'
             left == InVaults(mint)'
  <2>1. /\ e # NoEscrow /\ Close(m, seed) /\ e.receive <= balance[<<taker, e.mint_b>>]
        /\ settled = [paid EXCEPT ![<<taker, e.mint_a>>] = @ + give]
      BY <1>2 DEF Take, WithdrawAndClose, Settled, Moved
  <2>2. a \in Addresses /\ m \in PEOPLE
      BY DEF Addresses
  <2>3. /\ e.mint_a \in MINTS /\ e.mint_b \in MINTS /\ e.receive \in Nat
        /\ receive \in Int /\ receive = -e.receive
        /\ give \in Nat /\ given \in Int /\ given = -give
      BY <1>0, <2>1, <2>2, EscrowTypes
  <2>4. /\ <<taker, e.mint_b>> \in Wallets
        /\ <<m, e.mint_b>> \in Wallets
        /\ <<taker, e.mint_a>> \in Wallets
      BY <2>2, <2>3 DEF Wallets
  <2>5. CreditWallet(balance, taker, e.mint_b, receive, debited)
      BY <1>0, <2>3, <2>4 DEF CreditWallet, Adds
  <2>6. paid = [debited EXCEPT ![<<m, e.mint_b>>] = @ + e.receive]
      BY DEF Paid, Transferred
  <2>7. debited \in [Wallets -> Int] /\ paid \in [Wallets -> Int]
      BY <2>3, <2>4, <2>5, <2>6 DEF CreditWallet, Adds
  <2>8. /\ InVaults(mint) \in Int
        /\ e.mint_a = mint => left = InVaults(mint) + given
        /\ e.mint_a # mint => left = InVaults(mint)
      BY <2>1, CloseEmpties
  <2>9. settled \in [Wallets -> Int] /\ Held(mint)' = InWallets(settled, mint) + left
      BY <1>0, HeldIs
  <2> HIDE DEF a, e, receive, give, given, debited, paid, settled, left
  <2>10. CreditWallet(debited, m, e.mint_b, e.receive, paid)
      BY <2>2, <2>3, <2>4, <2>6, <2>7 DEF CreditWallet, Adds
  <2>11. CreditWallet(paid, taker, e.mint_a, give, settled)
      BY <2>1, <2>3, <2>4, <2>7, <2>9 DEF CreditWallet, Adds
  <2>12. /\ InWallets(balance, mint) \in Int
         /\ e.mint_b = mint => InWallets(debited, mint) = InWallets(balance, mint) + receive
         /\ e.mint_b # mint => InWallets(debited, mint) = InWallets(balance, mint)
      BY <2>5, WalletAdds
  <2>13. /\ e.mint_b = mint => InWallets(paid, mint) = InWallets(debited, mint) + e.receive
         /\ e.mint_b # mint => InWallets(paid, mint) = InWallets(debited, mint)
      BY <2>10, WalletAdds
  <2>14. /\ e.mint_a = mint => InWallets(settled, mint) = InWallets(paid, mint) + give
         /\ e.mint_a # mint => InWallets(settled, mint) = InWallets(paid, mint)
      BY <2>11, WalletAdds
  <2>15. InWallets(paid, mint) = InWallets(balance, mint)
      BY <2>3, <2>12, <2>13
  <2> QED
      BY <2>3, <2>8, <2>9, <2>12, <2>14, <2>15, HeldIs
<1>3. ASSUME NEW m \in MAKERS, NEW seed \in SEEDS, Refund(m, seed)
      PROVE  Held(mint)' = Held(mint)
  <2> DEFINE a == <<m, seed>>
             e == escrow[a]
             n == -vault[a]
  <2>1. /\ e # NoEscrow /\ Close(m, seed)
        /\ balance' = [balance EXCEPT ![<<m, e.mint_a>>] = @ + vault[a]]
      BY <1>3 DEF Refund, WithdrawAndClose, Settled, Moved
  <2>2. a \in Addresses /\ m \in PEOPLE
      BY DEF Addresses
  <2>3. e.mint_a \in MINTS /\ vault[a] \in Nat /\ n \in Int /\ -n = vault[a]
      BY <1>0, <2>1, <2>2, EscrowTypes
  <2>4. <<m, e.mint_a>> \in Wallets
      BY <2>2, <2>3 DEF Wallets
  <2>5. /\ InVaults(mint) \in Int
        /\ e.mint_a = mint => InVaults(mint)' = InVaults(mint) + n
        /\ e.mint_a # mint => InVaults(mint)' = InVaults(mint)
      BY <2>1, CloseEmpties
  <2> HIDE DEF a, e
  <2>6. CreditWallet(balance, m, e.mint_a, -n, balance')
      BY <1>0, <2>1, <2>2, <2>3, <2>4 DEF CreditWallet, Adds
  <2> HIDE DEF n
  <2> QED
      BY <2>3, <2>5, <2>6, MoveKeeps
<1>4. ASSUME NEW m \in MAKERS, NEW seed \in SEEDS, NEW donor \in PEOPLE, NEW n \in DEPOSITS,
             DirectDeposit(m, seed, donor, n)
      PROVE  Held(mint)' = Held(mint)
  <2> DEFINE a == <<m, seed>>
             e == escrow[a]
  <2>1. /\ e # NoEscrow /\ escrow' = escrow
        /\ vault' = [vault EXCEPT ![a] = @ + n]
        /\ balance' = [balance EXCEPT ![<<donor, e.mint_a>>] = @ - n]
      BY <1>4 DEF DirectDeposit
  <2>2. a \in Addresses /\ n \in Nat
      BY DEF Addresses
  <2>3. e.mint_a \in MINTS
      BY <2>1, <2>2, EscrowTypes
  <2>4. <<donor, e.mint_a>> \in Wallets
      BY <2>3 DEF Wallets
  <2>5. (a \in Offering(mint) <=> e.mint_a = mint) /\ (a \in Offering(mint)' <=> e.mint_a = mint)
      BY <2>1, <2>2 DEF Offering
  <2> HIDE DEF a, e
  <2>6. CreditWallet(balance, donor, e.mint_a, -n, balance')
      BY <1>0, <2>1, <2>2, <2>3, <2>4 DEF CreditWallet, Adds
  <2>7. /\ \A x \in Addresses \ {a} : escrow'[x] = escrow[x] /\ vault'[x] = vault[x]
        /\ vault[a] \in Nat /\ vault'[a] = vault[a] + n
      BY <1>0, <2>1, <2>2
  <2>8. PICK rest \in Int :
          /\ InVaults(mint) \in Int
          /\ a \in Offering(mint) => InVaults(mint) = vault[a] + rest
          /\ a \notin Offering(mint) => InVaults(mint) = rest
          /\ a \in Offering(mint)' => InVaults(mint)' = vault'[a] + rest
          /\ a \notin Offering(mint)' => InVaults(mint)' = rest
      BY <2>2, <2>7, OneVaultMoves
  <2>9. /\ InVaults(mint) \in Int
        /\ e.mint_a = mint => InVaults(mint)' = InVaults(mint) + n
        /\ e.mint_a # mint => InVaults(mint)' = InVaults(mint)
      BY <2>2, <2>5, <2>7, <2>8
  <2> QED
      BY <2>2, <2>6, <2>9, MoveKeeps
<1>5. ASSUME UNCHANGED vars
      PROVE  Held(mint)' = Held(mint)
    BY <1>5 DEF vars, Held, Offering
<1> QED
    BY <1>1, <1>2, <1>3, <1>4, <1>5 DEF Next

LEMMA InitConserved == Init => Conserved
<1> SUFFICES ASSUME Init, NEW mint \in MINTS
             PROVE  Held(mint) = Endowment * Cardinality(PEOPLE)
    BY DEF Conserved
<1>1. \A p \in PEOPLE : balance[<<p, mint>>] = Endowment
    BY DEF Init
<1>2. InWallets(balance, mint) = Endowment * Cardinality(PEOPLE)
    BY <1>1, ColumnConstant, EscrowAssumption DEF InWallets
<1>3. Offering(mint) = {}
    BY DEF Init, Offering
<1>4. InVaults(mint) = 0
    BY <1>3, SumEmpty DEF InVaults
<1>5. Endowment * Cardinality(PEOPLE) \in Nat
    BY FS_CardinalityType, EscrowAssumption
<1> QED
    BY <1>2, <1>4, <1>5, HeldIs

(* Whatever escrows are made, taken and refunded, and whatever is sent to their
   vaults, every token of every mint is in a wallet or in the vault of an open escrow
   that offers this mint: closing a vault strands nothing, and the next escrow under
   the seed starts from an empty one. *)
THEOREM TokensConserved == Spec => []Conserved
<1>1. TypeOK /\ TypeOK' /\ Conserved /\ [Next]_vars => Conserved'
    BY StepConserved DEF Conserved
<1> QED
    BY <1>1, InitConserved, TypeInvariance, PTL DEF Spec

=============================================================================
