-------------------------- MODULE AccelEscrowProofs --------------------------
(***************************************************************************)
(* AccelEscrow keeps its types, its vaults hold exactly what was promised  *)
(* and donated, it implements AtomicSwap, and no token is lost or made.    *)
(***************************************************************************)
EXTENDS AccelEscrow, SumTheorems

Accounts == Addresses \X MINTS \X Vaults
Wallets == PEOPLE \X MINTS

(* The wallet that make takes the tokens from, and that refund returns them to. *)
LEMMA MakerType ==
    ASSUME NEW a \in Addresses
    PROVE  Maker(a) \in PEOPLE
BY EscrowAssumption DEF Addresses, Maker

(* The balances after a transfer that the payer can afford are again balances. *)
LEMMA TransferredTypes ==
    ASSUME NEW b \in [Wallets -> Nat], NEW from \in PEOPLE, NEW to \in PEOPLE,
           NEW mint \in MINTS, NEW n \in Nat, n <= b[<<from, mint>>]
    PROVE  Transferred(b, from, to, mint, n) \in [Wallets -> Nat]
<1> DEFINE debited == [b EXCEPT ![<<from, mint>>] = @ - n]
<1>1. <<from, mint>> \in Wallets /\ <<to, mint>> \in Wallets
    BY DEF Wallets
<1>2. b[<<from, mint>>] - n \in Nat
    BY <1>1
<1>3. debited \in [Wallets -> Nat]
    BY <1>1, <1>2
<1>4. debited[<<to, mint>>] + n \in Nat
    BY <1>1, <1>3
<1> QED
    BY <1>1, <1>3, <1>4 DEF Transferred

(* Adding to one entry of a table of amounts, or taking no more than is there,
   keeps it one. *)
LEMMA Credit ==
    ASSUME NEW D, NEW b \in [D -> Nat], NEW w \in D, NEW n \in Nat
    PROVE  [b EXCEPT ![w] = @ + n] \in [D -> Nat]
BY b[w] + n \in Nat

LEMMA Debit ==
    ASSUME NEW D, NEW b \in [D -> Nat], NEW w \in D, NEW n \in Nat, n <= b[w]
    PROVE  [b EXCEPT ![w] = @ - n] \in [D -> Nat]
BY b[w] - n \in Nat

LEMMA EscrowTypes ==
    ASSUME TypeOK, NEW a \in Addresses, escrow[a] # NoEscrow
    PROVE  /\ escrow[a].maker \in PEOPLE
           /\ escrow[a].mint_a \in MINTS
           /\ escrow[a].mint_b \in MINTS
           /\ escrow[a].give \in Nat
           /\ escrow[a].receive \in Nat
<1>1. escrow[a] \in Escrow
    BY DEF TypeOK
<1> QED
    BY <1>1 DEF Escrow

LEMMA InitTypeOK == Init => TypeOK
BY EscrowAssumption DEF Init, TypeOK

LEMMA WithdrawTypes ==
    ASSUME TypeOK, NEW a \in Addresses, NEW v \in Vaults, escrow[a] # NoEscrow, Withdraw(a, v)
    PROVE  /\ escrow' \in [Addresses -> Escrow \cup {NoEscrow}]
           /\ token_account' \in SUBSET Accounts
           /\ vault' \in [Accounts -> Nat]
           /\ \A t \in DOMAIN vault' : t \notin token_account' => vault'[t] = 0
<1>1. <<a, escrow[a].mint_a, v>> \in Accounts
    BY EscrowTypes DEF Accounts
<1> QED
    BY <1>1 DEF Withdraw, TypeOK, Accounts

LEMMA StepTypeOK == TypeOK /\ [Next]_vars => TypeOK'
<1> SUFFICES ASSUME TypeOK, [Next]_vars
             PROVE  TypeOK'
    OBVIOUS
<1> USE EscrowAssumption
<1>1. ASSUME NEW a \in Addresses, NEW mint_a \in MINTS, NEW mint_b \in MINTS,
             NEW give \in AMOUNTS, NEW receive \in AMOUNTS,
             Make(a, mint_a, mint_b, give, receive)
      PROVE  TypeOK'
  <2>1. give \in Nat /\ receive \in Nat /\ Maker(a) \in PEOPLE
      BY MakerType
  <2>2. <<a, mint_a, "ata">> \in Accounts /\ <<Maker(a), mint_a>> \in Wallets
      BY <2>1 DEF Accounts, Wallets
  <2>3. balance' \in [Wallets -> Nat]
      BY <1>1, <2>1, <2>2, Debit DEF Make, TypeOK, Wallets
  <2>4. vault' \in [Accounts -> Nat]
      BY <1>1, <2>1, <2>2, Credit DEF Make, TypeOK, Accounts
  <2>5. \A t \in DOMAIN vault' : t \notin token_account' => vault'[t] = 0
      BY <1>1, <2>2 DEF Make, TypeOK, Accounts
  <2>6. Recorded(Maker(a), mint_a, mint_b, give, receive) \in Escrow
      BY <2>1 DEF Recorded, Escrow
  <2>7. escrow' \in [Addresses -> Escrow \cup {NoEscrow}]
      BY <1>1, <2>6 DEF Make, TypeOK
  <2> QED
      BY <1>1, <2>2, <2>3, <2>4, <2>5, <2>7 DEF Make, TypeOK, Accounts, Wallets
<1>2. ASSUME NEW a \in Addresses, NEW taker \in PEOPLE, NEW v \in Vaults, Take(a, taker, v)
      PROVE  TypeOK'
  <2> DEFINE e == escrow[a]
  <2>1. e # NoEscrow /\ Withdraw(a, v) /\ e.receive <= balance[<<taker, e.mint_b>>]
      BY <1>2 DEF Take
  <2>2. Paid(taker, e) \in [Wallets -> Nat]
      BY <2>1, EscrowTypes, TransferredTypes DEF Paid, TypeOK, Wallets
  <2>3. <<taker, e.mint_a>> \in Wallets /\ e.give \in Nat
      BY <2>1, EscrowTypes DEF Wallets
  <2>4. balance' = [Paid(taker, e) EXCEPT ![<<taker, e.mint_a>>] = @ + e.give]
      BY <1>2 DEF Take
  <2>5. balance' \in [Wallets -> Nat]
      BY <2>2, <2>3, <2>4, Credit
  <2> QED
      BY <1>2, <2>1, <2>5, WithdrawTypes DEF Take, TypeOK, Accounts, Wallets
<1>3. ASSUME NEW a \in Addresses, NEW v \in Vaults, Refund(a, v)
      PROVE  TypeOK'
  <2>1. escrow[a] # NoEscrow /\ Withdraw(a, v)
      BY <1>3 DEF Refund
  <2>2. <<Maker(a), escrow[a].mint_a>> \in Wallets /\ escrow[a].give \in Nat
      BY <2>1, EscrowTypes, MakerType DEF Wallets
  <2>3. balance' \in [Wallets -> Nat]
      BY <1>3, <2>2, Credit DEF Refund, TypeOK, Wallets
  <2> QED
      BY <1>3, <2>1, <2>3, WithdrawTypes DEF Refund, TypeOK, Accounts, Wallets
<1>4. ASSUME NEW a \in Addresses, NEW donor \in PEOPLE, NEW mint \in MINTS, NEW v \in Vaults,
             NEW n \in DEPOSITS, DirectDeposit(a, mint, v, donor, n)
      PROVE  TypeOK'
  <2>1. n \in Nat /\ <<a, mint, v>> \in Accounts /\ <<donor, mint>> \in Wallets
      BY DEF Accounts, Wallets
  <2>2. balance' \in [Wallets -> Nat]
      BY <1>4, <2>1, Debit DEF DirectDeposit, TypeOK, Wallets
  <2>3. vault' \in [Accounts -> Nat]
      BY <1>4, <2>1, Credit DEF DirectDeposit, TypeOK, Accounts
  <2>4. \A t \in DOMAIN vault' : t \notin token_account' => vault'[t] = 0
      BY <1>4, <2>1 DEF DirectDeposit, TypeOK, Accounts
  <2>5. donated' \in [Addresses -> Nat]
      BY <1>4, <2>1 DEF DirectDeposit, TypeOK
  <2> QED
      BY <1>4, <2>2, <2>3, <2>4, <2>5 DEF DirectDeposit, TypeOK, Accounts, Wallets
<1>5. ASSUME NEW a \in Addresses, NEW mint \in MINTS, NEW v \in Vaults,
             OpenTokenAccount(a, mint, v)
      PROVE  TypeOK'
    BY <1>5 DEF OpenTokenAccount, TypeOK
<1>6. CASE UNCHANGED vars
    BY <1>6 DEF vars, TypeOK
<1> QED
    BY <1>1, <1>2, <1>3, <1>4, <1>5, <1>6 DEF Next

(* Types hold for any number of makers, bumps, mints and token accounts, and an account
   that take or refund closed is empty. *)
THEOREM TypeCorrect == Spec => []TypeOK
<1>1. Init => TypeOK
    BY InitTypeOK
<1>2. TypeOK /\ [Next]_vars => TypeOK'
    BY StepTypeOK
<1> QED
    BY <1>1, <1>2, PTL DEF Spec

---------------------------------------------------------------------------
(* What the associated account holds. *)

Inv == TypeOK /\ VaultExact

LEMMA StepVaultExact == Inv /\ [Next]_vars => VaultExact'
<1> SUFFICES ASSUME Inv, [Next]_vars
             PROVE  VaultExact'
    OBVIOUS
<1> USE EscrowAssumption DEF Inv
<1>1. ASSUME NEW a \in Addresses, NEW mint_a \in MINTS, NEW mint_b \in MINTS,
             NEW give \in AMOUNTS, NEW receive \in AMOUNTS,
             Make(a, mint_a, mint_b, give, receive)
      PROVE  VaultExact'
  <2>1. give \in Nat /\ <<a, mint_a, "ata">> \in Accounts
      BY DEF Accounts
  <2>2. vault[<<a, mint_a, "ata">>] = 0
      BY <1>1, <2>1 DEF Make, TypeOK, Accounts
  <2>3. ASSUME NEW k \in Addresses, escrow'[k] # NoEscrow, k = a
        PROVE  /\ escrow'[k].maker = Maker(k)
               /\ <<k, escrow'[k].mint_a, "ata">> \in token_account'
               /\ vault'[<<k, escrow'[k].mint_a, "ata">>] = escrow'[k].give + donated'[k]
    <3>1. escrow'[a].maker = Maker(a) /\ escrow'[a].mint_a = mint_a /\ escrow'[a].give = give
        BY <1>1 DEF Make, TypeOK, Recorded
    <3>2. vault'[<<a, mint_a, "ata">>] = give /\ donated'[a] = 0
        BY <1>1, <2>1, <2>2 DEF Make, TypeOK, Accounts
    <3> QED
        BY <1>1, <2>1, <2>3, <3>1, <3>2 DEF Make
  <2>4. ASSUME NEW k \in Addresses, escrow'[k] # NoEscrow, k # a
        PROVE  /\ escrow'[k].maker = Maker(k)
               /\ <<k, escrow'[k].mint_a, "ata">> \in token_account'
               /\ vault'[<<k, escrow'[k].mint_a, "ata">>] = escrow'[k].give + donated'[k]
    <3>1. escrow'[k] = escrow[k] /\ donated'[k] = donated[k]
        BY <1>1, <2>4 DEF Make, TypeOK
    <3>2. <<k, escrow[k].mint_a, "ata">> \in Accounts
        BY <2>4, <3>1, EscrowTypes DEF Accounts
    <3>3. vault'[<<k, escrow[k].mint_a, "ata">>] = vault[<<k, escrow[k].mint_a, "ata">>]
        BY <1>1, <2>4, <3>2 DEF Make, TypeOK, Accounts
    <3> QED
        BY <1>1, <2>4, <3>1, <3>3 DEF Make, VaultExact
  <2> QED
      BY <2>3, <2>4 DEF VaultExact
<1>2. ASSUME NEW a \in Addresses, NEW v \in Vaults, escrow[a] # NoEscrow, Withdraw(a, v),
             UNCHANGED donated
      PROVE  VaultExact'
  <2> SUFFICES ASSUME NEW k \in Addresses, escrow'[k] # NoEscrow
               PROVE  /\ escrow'[k].maker = Maker(k)
                      /\ <<k, escrow'[k].mint_a, "ata">> \in token_account'
                      /\ vault'[<<k, escrow'[k].mint_a, "ata">>]
                            = escrow'[k].give + donated'[k]
      BY DEF VaultExact
  <2>1. k # a /\ escrow'[k] = escrow[k]
      BY <1>2 DEF Withdraw, TypeOK
  <2>2. <<k, escrow[k].mint_a, "ata">> \in Accounts
      BY <2>1, EscrowTypes DEF Accounts
  <2>3. <<k, escrow[k].mint_a, "ata">> # <<a, escrow[a].mint_a, v>>
      BY <2>1
  <2> QED
      BY <1>2, <2>1, <2>2, <2>3 DEF Withdraw, TypeOK, Accounts, VaultExact
<1>3. ASSUME NEW a \in Addresses, NEW donor \in PEOPLE, NEW mint \in MINTS, NEW v \in Vaults,
             NEW n \in DEPOSITS, DirectDeposit(a, mint, v, donor, n)
      PROVE  VaultExact'
  <2> SUFFICES ASSUME NEW k \in Addresses, escrow'[k] # NoEscrow
               PROVE  /\ escrow'[k].maker = Maker(k)
                      /\ <<k, escrow'[k].mint_a, "ata">> \in token_account'
                      /\ vault'[<<k, escrow'[k].mint_a, "ata">>]
                            = escrow'[k].give + donated'[k]
      BY DEF VaultExact
  <2>1. escrow' = escrow /\ token_account' = token_account /\ n \in Nat
      BY <1>3 DEF DirectDeposit
  <2>2. <<k, escrow[k].mint_a, "ata">> \in Accounts /\ escrow[k].give \in Nat
      BY <2>1, EscrowTypes DEF Accounts
  <2>3. CASE k = a /\ mint = escrow[k].mint_a /\ v = "ata"
    <3>1. vault'[<<k, escrow[k].mint_a, "ata">>] = vault[<<k, escrow[k].mint_a, "ata">>] + n
        BY <1>3, <2>2, <2>3 DEF DirectDeposit, TypeOK, Accounts
    <3>2. donated'[k] = donated[k] + n
        BY <1>3, <2>1, <2>3 DEF DirectDeposit, TypeOK
    <3> QED
        BY <2>1, <2>2, <3>1, <3>2 DEF VaultExact, TypeOK
  <2>4. CASE ~ (k = a /\ mint = escrow[k].mint_a /\ v = "ata")
    <3>1. vault'[<<k, escrow[k].mint_a, "ata">>] = vault[<<k, escrow[k].mint_a, "ata">>]
        BY <1>3, <2>2, <2>4 DEF DirectDeposit, TypeOK, Accounts
    <3>2. donated'[k] = donated[k]
        BY <1>3, <2>1, <2>4 DEF DirectDeposit, TypeOK
    <3> QED
        BY <2>1, <3>1, <3>2 DEF VaultExact
  <2> QED
      BY <2>3, <2>4
<1>4. ASSUME NEW a \in Addresses, NEW mint \in MINTS, NEW v \in Vaults,
             OpenTokenAccount(a, mint, v)
      PROVE  VaultExact'
    BY <1>4 DEF OpenTokenAccount, VaultExact
<1>5. CASE UNCHANGED vars
    BY <1>5 DEF vars, VaultExact
<1> QED
    BY <1>1, <1>2, <1>3, <1>4, <1>5 DEF Next, Take, Refund

LEMMA Invariance == Spec => []Inv
<1>1. Init => Inv
    BY InitTypeOK DEF Init, Inv, VaultExact
<1>2. Inv /\ [Next]_vars => Inv'
    BY StepTypeOK, StepVaultExact DEF Inv
<1> QED
    BY <1>1, <1>2, PTL DEF Spec

(* However many makers, bumps, mints and further token accounts there are, the associated
   account of an open escrow holds the promised amount and the donations. *)
THEOREM VaultStaysExact == Spec => []VaultExact
<1>1. Inv => VaultExact
    BY DEF Inv
<1> QED
    BY <1>1, Invariance, PTL

---------------------------------------------------------------------------
(* The escrow program implements the swap. *)

LEMMA StepImplementsSwap == Inv /\ [Next]_vars => [Swap!Next]_(Swap!vars)
<1> SUFFICES ASSUME Inv, [Next]_vars
             PROVE  Swap!Next \/ UNCHANGED <<escrow, balance>>
    BY DEF Swap!vars
<1> USE EscrowAssumption
<1>1. ASSUME NEW a \in Addresses, NEW mint_a \in MINTS, NEW mint_b \in MINTS,
             NEW give \in AMOUNTS, NEW receive \in AMOUNTS,
             Make(a, mint_a, mint_b, give, receive)
      PROVE  Swap!Next
  <2>1. Maker(a) \in PEOPLE
      BY MakerType
  <2>2. Swap!Make(a, Maker(a), mint_a, mint_b, give, receive)
      BY <1>1 DEF Make, Swap!Make, Recorded
  <2> QED
      BY <2>1, <2>2 DEF Swap!Next
<1>2. ASSUME NEW a \in Addresses, NEW taker \in PEOPLE, NEW v \in Vaults, Take(a, taker, v)
      PROVE  Swap!Next
  <2>1. Swap!Take(a, taker)
      BY <1>2 DEF Take, Withdraw, Paid, Transferred, Swap!Take, Swap!Transferred
  <2> QED
      BY <2>1 DEF Swap!Next
<1>3. ASSUME NEW a \in Addresses, NEW v \in Vaults, Refund(a, v)
      PROVE  Swap!Next
  <2>1. escrow[a].maker = Maker(a)
      BY <1>3 DEF Refund, Inv, VaultExact
  <2>2. Swap!Refund(a)
      BY <1>3, <2>1 DEF Refund, Withdraw, Swap!Refund
  <2> QED
      BY <2>2 DEF Swap!Next
<1>4. ASSUME NEW a \in Addresses, NEW donor \in PEOPLE, NEW mint \in MINTS, NEW v \in Vaults,
             NEW n \in DEPOSITS, DirectDeposit(a, mint, v, donor, n)
      PROVE  Swap!Next
  <2>1. n \in AMOUNTS
      OBVIOUS
  <2>2. Swap!Lose(donor, mint, n)
      BY <1>4 DEF DirectDeposit, Swap!Lose
  <2> QED
      BY <2>1, <2>2 DEF Swap!Next
<1>5. ASSUME NEW a \in Addresses, NEW mint \in MINTS, NEW v \in Vaults,
             OpenTokenAccount(a, mint, v)
      PROVE  UNCHANGED <<escrow, balance>>
    BY <1>5 DEF OpenTokenAccount
<1>6. CASE UNCHANGED vars
    BY <1>6 DEF vars
<1> QED
    BY <1>1, <1>2, <1>3, <1>4, <1>5, <1>6 DEF Next

(* Every instruction of the program is one step of an atomic swap, or no step: no
   choice of token accounts by takers and makers lets one side move alone. *)
THEOREM ImplementsSwap == Spec => SwapSpec
<1>1. Init => Swap!Init
    BY DEF Init, Swap!Init
<1>2. Inv /\ [Next]_vars => [Swap!Next]_(Swap!vars)
    BY StepImplementsSwap
<1> QED
    BY <1>1, <1>2, Invariance, PTL DEF Spec, SwapSpec, Swap!Spec

---------------------------------------------------------------------------
(* No tokens are created or destroyed. *)

OfMint(mint) == Addresses \X {mint} \X Vaults

(* Of a product of three sets, the library's theorem on products of two says that
   OfMint is finite: it is the image of the escrows' kinds of accounts. *)
LEMMA OfMintFinite ==
    ASSUME NEW mint \in MINTS
    PROVE  OfMint(mint) \in SUBSET Accounts /\ IsFiniteSet(OfMint(mint))
<1> DEFINE place == [p \in Addresses \X Vaults |-> <<p[1], mint, p[2]>>]
<1>1. IsFiniteSet(Addresses \X Vaults)
  <2>1. IsFiniteSet(MAKERS) /\ IsFiniteSet(BUMPS) /\ IsFiniteSet(Vaults)
      BY EscrowAssumption, FS_Subset
  <2>2. IsFiniteSet(Addresses)
      BY <2>1, FS_Product DEF Addresses
  <2> QED
      BY <2>1, <2>2, FS_Product
<1>2. place \in [Addresses \X Vaults -> OfMint(mint)]
    BY DEF OfMint
<1>3. ASSUME NEW t \in OfMint(mint)
      PROVE  \E p \in Addresses \X Vaults : place[p] = t
  <2>1. <<t[1], t[3]>> \in Addresses \X Vaults /\ t = <<t[1], mint, t[3]>>
      BY DEF OfMint
  <2> QED
      BY <2>1
<1>4. place \in Surjection(Addresses \X Vaults, OfMint(mint))
    BY <1>2, <1>3 DEF Surjection
<1> HIDE DEF place
<1>5. IsFiniteSet(OfMint(mint))
    BY <1>1, <1>4, FS_Surjection
<1> QED
    BY <1>5 DEF OfMint, Accounts

(* Crediting a wallet with n, or debiting it when n is negative; the same of a token
   account of an escrow. *)
CreditWallet(f, p, k, n, g) ==
    p \in PEOPLE /\ k \in MINTS /\ n \in Int /\ Adds(Wallets, f, <<p, k>>, n, g)
CreditVault(f, a, k, v, n, g) ==
    /\ a \in Addresses /\ k \in MINTS /\ v \in Vaults /\ n \in Int
    /\ Adds(Accounts, f, <<a, k, v>>, n, g)

(* What all of them hold of a mint. *)
InWallets(f, mint) == Column(f, PEOPLE, mint)
InVaults(f, mint) == SumFunctionOnSet(f, OfMint(mint))

LEMMA WalletAdds ==
    ASSUME NEW mint \in MINTS, NEW f, NEW g, NEW p, NEW k, NEW n, CreditWallet(f, p, k, n, g)
    PROVE  /\ InWallets(f, mint) \in Int
           /\ k = mint => InWallets(g, mint) = InWallets(f, mint) + n
           /\ k # mint => InWallets(g, mint) = InWallets(f, mint)
<1>1. Credits(PEOPLE, MINTS, f, p, k, n, g)
    BY DEF CreditWallet, Wallets, Credits
<1> QED
    BY <1>1, ColumnAdds, EscrowAssumption DEF InWallets

LEMMA VaultAdds ==
    ASSUME NEW mint \in MINTS, NEW f, NEW g, NEW a, NEW k, NEW v, NEW n,
           CreditVault(f, a, k, v, n, g)
    PROVE  /\ InVaults(f, mint) \in Int
           /\ k = mint => InVaults(g, mint) = InVaults(f, mint) + n
           /\ k # mint => InVaults(g, mint) = InVaults(f, mint)
<1> DEFINE part == OfMint(mint)
           t == <<a, k, v>>
<1>1. n \in Int /\ t \in Accounts /\ (t \in part <=> k = mint) /\ Adds(Accounts, f, t, n, g)
    BY DEF Accounts, OfMint, CreditVault
<1>2. part \in SUBSET Accounts /\ IsFiniteSet(part)
    BY OfMintFinite
<1> HIDE DEF part, t
<1>3. /\ SumFunctionOnSet(f, part) \in Int
      /\ t \in part => SumFunctionOnSet(g, part) = SumFunctionOnSet(f, part) + n
      /\ t \notin part => SumFunctionOnSet(g, part) = SumFunctionOnSet(f, part)
    BY <1>1, <1>2, SumAdds
<1> QED
    BY <1>1, <1>3 DEF part, InVaults

LEMMA HeldIs ==
    ASSUME NEW mint \in MINTS
    PROVE  /\ Held(mint) = InWallets(balance, mint) + InVaults(vault, mint)
           /\ Held(mint)' = InWallets(balance', mint) + InVaults(vault', mint)
BY DEF Held, InWallets, Column, InVaults, OfMint

(* What leaves a wallet for a token account of the same mint, or comes back, is held
   before and after. *)
LEMMA MoveKeeps ==
    ASSUME NEW p \in PEOPLE, NEW a \in Addresses, NEW k \in MINTS, NEW v \in Vaults,
           NEW n \in Int,
           CreditWallet(balance, p, k, -n, balance'),
           CreditVault(vault, a, k, v, n, vault'),
           NEW mint \in MINTS
    PROVE  Held(mint)' = Held(mint)
<1> DEFINE d == -n
           b == balance'
           w == vault'
<1>1. d \in Int /\ d = -n
    OBVIOUS
<1>2. CreditWallet(balance, p, k, d, b) /\ CreditVault(vault, a, k, v, n, w)
    OBVIOUS
<1>3. Held(mint)' = InWallets(b, mint) + InVaults(w, mint)
    BY HeldIs
<1> HIDE DEF d, b, w
<1>4. /\ InWallets(balance, mint) \in Int
      /\ k = mint => InWallets(b, mint) = InWallets(balance, mint) + d
      /\ k # mint => InWallets(b, mint) = InWallets(balance, mint)
    BY <1>1, <1>2, WalletAdds
<1>5. /\ InVaults(vault, mint) \in Int
      /\ k = mint => InVaults(w, mint) = InVaults(vault, mint) + n
      /\ k # mint => InVaults(w, mint) = InVaults(vault, mint)
    BY <1>2, VaultAdds
<1> QED
    BY <1>1, <1>3, <1>4, <1>5, HeldIs

(* The token account that take and refund empty. *)
LEMMA WithdrawAdds ==
    ASSUME TypeOK, NEW a \in Addresses, NEW v \in Vaults, escrow[a] # NoEscrow, Withdraw(a, v)
    PROVE  CreditVault(vault, a, escrow[a].mint_a, v, -escrow[a].give, vault')
<1> DEFINE t == <<a, escrow[a].mint_a, v>>
           n == escrow[a].give
<1>1. escrow[a].mint_a \in MINTS /\ -escrow[a].give \in Int
    BY EscrowTypes
<1>2. t \in Accounts /\ n \in Nat
    BY EscrowTypes DEF Accounts
<1>3. vault \in [Accounts -> Nat]
    BY DEF TypeOK, Accounts
<1>4. vault[t] = n /\ vault' = [vault EXCEPT ![t] = 0]
    BY DEF Withdraw
<1> HIDE DEF t, n
<1>5. Adds(Accounts, vault, t, -n, vault')
    BY <1>2, <1>3, <1>4 DEF Adds
<1> QED
    BY <1>1, <1>5 DEF t, n, CreditVault

LEMMA StepConserved ==
    TypeOK /\ TypeOK' /\ [Next]_vars => \A mint \in MINTS : Held(mint)' = Held(mint)
<1> SUFFICES ASSUME TypeOK, TypeOK', [Next]_vars, NEW mint \in MINTS
             PROVE  Held(mint)' = Held(mint)
    OBVIOUS
<1> USE EscrowAssumption
<1>0. /\ balance \in [Wallets -> Nat] /\ balance' \in [Wallets -> Nat]
      /\ vault \in [Accounts -> Nat] /\ vault' \in [Accounts -> Nat]
    BY DEF TypeOK, Wallets, Accounts
<1>1. ASSUME NEW a \in Addresses, NEW mint_a \in MINTS, NEW mint_b \in MINTS,
             NEW give \in AMOUNTS, NEW receive \in AMOUNTS,
             Make(a, mint_a, mint_b, give, receive)
      PROVE  Held(mint)' = Held(mint)
  <2>1. /\ Maker(a) \in PEOPLE /\ give \in Int /\ "ata" \in Vaults
        /\ <<Maker(a), mint_a>> \in Wallets /\ <<a, mint_a, "ata">> \in Accounts
      BY MakerType DEF Wallets, Accounts
  <2>2. CreditWallet(balance, Maker(a), mint_a, -give, balance')
      BY <1>0, <1>1, <2>1 DEF Make, CreditWallet, CreditVault, Adds
  <2>3. CreditVault(vault, a, mint_a, "ata", give, vault')
      BY <1>0, <1>1, <2>1 DEF Make, CreditWallet, CreditVault, Adds
  <2> QED
      BY <2>1, <2>2, <2>3, MoveKeeps
<1>2. ASSUME NEW a \in Addresses, NEW taker \in PEOPLE, NEW v \in Vaults, Take(a, taker, v)
      PROVE  Held(mint)' = Held(mint)
  <2> DEFINE e == escrow[a]
             receive == -e.receive
             give == -e.give
             debited == [balance EXCEPT ![<<taker, e.mint_b>>] = @ - e.receive]
             paid == Paid(taker, e)
             settled == balance'
             emptied == vault'
  <2>1. /\ e # NoEscrow /\ Withdraw(a, v) /\ e.receive <= balance[<<taker, e.mint_b>>]
        /\ settled = [paid EXCEPT ![<<taker, e.mint_a>>] = @ + e.give]
      BY <1>2 DEF Take
  <2>2. /\ e.maker \in PEOPLE /\ e.mint_a \in MINTS /\ e.mint_b \in MINTS
        /\ e.give \in Nat /\ e.receive \in Nat
        /\ receive \in Int /\ receive = -e.receive /\ give \in Int /\ give = -e.give
      BY <2>1, EscrowTypes
  <2>3. /\ <<taker, e.mint_b>> \in Wallets
        /\ <<e.maker, e.mint_b>> \in Wallets
        /\ <<taker, e.mint_a>> \in Wallets
      BY <2>2 DEF Wallets
  <2>4. CreditWallet(balance, taker, e.mint_b, receive, debited)
      BY <1>0, <2>2, <2>3 DEF CreditWallet, Adds
  <2>5. paid = [debited EXCEPT ![<<e.maker, e.mint_b>>] = @ + e.receive]
      BY DEF Paid, Transferred
  <2>6. debited \in [Wallets -> Int] /\ paid \in [Wallets -> Int]
      BY <2>2, <2>3, <2>4, <2>5 DEF CreditWallet, Adds
  <2>7. CreditVault(vault, a, e.mint_a, v, give, emptied)
      BY <2>1, WithdrawAdds
  <2>8. settled \in [Wallets -> Int]
      BY <1>0
  <2>9. Held(mint)' = InWallets(settled, mint) + InVaults(emptied, mint)
      BY HeldIs
  <2> HIDE DEF debited, paid, e, receive, give, settled, emptied
  <2>10. CreditWallet(debited, e.maker, e.mint_b, e.receive, paid)
      BY <2>2, <2>3, <2>5, <2>6 DEF CreditWallet, Adds
  <2>11. CreditWallet(paid, taker, e.mint_a, e.give, settled)
      BY <2>1, <2>2, <2>3, <2>6, <2>8 DEF CreditWallet, Adds
  <2>12. /\ InWallets(balance, mint) \in Int
         /\ e.mint_b = mint => InWallets(debited, mint) = InWallets(balance, mint) + receive
         /\ e.mint_b # mint => InWallets(debited, mint) = InWallets(balance, mint)
      BY <2>2, <2>4, WalletAdds
  <2>13. /\ e.mint_b = mint => InWallets(paid, mint) = InWallets(debited, mint) + e.receive
         /\ e.mint_b # mint => InWallets(paid, mint) = InWallets(debited, mint)
      BY <2>2, <2>10, WalletAdds
  <2>14. /\ e.mint_a = mint => InWallets(settled, mint) = InWallets(paid, mint) + e.give
         /\ e.mint_a # mint => InWallets(settled, mint) = InWallets(paid, mint)
      BY <2>2, <2>11, WalletAdds
  <2>15. /\ InVaults(vault, mint) \in Int
         /\ e.mint_a = mint => InVaults(emptied, mint) = InVaults(vault, mint) + give
         /\ e.mint_a # mint => InVaults(emptied, mint) = InVaults(vault, mint)
      BY <2>2, <2>7, VaultAdds
  <2>16. InWallets(paid, mint) = InWallets(balance, mint)
      BY <2>2, <2>12, <2>13
  <2> QED
      BY <2>2, <2>9, <2>12, <2>14, <2>15, <2>16, HeldIs
<1>3. ASSUME NEW a \in Addresses, NEW v \in Vaults, Refund(a, v)
      PROVE  Held(mint)' = Held(mint)
  <2> DEFINE e == escrow[a]
             n == -e.give
  <2>1. /\ e # NoEscrow /\ Withdraw(a, v) /\ Maker(a) \in PEOPLE
        /\ balance' = [balance EXCEPT ![<<Maker(a), e.mint_a>>] = @ + e.give]
      BY <1>3, MakerType DEF Refund
  <2>2. e.mint_a \in MINTS /\ e.give \in Nat /\ n \in Int /\ -n = e.give
      BY <2>1, EscrowTypes
  <2>3. <<Maker(a), e.mint_a>> \in Wallets
      BY <2>1, <2>2 DEF Wallets
  <2>4. CreditVault(vault, a, e.mint_a, v, n, vault')
      BY <2>1, WithdrawAdds
  <2> HIDE DEF e
  <2>5. CreditWallet(balance, Maker(a), e.mint_a, -n, balance')
      BY <1>0, <2>1, <2>2, <2>3 DEF CreditWallet, Adds
  <2> HIDE DEF n
  <2> QED
      BY <2>1, <2>2, <2>4, <2>5, MoveKeeps
<1>4. ASSUME NEW a \in Addresses, NEW donor \in PEOPLE, NEW k \in MINTS, NEW v \in Vaults,
             NEW n \in DEPOSITS, DirectDeposit(a, k, v, donor, n)
      PROVE  Held(mint)' = Held(mint)
  <2>1. n \in Int /\ <<a, k, v>> \in Accounts /\ <<donor, k>> \in Wallets
      BY DEF Accounts, Wallets
  <2>2. CreditWallet(balance, donor, k, -n, balance')
      BY <1>0, <1>4, <2>1 DEF DirectDeposit, CreditWallet, CreditVault, Adds
  <2>3. CreditVault(vault, a, k, v, n, vault')
      BY <1>0, <1>4, <2>1 DEF DirectDeposit, CreditWallet, CreditVault, Adds
  <2> QED
      BY <2>1, <2>2, <2>3, MoveKeeps
<1>5. ASSUME UNCHANGED <<vault, balance>>
      PROVE  Held(mint)' = Held(mint)
    BY <1>5 DEF Held
<1> QED
    BY <1>1, <1>2, <1>3, <1>4, <1>5 DEF Next, OpenTokenAccount, vars

LEMMA InitConserved == Init => Conserved
<1> SUFFICES ASSUME Init, NEW mint \in MINTS
             PROVE  Held(mint) = Endowment * Cardinality(PEOPLE)
    BY DEF Conserved
<1>1. /\ \A p \in PEOPLE : balance[<<p, mint>>] = Endowment
      /\ \A t \in OfMint(mint) : vault[t] = 0
    BY DEF Init, OfMint
<1>2. InWallets(balance, mint) = Endowment * Cardinality(PEOPLE)
    BY <1>1, ColumnConstant, EscrowAssumption DEF InWallets
<1>3. InVaults(vault, mint) = 0
    BY <1>1, OfMintFinite, SumZero DEF InVaults
<1>4. Endowment * Cardinality(PEOPLE) \in Nat
    BY FS_CardinalityType, EscrowAssumption
<1> QED
    BY <1>2, <1>3, <1>4, HeldIs

(* Whatever make, take and refund are called with, and whatever is sent to the token
   accounts directly, every token of every mint is in a wallet or in a token account
   of an escrow: no account is closed with tokens in it, and nobody is credited with
   what nobody was debited for. *)
THEOREM TokensConserved == Spec => []Conserved
<1>1. TypeOK /\ TypeOK' /\ Conserved /\ [Next]_vars => Conserved'
    BY StepConserved DEF Conserved
<1> QED
    BY <1>1, InitConserved, TypeCorrect, PTL DEF Spec

=============================================================================
