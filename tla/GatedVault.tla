----------------------------- MODULE GatedVault -----------------------------
(***************************************************************************)
(* What the transfer hook vault promises: tokens go into the vault or come *)
(* out of it, never past it, and only with somebody the admin allows at    *)
(* that moment, no more at a time than the limit the admin has set.        *)
(***************************************************************************)
EXTENDS Integers, FiniteSets

CONSTANTS
    KEYS,       \* public keys: wallets, and the vault's own address
    VaultPda,   \* that address
    ACCOUNTS,   \* token accounts other than the vault's
    VaultAta,   \* the vault's token account
    Nobody,     \* no admin yet
    CAPACITY,   \* keys that can be allowed at a time
    Limits      \* limits and amounts of tokens

VARIABLES
    admin,     \* who administers the vault
    limit,     \* the most a key may move at a time, 0 while it is not allowed
    owner,     \* owner of each token account
    balance    \* tokens in each account

vars == <<admin, limit, owner, balance>>

Allowed == {k \in KEYS : limit[k] > 0}

Init ==
    /\ admin = Nobody
    /\ limit = [k \in KEYS |-> 0]
    /\ owner \in [ACCOUNTS \cup {VaultAta} -> KEYS]
    /\ owner[VaultAta] = VaultPda
    /\ balance = [a \in ACCOUNTS \cup {VaultAta} |-> 0]

Open(k) ==
    /\ admin = Nobody
    /\ admin' = k
    /\ UNCHANGED <<limit, owner, balance>>

\* A new key needs room, one that is allowed is given another limit.
Allow(k, n) ==
    /\ admin # Nobody
    /\ n > 0
    /\ k \in Allowed \/ Cardinality(Allowed) < CAPACITY
    /\ limit' = [limit EXCEPT ![k] = n]
    /\ UNCHANGED <<admin, owner, balance>>

Bar(k) ==
    /\ k \in Allowed
    /\ limit' = [limit EXCEPT ![k] = 0]
    /\ UNCHANGED <<admin, owner, balance>>

Issue(a, n) ==
    /\ admin # Nobody
    /\ balance' = [balance EXCEPT ![a] = @ + n]
    /\ UNCHANGED <<admin, limit, owner>>

Deposit(a, n) ==
    /\ n \in 1..limit[owner[a]]
    /\ n <= balance[a]
    /\ balance' = [balance EXCEPT ![a] = @ - n, ![VaultAta] = @ + n]
    /\ UNCHANGED <<admin, limit, owner>>

Withdraw(a, n) ==
    /\ n \in 1..limit[owner[a]]
    /\ n <= balance[VaultAta]
    /\ balance' = [balance EXCEPT ![VaultAta] = @ - n, ![a] = @ + n]
    /\ UNCHANGED <<admin, limit, owner>>

\* A token account changes hands as a whole, without a transfer.
HandOver(a, k) ==
    /\ owner' = [owner EXCEPT ![a] = k]
    /\ UNCHANGED <<admin, limit, balance>>

Next ==
    \/ \E k \in KEYS : Open(k) \/ Bar(k) \/ \E n \in Limits : Allow(k, n)
    \/ \E a \in ACCOUNTS \cup {VaultAta}, n \in Limits : Issue(a, n)
    \/ \E a \in ACCOUNTS, n \in Limits : Deposit(a, n) \/ Withdraw(a, n)
    \/ \E a \in ACCOUNTS, k \in KEYS : HandOver(a, k)

Spec == Init /\ [][Next]_vars

=============================================================================
