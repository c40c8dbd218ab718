---------------------------- MODULE TransferHook ----------------------------
(***************************************************************************)
(* The whitelist_transfer_hook_q2 program.  It makes one Token-2022 mint   *)
(* and one vault account; Token-2022 calls its hook within every transfer  *)
(* of that mint, and the hook lets a transfer pass that moves tokens into  *)
(* or out of the vault account, by an amount the whitelist of the vault    *)
(* allows the other side.  The admin keeps the whitelist, issues tokens,   *)
(* and is permanent delegate: it may sign transfers out of any account.    *)
(***************************************************************************)
EXTENDS SequencesExt, Integers

CONSTANTS
    PEOPLE,     \* wallets
    VaultPda,   \* address of the Vault account, owner of the vault's tokens
    ACCOUNTS,   \* token accounts of the mint other than the vault's
    VaultAta,   \* the vault's associated token account
    OTHERMINTS, \* mints of other people
    HookMint,   \* the program's mint
    Nobody,     \* admin while the vault does not exist
    AMOUNTS,    \* amounts that instructions are called with
    MAX_WHITELIST_ENTRIES,
    MaxSupply   \* tokens that can be issued in all

KEYS == PEOPLE \cup {VaultPda}
TokenAccounts == ACCOUNTS \cup {VaultAta}
WhitelistEntry == [user : KEYS, amount : Nat]

ASSUME HookAssumption ==
    /\ AMOUNTS \subseteq Nat
    /\ MaxSupply \in Nat
    /\ MAX_WHITELIST_ENTRIES \in Nat
    /\ VaultAta \notin ACCOUNTS
    /\ HookMint \notin OTHERMINTS
    /\ Nobody \notin KEYS

VARIABLES
    admin,      \* vault.admin
    whitelist,  \* vault.whitelist
    metas,      \* mints that have an ExtraAccountMetaList
    owner,      \* owner of each token account
    balance,    \* tokens in each
    issued      \* supply of the mint

vars == <<admin, whitelist, metas, owner, balance, issued>>

Init ==
    /\ admin = Nobody
    /\ whitelist = <<>>
    /\ metas = {}
    /\ owner \in [TokenAccounts -> KEYS]
    /\ owner[VaultAta] = VaultPda
    /\ balance = [a \in TokenAccounts |-> 0]
    /\ issued = 0

---------------------------------------------------------------------------
(* The whitelist. *)

Listed(list, user) == \E i \in DOMAIN list : list[i].user = user

\* The first entry of a user, which is where find and position stop.
Position(list, user) ==
    CHOOSE i \in DOMAIN list :
        list[i].user = user /\ \A j \in DOMAIN list : list[j].user = user => i <= j

\* bug: does not look for an entry of the same user
Upserted_pushed(list, user, amount) == Append(list, [user |-> user, amount |-> amount])

\* An entry that exists is changed in place, a new one goes to the end.
Upserted(list, user, amount) ==
    IF Listed(list, user)
        THEN [list EXCEPT ![Position(list, user)].amount = amount]
        ELSE Append(list, [user |-> user, amount |-> amount])

\* bug: counts from one too few
HasRoom_one_more(list) == Len(list) <= MAX_WHITELIST_ENTRIES

HasRoom(list) == Len(list) < MAX_WHITELIST_ENTRIES

AssertAllowed(user, amount) ==
    /\ amount > 0
    /\ Listed(whitelist, user)
    /\ amount <= whitelist[Position(whitelist, user)].amount

---------------------------------------------------------------------------
(* Instructions of the program.  Those on the vault need the admin's signature,
   and so the admin. *)

InitializeVault(signer) ==
    /\ admin = Nobody
    /\ admin' = signer
    /\ whitelist' = <<>>
    /\ metas' = metas \cup {HookMint}
    /\ UNCHANGED <<owner, balance, issued>>

\* The program's own mint has its list from the start, so that this one can only
\* succeed for others.
InitializeTransferHook(mint) ==
    /\ mint \notin metas
    /\ metas' = metas \cup {mint}
    /\ UNCHANGED <<admin, whitelist, owner, balance, issued>>

\* bug: looks for room before it looks for the user
AddToWhitelist_room_first(user, amount) ==
    /\ admin # Nobody
    /\ amount > 0
    /\ HasRoom(whitelist)
    /\ whitelist' = Upserted(whitelist, user, amount)
    /\ UNCHANGED <<admin, metas, owner, balance, issued>>

AddToWhitelist(user, amount) ==
    /\ admin # Nobody
    /\ amount > 0
    /\ Listed(whitelist, user) \/ HasRoom(whitelist)
    /\ whitelist' = Upserted(whitelist, user, amount)
    /\ UNCHANGED <<admin, metas, owner, balance, issued>>

RemoveFromWhitelist(user) ==
    /\ admin # Nobody
    /\ Listed(whitelist, user)
    /\ whitelist' = RemoveAt(whitelist, Position(whitelist, user))
    /\ UNCHANGED <<admin, metas, owner, balance, issued>>

MintTokens(recipient, amount) ==
    /\ admin # Nobody
    /\ issued + amount <= MaxSupply
    /\ issued' = issued + amount
    /\ balance' = [balance EXCEPT ![recipient] = @ + amount]
    /\ UNCHANGED <<admin, whitelist, metas, owner>>

\* bug: looks at the destination whichever way the tokens go
InteractingUser_destination(source, destination) == owner[destination]

\* The hook: whose entry a transfer is checked against.
InteractingUser(source, destination) ==
    IF destination = VaultAta THEN owner[source] ELSE owner[destination]

ExecuteHook(source, destination, amount) ==
    /\ HookMint \in metas
    /\ VaultAta \in {source, destination}
    /\ AssertAllowed(InteractingUser(source, destination), amount)

---------------------------------------------------------------------------
(* The world outside the program. *)

\* transfer_checked of Token-2022.  The source's owner signs, or the permanent
\* delegate; addresses of programs sign nothing here.  A transfer from an account to
\* itself returns before the hook and changes nothing.
Transfer(signer, source, destination, amount) ==
    /\ admin # Nobody
    /\ source # destination
    /\ signer \in {owner[source], admin} \ {VaultPda}
    /\ amount <= balance[source]
    /\ ExecuteHook(source, destination, amount)
    /\ balance' = [balance EXCEPT ![source] = @ - amount, ![destination] = @ + amount]
    /\ UNCHANGED <<admin, whitelist, metas, owner, issued>>

\* set_authority of Token-2022: the owner of an account that is not an associated
\* one makes somebody else its owner.
SetOwner(account, key) ==
    /\ admin # Nobody
    /\ owner[account] \in PEOPLE
    /\ owner' = [owner EXCEPT ![account] = key]
    /\ UNCHANGED <<admin, whitelist, metas, balance, issued>>

Next ==
    \/ \E p \in PEOPLE : InitializeVault(p)
    \/ \E mint \in OTHERMINTS : InitializeTransferHook(mint)
    \/ \E user \in KEYS, amount \in AMOUNTS : AddToWhitelist(user, amount)
    \/ \E user \in KEYS : RemoveFromWhitelist(user)
    \/ \E a \in TokenAccounts, amount \in AMOUNTS : MintTokens(a, amount)
    \/ \E p \in PEOPLE, a, b \in TokenAccounts, amount \in AMOUNTS : Transfer(p, a, b, amount)
    \/ \E a \in ACCOUNTS, k \in KEYS : SetOwner(a, k)

Spec == Init /\ [][Next]_vars

---------------------------------------------------------------------------
(* Properties. *)

(* Every variable has its type; the whitelist fits into the space that
   initialize_vault has allocated for it. *)
TypeOK ==
    /\ admin \in PEOPLE \cup {Nobody}
    /\ whitelist \in Seq(WhitelistEntry)
    /\ Len(whitelist) <= MAX_WHITELIST_ENTRIES
    /\ metas \subseteq OTHERMINTS \cup {HookMint}
    /\ owner \in [TokenAccounts -> KEYS]
    /\ balance \in [TokenAccounts -> Nat]
    /\ issued \in Nat

\* The most each key may move at a time.
LimitIn(list) == [k \in KEYS |->
    IF Listed(list, k) THEN list[Position(list, k)].amount ELSE 0]

Limit == LimitIn(whitelist)

(* No slot of the whitelist is wasted: its length is the number of users that may
   move something, however entries were added, changed and removed.  A full
   whitelist therefore means that many users, and removing one makes room. *)
SlotsExact == Len(whitelist) = Cardinality({k \in KEYS : Limit[k] > 0})

(* While there is an admin, nothing but a full house turns an addition away: the limit
   of a user who may move something can always be changed, to any positive amount, and
   a new user is accepted while fewer users than entries may move something, however
   many were removed before. *)
AdditionsAccepted ==
    admin # Nobody =>
        \A user \in KEYS, amount \in AMOUNTS \ {0} :
            \/ Limit[user] > 0
            \/ Cardinality({k \in KEYS : Limit[k] > 0}) < MAX_WHITELIST_ENTRIES
            => ENABLED AddToWhitelist(user, amount)

(* The program is a gated vault: tokens of the mint move only between the vault's
   account and an account whose owner is listed at that moment, within that owner's
   limit; an update replaces the limit, a removal ends it, and no more users than the
   vault has entries are listed at a time. *)
Gate == INSTANCE GatedVault WITH
            limit <- Limit, CAPACITY <- MAX_WHITELIST_ENTRIES, Limits <- AMOUNTS

GateSpec == Gate!Spec

=============================================================================
