SPECIFICATION Spec
CONSTANTS
    alice = alice
    bob = bob
    a1 = a1
    a2 = a2
    PEOPLE = {alice, bob}
    VaultPda = VaultPda
    ACCOUNTS = {a1, a2}
    VaultAta = VaultAta
    OTHERMINTS = {other}
    HookMint = mint
    Nobody = Nobody
    AMOUNTS = {0, 1, 2}
    MAX_WHITELIST_ENTRIES = 2
    MaxSupply = 2
INVARIANTS TypeOK SlotsExact AdditionsAccepted
PROPERTIES GateSpec
