SPECIFICATION Spec
CONSTANTS
    alice = alice
    bob = bob
    gold = gold
    silver = silver
    high = high
    low = low
    NoEscrow = NoEscrow
    PEOPLE = {alice, bob}
    MAKERS = {alice}
    BUMPS = {high, low}
    MINTS = {gold, silver}
    AMOUNTS = {0, 1}
    DEPOSITS = {1}
    Vaults = {"ata", "aux"}
    Endowment = 1
SYMMETRY Symmetry
INVARIANTS TypeOK VaultExact Conserved
PROPERTIES SwapSpec
CHECK_DEADLOCK FALSE
