SPECIFICATION Spec
CONSTANTS
    alice = alice
    bob = bob
    gold = gold
    silver = silver
    high = high
    low = low
    NoEscrow = NoEscrow
    PEOPLE = {alice, bob}
    MAKERS = {alice}
    BUMPS = {high}
    MINTS = {gold, silver}
    AMOUNTS = {1, 2}
    DEPOSITS = {1}
    Vaults = {"ata"}
    Endowment = 3
SYMMETRY Symmetry
INVARIANTS RefundAvailable
CHECK_DEADLOCK FALSE
