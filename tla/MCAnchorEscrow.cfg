SPECIFICATION Spec
CONSTANTS
    alice = alice
    bob = bob
    gold = gold
    silver = silver
    s1 = s1
    s2 = s2
    NoEscrow = NoEscrow
    PEOPLE = {alice, bob}
    MAKERS = {alice}
    SEEDS = {s1, s2}
    MINTS = {gold, silver}
    AMOUNTS = {0, 1, 2}
    DEPOSITS = {1}
    Endowment = 2
SYMMETRY Symmetry
INVARIANTS TypeOK Conserved
PROPERTIES SwapSpec
CHECK_DEADLOCK FALSE
