SPECIFICATION Spec
CONSTANTS
    c1 = c1
    c2 = c2
    b1 = b1
    b2 = b2
    CONTRIBUTORS = {c1, c2}
    BUMPS = {b1, b2}
    AMOUNTS = {0, 1, 2, 4}
    DEPOSITS = {16, 20}
    TARGETS = {14, 20, 40, 60}
    DURATIONS = {0, 1}
    UNIT = 2
    MaxU64 = 450
    SecondsPerDay = 2
    Vaults = {"ata", "aux"}
    Endowment = 6
    DonorFunds = 40
    MaxTime = 4
SYMMETRY Symmetry
PROPERTIES NothingStranded
CHECK_DEADLOCK FALSE
