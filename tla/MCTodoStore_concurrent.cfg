SPECIFICATION Spec
CONSTANTS
    p1 = p1
    p2 = p2
    f1 = f1
    f2 = f2
    f3 = f3
    None = None
    PROCS = {p1, p2}
    FILES = {f1, f2, f3}
    MaxTodos = 2
    MaxDone = 3
SYMMETRY Symmetry
INVARIANTS SnapshotsConsistent
CHECK_DEADLOCK FALSE
