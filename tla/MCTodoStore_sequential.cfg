SPECIFICATION Spec
CONSTANTS
    p1 = p1
    p2 = p2
    f1 = f1
    f2 = f2
    f3 = f3
    None = None
    PROCS = {p1}
    FILES = {f1, f2}
    MaxTodos = 4
    MaxDone = 4
INVARIANTS TypeOK EachOnceInOrder
PROPERTIES QueueSpec
CHECK_DEADLOCK FALSE
