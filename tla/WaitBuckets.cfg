SPECIFICATION Spec
CONSTANTS
    a = a
    b = b
    None = None
    Threads = {a, b}
    Calls = {"recvfrom", "mmap"}
    Families = {"blocked_read_net"}
    FAMILY <- SmallFamily
    Day = 2
    Budgets <- SmallBudgets
INVARIANTS
    TypeOK
    NeverOverstated
    TimeCountedOnce
CHECK_DEADLOCK FALSE
