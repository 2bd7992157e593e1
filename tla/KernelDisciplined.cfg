\* Three processes that keep to the rules; a process may open its ring several
\* times (user/urbt.c), and one of the names is too long for the kernel's buffer.
CONSTANTS
    Procs = {p1, p2, p3}
    Names = {n1}
    LongNames = {l1}
    MAX_RINGBUFS = 3
    RINGBUF_SIZE = 2
    MAX_USR_RINGBUF = 2
    PTES = 8
    VPages = 12
    PPages = 5
    RefcountDebt = 1
    MaxRefcount = 6
    Rules = {"matching_name", "own_descriptors", "close_before_exit", "stack_order",
             "below_max", "one_name", "enough_memory", "free_descriptor"}
SPECIFICATION KernelSpec
SYMMETRY Symmetry
INVARIANTS NoPanic RefcountExact NoDanglingMapping PagesAccounted SharedBacking
