CONSTANTS
    Procs = {p1, p2, p3}
    Names = {n1, n2, n3}
    LongNames = {}
    MAX_RINGBUFS = 3
    RINGBUF_SIZE = 1
    MAX_USR_RINGBUF = 2
    PTES = 8
    VPages = 6
    PPages = 6
    RefcountDebt = 1
    MaxRefcount = 6
    Rules = {"matching_name", "own_descriptors", "stack_order", "below_max", "one_name", "enough_memory", "free_descriptor"}
SPECIFICATION KernelSpec
INVARIANTS NoLeafLeft
