\* No rules: every call in every state, until the machine panics.
CONSTANTS
    Procs = {p1, p2}
    Names = {n1, n2, ""}
    LongNames = {}
    MAX_RINGBUFS = 3
    RINGBUF_SIZE = 1
    MAX_USR_RINGBUF = 1
    PTES = 9
    VPages = 8
    PPages = 4
    RefcountDebt = 1
    MaxRefcount = 3
    Rules = {}
SPECIFICATION KernelSpec
SYMMETRY Symmetry
CHECK_DEADLOCK FALSE
INVARIANTS RingsOwnTheirPages
