\* Three times the ring of two 2-byte pages.
CONSTANTS
    USR_RINGBUF_SIZE = 2
    PGSIZE = 2
    SIZE = 12
    WordMod = 64
    Greedy = TRUE
SPECIFICATION BenchSpec
INVARIANTS UnreadIntact TotalsAgreeWithBook NoCopyRace Delivered Validates
PROPERTIES ImplementsFifo BenchCompletes
