\* LOGSIZE is MAXOPBLOCKS times 2 (3 in kernel/param.h), nlog is LOGSIZE as in
\* mkfs/mkfs.c, and operations use all that MAXOPBLOCKS grants them: two fit into
\* a transaction, or exclude each other.  The machine crashes up to twice, and a
\* panic stops it.
CONSTANTS
    Procs = {p1, p2}
    Blocks = {b1, b2, b3}
    MAXOPBLOCKS = 2
    LOGSIZE = 4
    NLog = 4
    OpBlocks = 2
    MaxVersion = 4
    MaxCrashes = 2
SPECIFICATION LogSpec
CHECK_DEADLOCK FALSE
INVARIANTS ReservationCovers IdleIsDurable
PROPERTIES ImplementsAtomicDisk Progress
