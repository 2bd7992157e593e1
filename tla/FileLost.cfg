\* The window of iput between freeing an inode and dropping the reference.
CONSTANTS
    Procs = {"p1", "p2"}
    First = "p1"
    Programs <- MCPrograms
    NInodes = 4
    NBlocks = 6
    NINODE = 5
    NDIRECT = 1
    NINDIRECT = 2
    BSIZE = 3
    NFILE = 3
    NOFILE = 2
    MaxWrite = 2
SPECIFICATION FileSpec
CHECK_DEADLOCK FALSE
INVARIANTS OrphansAreHeld
