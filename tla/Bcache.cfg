CONSTANTS
    p1 = p1
    p2 = p2
    p3 = p3
    sb = sb
    h = h
    l1 = l1
    l2 = l2
    Procs = {p1, p2, p3}
    Blocks = {sb, h, l1, l2}
    SuperBlock = sb
    LogBlocks = {l1, l2}
    NBUF = 3
    NUM = 8
    Workloads <- MCWorkloads
SPECIFICATION BcacheSpec
INVARIANTS TransferIsOwned
PROPERTIES ImplementsLockedBlocks CallsReturn
