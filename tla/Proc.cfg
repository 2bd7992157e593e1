CONSTANTS
    NPROC = 3
    CPUs = {c1, c2}
    KillPids = {3}
    MaxPid = 4
SPECIFICATION ProcSpec
INVARIANTS StackInUse
PROPERTIES Reaped KilledExits
