CONSTANTS
    Procs = {p1, p2}
    NPages = 20
    MaxSz = 8
    MaxOther = 2
    Execs <- MCExecs
    Sbrks <- MCSbrks
SPECIFICATION VmSpec
VIEW View
SYMMETRY Symmetry
INVARIANTS PagesAccounted AddressSpace
PROPERTIES FailureIsClean
