\* One writer and two readers, or the reverse; nread and nwrite wrap after four
\* bytes; exited processes stay, so the system may stop.
CONSTANTS
    Procs = {p1,p2,p3}
    PIPESIZE = 2
    WordMod = 4
    Lens = {3}
    MaxCalls = 3
    MaxForks = 2
    MaxKills = 1
SPECIFICATION PipeSpec
CHECK_DEADLOCK FALSE
INVARIANTS InOrder NoLostWakeup NoUseAfterFree
PROPERTIES Returns
