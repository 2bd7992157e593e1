---------------------------- MODULE LockedBlocks ----------------------------
(***************************************************************************)
(* What bread, bwrite and brelse promise: a disk of blocks, each of which  *)
(* one process at a time may hold, read and change.                        *)
(***************************************************************************)
CONSTANTS Procs, Blocks, Values, Free

VARIABLES
    contents,   \* the blocks
    holder      \* who holds each, or Free

lockedVars == <<contents, holder>>

LockedInit ==
    /\ contents \in [Blocks -> Values]
    /\ holder = [b \in Blocks |-> Free]

Take(p, b) ==
    /\ holder[b] = Free
    /\ holder' = [holder EXCEPT ![b] = p]
    /\ UNCHANGED contents

Change(b, v) ==
    /\ holder[b] # Free
    /\ contents' = [contents EXCEPT ![b] = v]
    /\ UNCHANGED holder

Give(b) ==
    /\ holder' = [holder EXCEPT ![b] = Free]
    /\ UNCHANGED contents

LockedNext ==
    \E b \in Blocks :
        \/ \E p \in Procs : Take(p, b)
        \/ \E v \in Values : Change(b, v)
        \/ Give(b)

LockedSpec == LockedInit /\ [][LockedNext]_lockedVars
=============================================================================
