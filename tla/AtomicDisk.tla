----------------------------- MODULE AtomicDisk -----------------------------
(***************************************************************************)
(* What the logging layer promises to file system operations: between      *)
(* begin_op and end_op they change blocks; what they changed becomes       *)
(* durable all at once, at a moment when no operation is half done; and a  *)
(* crash takes the disk back to the last such moment.                      *)
(***************************************************************************)
EXTENDS Naturals

CONSTANTS Blocks, Values

VARIABLES
    current,   \* what the operations see
    durable,   \* what they would see after a crash
    active     \* operations between begin_op and end_op

diskVars == <<current, durable, active>>

DiskInit ==
    /\ current = [b \in Blocks |-> 0]
    /\ durable = current
    /\ active = 0

Begin ==
    /\ active' = active + 1
    /\ UNCHANGED <<current, durable>>

Write(b, v) ==
    /\ active > 0
    /\ current' = [current EXCEPT ![b] = v]
    /\ UNCHANGED <<durable, active>>

End ==
    /\ active > 0
    /\ active' = active - 1
    /\ UNCHANGED <<current, durable>>

Commit ==
    /\ active = 0
    /\ durable' = current
    /\ UNCHANGED <<current, active>>

Crash ==
    /\ current' = durable
    /\ active' = 0
    /\ UNCHANGED durable

DiskNext ==
    \/ Begin \/ End \/ Commit \/ Crash
    \/ \E b \in Blocks, v \in Values : Write(b, v)

DiskSpec == DiskInit /\ [][DiskNext]_diskVars
=============================================================================
