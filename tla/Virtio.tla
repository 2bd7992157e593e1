------------------------------- MODULE Virtio -------------------------------
(***************************************************************************)
(* The disk driver (kernel/virtio_disk.c) and the device it shares memory  *)
(* with.  Processes ask for a block to be read or written and sleep until  *)
(* the interrupt handler says that the device is done.                     *)
(*                                                                         *)
(* What a process does under vdisk_lock is a step, because the device does *)
(* not look at a request before it is published.  Each turn of the         *)
(* handler's loop is a step, because the device may complete another       *)
(* request at any moment; it completes them in any order.                  *)
(***************************************************************************)
EXTENDS Integers, Sequences, FiniteSets, FiniteSetsExt

CONSTANTS Procs, Blocks,
          NBUF,      \* buffers
          NUM        \* descriptors, and slots of either ring

ASSUME VirtioAssumption ==
    /\ NBUF \in Nat \ {0}
    /\ NUM \in Nat /\ NUM >= 3

Descs == 0..(NUM - 1)
Bufs == 1..NBUF
NoBuf == 0
None == "none"

VARIABLES
    buf,      \* struct buf: blockno, valid, refcnt, data, owner of its lock, disk
    proc,     \* where each process is, its buffer, direction, chain, and so on
    vlock,    \* who holds vdisk_lock between steps: "intr" or None
    free,     \* the descriptors that are free
    desc,     \* the descriptors: what addr leads to, next, and whether F_NEXT is set
    info,     \* by head of chain: buffer and status
    used,     \* the used ring, from where the handler has looked: disk.used_idx
    device,   \* the heads the device has taken from the available ring
    intr,     \* the device's interrupt line
    blocks,   \* the disk
    panicked

qvars == <<free, desc, info>>
ringvars == <<used, device, intr>>

\* disk.ops and disk.info are reached through the descriptors of a chain.
NoDesc == [addr |-> <<>>, next |-> 0, more |-> FALSE]

VirtioInit ==
    /\ vlock = None
    /\ free = Descs
    /\ desc = [i \in Descs |-> NoDesc]
    /\ info = [i \in Descs |-> [b |-> NoBuf, status |-> 0]]
    /\ used = <<>> /\ device = {}
    /\ intr = FALSE
    /\ blocks = [b \in Blocks |-> 0]
    /\ panicked = FALSE

\* wakeup: the processes asleep at pc "from" run again at "to".
Woken(P, from, to) ==
    [p \in Procs |-> IF p \in P /\ proc[p].pc = from THEN [proc[p] EXCEPT !.pc = to]
                     ELSE proc[p]]

-----------------------------------------------------------------------------
(* The driver, called with the process's buffer locked *)

\* The lowest free descriptors, in the order alloc_desc finds them.
alloc_desc(S) == Min(S)
alloc3_desc ==
    LET i0 == alloc_desc(free)
        i1 == alloc_desc(free \ {i0})
    IN  <<i0, i1, alloc_desc(free \ {i0, i1})>>

\* Not enough descriptors: those alloc3_desc took are freed again, which
\* wakes the other processes that wait for some.
RwNoDesc(p) ==
    /\ vlock = None /\ proc[p].pc = "rw" /\ Cardinality(free) < 3
    /\ LET woken == IF free = {} THEN proc ELSE Woken(Procs \ {p}, "rw_sleep", "rw")
       IN  proc' = [woken EXCEPT ![p].pc = "rw_sleep"]
    /\ UNCHANGED <<buf, vlock, qvars, ringvars, blocks, panicked>>

\* The entry of the available ring.
InRing(idx) == idx[1]

\* Format the three descriptors, fill and publish the slot of the available
\* ring, notify the device, which takes the request, and sleep: b->disk is set.
RwStart(p) ==
    /\ vlock = None /\ proc[p].pc = "rw" /\ Cardinality(free) >= 3
    /\ LET idx == alloc3_desc
           b == proc[p].buf
       IN  /\ free' = free \ {idx[1], idx[2], idx[3]}
           /\ desc' = [desc EXCEPT
                  ![idx[1]] = [addr |-> [write |-> proc[p].write, sector |-> buf[b].blockno],
                               next |-> idx[2], more |-> TRUE],
                  ![idx[2]] = [addr |-> [buf |-> b], next |-> idx[3], more |-> TRUE],
                  ![idx[3]] = [addr |-> [status |-> idx[1]], next |-> 0, more |-> FALSE]]
           /\ info' = [info EXCEPT ![idx[1]] = [b |-> b, status |-> 255]]
           /\ buf' = [buf EXCEPT ![b].disk = TRUE]
           /\ device' = device \cup {InRing(idx)}
           /\ proc' = [proc EXCEPT ![p].pc = "io_sleep", ![p].head = idx[1]]
    /\ UNCHANGED <<vlock, used, intr, blocks, panicked>>

\* The descriptors free_chain(i) frees.
Chain(i) ==
    LET j == desc[i].next
    IN  {i} \cup IF ~desc[i].more THEN {}
                 ELSE {j} \cup IF desc[j].more THEN {desc[j].next} ELSE {}

\* free_chain: what it frees.
free_chain(i) == Chain(i)

\* (mutant) No test of b->disk: any wakeup ends the request.
NeverBusy(b) == FALSE

\* The condition of the loop around sleep(b, &disk.vdisk_lock).
Busy(b) == buf[b].disk

\* A process that slept on its buffer runs again.  bread's b->valid = 1 is
\* the caller's, in module Bcache.
RwAwake(p, done) ==
    /\ vlock = None /\ proc[p].pc = "io"
    /\ LET b == proc[p].buf
           i == proc[p].head
       IN  IF Busy(b)
           THEN /\ proc' = [proc EXCEPT ![p].pc = "io_sleep"]
                /\ UNCHANGED <<buf, qvars, panicked>>
           ELSE /\ info' = [info EXCEPT ![i].b = NoBuf]
                /\ free' = free \cup free_chain(i)
                /\ panicked' = (free_chain(i) \cap free # {})
                /\ desc' = [d \in Descs |-> IF d \in free_chain(i)
                                            THEN NoDesc ELSE desc[d]]
                /\ buf' = [buf EXCEPT ![b].valid = @ \/ ~proc[p].write]
                /\ proc' = [Woken(Procs, "rw_sleep", "rw") EXCEPT ![p].pc = done]
    /\ UNCHANGED <<vlock, ringvars, blocks>>

-----------------------------------------------------------------------------
(* virtio_disk_intr *)

IntrAck ==
    /\ intr /\ vlock = None
    /\ vlock' = "intr"
    /\ intr' = FALSE
    /\ UNCHANGED <<buf, proc, qvars, used, device, blocks, panicked>>

IntrEntry ==
    /\ vlock = "intr" /\ used # <<>>
    /\ LET id == Head(used)
           b == info[id].b
       IN  /\ panicked' = (info[id].status # 0 \/ b = NoBuf)
           /\ IF panicked' THEN UNCHANGED <<buf, proc>>
              ELSE /\ buf' = [buf EXCEPT ![b].disk = FALSE]
                   /\ proc' = Woken({p \in Procs : proc[p].buf = b}, "io_sleep", "io")
    /\ used' = Tail(used)
    /\ UNCHANGED <<vlock, qvars, device, intr, blocks>>

\* (mutant) One entry per interrupt.
LeaveRest == TRUE

\* The handler's loop is over.
NoneLeft == used = <<>>

IntrExit ==
    /\ vlock = "intr" /\ NoneLeft
    /\ vlock' = None
    /\ UNCHANGED <<buf, proc, qvars, ringvars, blocks, panicked>>

-----------------------------------------------------------------------------
(* The device *)

\* It moves the data, stores the status, and appends to the used ring.
DeviceComplete(i) ==
    /\ i \in device
    /\ LET req == desc[i].addr
           data == desc[desc[i].next]
           b == data.addr.buf
       IN  /\ IF req.write
              THEN /\ blocks' = [blocks EXCEPT ![req.sector] = buf[b].data]
                   /\ UNCHANGED buf
              ELSE /\ buf' = [buf EXCEPT ![b].data = blocks[req.sector]]
                   /\ UNCHANGED blocks
           /\ info' = [info EXCEPT ![desc[data.next].addr.status].status = 0]
    /\ used' = Append(used, i)
    /\ device' = device \ {i}
    /\ intr' = TRUE
    /\ UNCHANGED <<proc, vlock, free, desc, panicked>>

-----------------------------------------------------------------------------
Handler == IntrAck \/ IntrEntry \/ IntrExit
Device == \E i \in Descs : DeviceComplete(i)
=============================================================================
