------------------------------- MODULE Bcache -------------------------------
(***************************************************************************)
(* The buffer cache (kernel/bio.c) with the sleep locks of its buffers     *)
(* (kernel/sleeplock.c), on top of the disk driver of module Virtio.       *)
(*                                                                         *)
(* Sections under bcache.lock are steps, and so are the turns of           *)
(* acquiresleep's loop and releasesleep.  The clients are those the log    *)
(* gives the cache: the log's own blocks are read or written; other blocks *)
(* are read, changed and pinned by log_write, and later written home and   *)
(* unpinned by the one process that commits.                               *)
(***************************************************************************)
EXTENDS Virtio, SequencesExt

CONSTANTS SuperBlock,  \* read by fsinit
          LogBlocks,   \* the blocks written directly; the others are logged
          Workloads    \* what the processes do: a set of functions from processes to
                       \* sequences of operations on blocks

Op == [op : {"read", "write", "log", "install"}, blk : Blocks]

ASSUME BcacheAssumption ==
    /\ SuperBlock \in Blocks /\ LogBlocks \subseteq Blocks \ {SuperBlock}
    /\ \A w \in Workloads : \A p \in Procs :
           \A i \in DOMAIN w[p] : w[p][i] \in Op

VARIABLES
    list,     \* the buffers, most recently used first
    logged,   \* the blocks in the log, pinned once each
    work      \* what each process is still going to do

vars == <<buf, proc, vlock, qvars, ringvars, blocks, panicked, list, logged, work>>
driver == <<vlock, qvars, ringvars, blocks>>

Values == {0, 1}

Idle == [pc |-> "idle", buf |-> NoBuf, blk |-> None, op |-> None, todo |-> <<>>,
         write |-> FALSE, head |-> 0]

\* binit puts each buffer before the previous one, so fsinit's readsb uses
\* the first one; brelse moves it to the front.
BcacheInit ==
    /\ VirtioInit
    /\ buf = [b \in Bufs |-> [blockno |-> IF b = 1 THEN SuperBlock ELSE None, valid |-> b = 1,
                              refcnt |-> 0, data |-> 0, owner |-> None, disk |-> FALSE]]
    /\ list = <<1>> \o [i \in 1..(NBUF - 1) |-> NBUF + 1 - i]
    /\ proc = [p \in Procs |-> Idle]
    /\ logged = {} /\ work \in Workloads

-----------------------------------------------------------------------------
(* The clients *)

\* What a client does with the buffer bread returns, before brelse.
Todo(op) == CASE op = "read"    -> <<>>
              [] op = "write"   -> <<"bwrite">>
              [] op = "log"     -> <<"bpin">>
              [] op = "install" -> <<"bwrite", "bunpin">>

\* Commits exclude operations: log.committing.
Allowed(op, blk) ==
    /\ (op = "write") => blk \in LogBlocks
    /\ (op = "log") =>
           blk \notin LogBlocks /\ \A p \in Procs : proc[p].op # "install"
    /\ (op = "install") =>
           blk \in logged /\ \A p \in Procs : proc[p].op \notin {"log", "install"}

-----------------------------------------------------------------------------
(* bread *)

\* The buffers bget finds for a block.
Cached(blk) == {b \in Bufs : buf[b].blockno = blk}
Unused == {i \in DOMAIN list : buf[list[i]].refcnt = 0}

\* The places of the list that bget may recycle, of which it takes the last.
Recyclable == Unused

\* bget up to acquiresleep.
bget(p) ==
    /\ ~panicked /\ proc[p].pc = "idle" /\ work[p] # <<>>
    /\ LET op == Head(work[p]).op
           blk == Head(work[p]).blk
       IN  /\ Allowed(op, blk)
           /\ panicked' = (Cached(blk) = {} /\ Recyclable = {})
           /\ IF panicked' THEN UNCHANGED <<buf, proc>>
              ELSE LET b == IF Cached(blk) # {} THEN CHOOSE b \in Cached(blk) : TRUE
                            ELSE list[Max(Recyclable)]
                   IN  /\ buf' = IF Cached(blk) # {} THEN [buf EXCEPT ![b].refcnt = @ + 1]
                                 ELSE [buf EXCEPT ![b].blockno = blk, ![b].valid = FALSE,
                                                  ![b].refcnt = 1]
                       /\ proc' = [proc EXCEPT ![p] = [Idle EXCEPT !.pc = "lock", !.buf = b, !.blk = blk,
                                                                   !.op = op, !.todo = Todo(op)]]
    /\ work' = [work EXCEPT ![p] = Tail(@)]
    /\ UNCHANGED <<driver, list, logged>>

\* bread after bget: read the block unless the buffer is valid.
AfterLock(b) == IF buf[b].valid THEN "hold" ELSE "rw"

\* A turn of acquiresleep's loop.
acquiresleep(p) ==
    /\ ~panicked /\ proc[p].pc = "lock"
    /\ LET b == proc[p].buf
       IN  IF buf[b].owner # None
           THEN proc' = [proc EXCEPT ![p].pc = "lock_sleep"] /\ UNCHANGED buf
           ELSE /\ buf' = [buf EXCEPT ![b].owner = p]
                /\ proc' = [proc EXCEPT ![p].pc = AfterLock(b)]
    /\ UNCHANGED <<driver, panicked, list, logged, work>>

-----------------------------------------------------------------------------
(* Between bread and brelse *)

Next1(p) == Head(proc[p].todo)
Holds(p, what) == ~panicked /\ proc[p].pc = "hold" /\ proc[p].todo # <<>> /\ Next1(p) = what

\* The data of a client that changes the block it holds.
Changed(b) == [buf EXCEPT ![b].data = 1 - @]

\* bwrite: virtio_disk_rw(b, 1), of new data unless the log installs.
bwrite(p) ==
    /\ Holds(p, "bwrite")
    /\ panicked' = (buf[proc[p].buf].owner # p)
    /\ buf' = IF proc[p].op = "install" THEN buf ELSE Changed(proc[p].buf)
    /\ proc' = [proc EXCEPT ![p].todo = Tail(@), ![p].pc = "rw", ![p].write = TRUE]
    /\ UNCHANGED <<driver, list, logged, work>>

\* (mutant) log_write does not pin.
NoPin(b) == Changed(b)

\* bpin.
Pin(b) == [Changed(b) EXCEPT ![b].refcnt = @ + 1]

\* The client changes the block and calls log_write, which pins a block that
\* is new in the log.
bpin(p) ==
    /\ Holds(p, "bpin")
    /\ buf' = IF proc[p].blk \in logged THEN Changed(proc[p].buf) ELSE Pin(proc[p].buf)
    /\ logged' = logged \cup {proc[p].blk}
    /\ proc' = [proc EXCEPT ![p].todo = Tail(@)]
    /\ UNCHANGED <<driver, panicked, list, work>>

bunpin(p) ==
    /\ Holds(p, "bunpin")
    /\ buf' = [buf EXCEPT ![proc[p].buf].refcnt = @ - 1]
    /\ logged' = logged \ {proc[p].blk}
    /\ proc' = [proc EXCEPT ![p].todo = Tail(@)]
    /\ UNCHANGED <<driver, panicked, list, work>>

-----------------------------------------------------------------------------
(* brelse *)

\* wakeup(lk) of releasesleep.
WakeWaiters(b) == Woken({q \in Procs : proc[q].buf = b}, "lock_sleep", "lock")

releasesleep(p) ==
    /\ ~panicked /\ proc[p].pc = "hold" /\ proc[p].todo = <<>>
    /\ LET b == proc[p].buf
       IN  /\ panicked' = (buf[b].owner # p)
           /\ buf' = [buf EXCEPT ![b].owner = None]
           /\ proc' = [WakeWaiters(b) EXCEPT ![p].pc = "brelse"]
    /\ UNCHANGED <<driver, list, logged, work>>

\* b->refcnt--.
Unref(b) == [buf EXCEPT ![b].refcnt = @ - 1]

\* The rest of brelse, under bcache.lock.
brelse(p) ==
    /\ ~panicked /\ proc[p].pc = "brelse"
    /\ LET b == proc[p].buf
       IN  /\ buf' = Unref(b)
           /\ list' = IF buf[b].refcnt = 1 THEN <<b>> \o Remove(list, b) ELSE list
    /\ proc' = [proc EXCEPT ![p] = Idle]
    /\ UNCHANGED <<driver, panicked, logged, work>>

\* kill() makes a sleeping process runnable, whatever it sleeps for.
Awake == [lock_sleep |-> "lock", rw_sleep |-> "rw", io_sleep |-> "io"]
kill(p) ==
    /\ ~panicked /\ proc[p].pc \in DOMAIN Awake
    /\ proc' = [proc EXCEPT ![p].pc = Awake[@]]
    /\ UNCHANGED <<driver, buf, panicked, list, logged, work>>

-----------------------------------------------------------------------------
cachevars == <<list, logged, work>>

\* The steps of a process inside the kernel.
Inside(p) ==
    \/ acquiresleep(p) \/ bwrite(p) \/ bpin(p) \/ bunpin(p)
    \/ releasesleep(p) \/ brelse(p)
    \/ /\ ~panicked
       /\ RwNoDesc(p) \/ RwStart(p) \/ RwAwake(p, "hold")
       /\ UNCHANGED cachevars

Interrupt == ~panicked /\ Handler /\ UNCHANGED cachevars
Hardware == ~panicked /\ Device /\ UNCHANGED cachevars

\* All calls made and returned.
Finished ==
    /\ \A p \in Procs : proc[p].pc = "idle" /\ work[p] = <<>>
    /\ vlock = None /\ ~intr
    /\ UNCHANGED vars

BcacheNext ==
    \/ \E p \in Procs : Inside(p) \/ bget(p) \/ kill(p)
    \/ Interrupt \/ Hardware \/ Finished

\* Runnable processes are scheduled, the device serves what it took, and
\* interrupts are delivered.
BcacheSpec ==
    /\ BcacheInit /\ [][BcacheNext]_vars
    /\ \A p \in Procs : WF_vars(Inside(p))
    /\ WF_vars(Interrupt) /\ WF_vars(Hardware)

-----------------------------------------------------------------------------
(* Properties *)

\* Types; reference counts and indices stay in range.
TypeOK ==
    /\ buf \in [Bufs -> [blockno : Blocks \cup {None}, valid : BOOLEAN,
                         refcnt : 0..(Cardinality(Procs) + 1), data : Values,
                         owner : Procs \cup {None}, disk : BOOLEAN]]
    /\ vlock \in {"intr", None} /\ free \subseteq Descs
    /\ device \subseteq Descs /\ Len(used) + Cardinality(device) <= NUM
    /\ blocks \in [Blocks -> Values]
    /\ ToSet(list) = Bufs /\ Len(list) = Cardinality(Bufs)
    /\ logged \subseteq Blocks \ LogBlocks

\* None of the driver's and the cache's panics is reached while the processes
\* and the log together reference fewer blocks than there are buffers: bget
\* finds a buffer, brelse and bwrite hold their lock, no descriptor is freed
\* twice, and every completion belongs to a buffer.
NoPanic == ~panicked

\* A block is never in two buffers, whatever bget calls race.
OneBufferPerBlock ==
    \A b, c \in Bufs : buf[b].blockno = buf[c].blockno /\ buf[b].blockno # None => b = c

\* refcnt is the number of processes that use the buffer, waiting for its
\* lock included, and one for the log.
RefcntExact ==
    \A b \in Bufs :
        buf[b].refcnt = Cardinality({p \in Procs : proc[p].buf = b})
                            + IF buf[b].blockno \in logged THEN 1 ELSE 0

\* While the device works on a buffer, the process that asked holds the
\* buffer's lock and the buffer still stands for the block asked for, so the
\* transfer neither hits recycled memory nor the wrong sector.
TransferIsOwned ==
    \A i \in device : \E p \in Procs :
        LET b == proc[p].buf
        IN  /\ proc[p].pc \in {"io_sleep", "io"} /\ proc[p].head = i
            /\ buf[b].disk /\ buf[b].owner = p
            /\ desc[i].addr = [write |-> proc[p].write, sector |-> buf[b].blockno]
            /\ desc[desc[i].next].addr = [buf |-> b]

\* A descriptor is free or belongs to the chain of exactly one request that
\* has not returned.
ChainsPartition ==
    LET users == {p \in Procs : proc[p].pc \in {"io_sleep", "io"}}
    IN  /\ \A p, q \in users : p # q => Chain(proc[p].head) \cap Chain(proc[q].head) = {}
        /\ free = Descs \ UNION {Chain(proc[p].head) : p \in users}

\* The cache and the driver together are a disk of blocks that processes
\* hold one at a time.  The contents of a block are its buffer's, if it has
\* a valid one, and otherwise what is on disk.
Contents ==
    [blk \in Blocks |->
        LET here == {b \in Cached(blk) : buf[b].valid}
        IN  IF here = {} THEN blocks[blk] ELSE buf[CHOOSE b \in here : TRUE].data]
Holder ==
    [blk \in Blocks |->
        LET ps == {p \in Procs : /\ proc[p].blk = blk
                                 /\ buf[proc[p].buf].owner = p /\ buf[proc[p].buf].valid}
        IN  IF ps = {} THEN None ELSE CHOOSE p \in ps : TRUE]
Locked == INSTANCE LockedBlocks WITH contents <- Contents, holder <- Holder, Free <- None
ImplementsLockedBlocks == Locked!LockedSpec

\* Every bread, bwrite and brelse returns, so that in the end no process is
\* inside: no completion is lost between the used ring and the sleeper, and
\* whoever waits for descriptors or for a buffer gets them.
CallsReturn == []<>(\A p \in Procs : proc[p].pc = "idle")
=============================================================================
