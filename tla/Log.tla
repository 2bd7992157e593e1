--------------------------------- MODULE Log ---------------------------------
(***************************************************************************)
(* The redo log of the file system (kernel/log.c) over the buffer cache    *)
(* (kernel/bio.c) and a disk that writes single blocks atomically.         *)
(* Operations of several processes share a transaction; the last one to    *)
(* end commits it.  The machine may crash between any two disk writes, in  *)
(* recovery too.                                                           *)
(*                                                                         *)
(* begin_op, end_op and log_write hold log.lock throughout and are steps.  *)
(* A buffer's sleep lock is held from bread to brelse, so reading,         *)
(* changing and logging a block is one step, and so is each turn of the    *)
(* loops of write_log and install_trans, which writes one block to disk.   *)
(* The cache recycles any buffer without references.                       *)
(***************************************************************************)
EXTENDS Integers, Sequences, FiniteSets, Functions

CONSTANTS Procs, Blocks,
          MAXOPBLOCKS, LOGSIZE,
          NLog,         \* log.size, sb.nlog: blocks of the log, header included
          OpBlocks,     \* the distinct blocks an operation writes at most
          MaxVersion, MaxCrashes    \* bounds: writes and crashes of a behaviour

ASSUME LogAssumption ==
    /\ MAXOPBLOCKS \in Nat \ {0} /\ LOGSIZE \in Nat /\ NLog \in Nat \ {0}
    /\ OpBlocks \in 0..MAXOPBLOCKS
    /\ MaxVersion \in Nat /\ MaxCrashes \in Nat

Values == 0..MaxVersion
NoBuf == -1    \* the block is not in the cache

VARIABLES
    disk,      \* home: the blocks; log: the log's data blocks; head: its header
    cache,     \* the buffer of a block, or NoBuf
    pins,      \* references of the buffer that bpin holds
    log,       \* struct log: lh, outstanding, committing
    boot,      \* where recover_from_log is, or "up"
    pc,        \* where each process is
    wrote,     \* the blocks its operation has written
    full,      \* an operation of this transaction has written MAXOPBLOCKS blocks
    tail,      \* loop variable of write_log and install_trans
    panicked,
    version, crashes    \* writes and crashes so far

vars == <<disk, cache, pins, log, boot, pc, wrote, full, tail, panicked, version, crashes>>

LogInit ==
    /\ disk = [home |-> [b \in Blocks |-> 0],
               log |-> [i \in 1..(NLog - 1) |-> 0], head |-> <<>>]
    /\ cache = [b \in Blocks |-> NoBuf]
    /\ pins = [b \in Blocks |-> 0]
    /\ log = [lh |-> <<>>, outstanding |-> 0, committing |-> FALSE]
    /\ boot = "read_head"
    /\ pc = [p \in Procs |-> "idle"]
    /\ wrote = [p \in Procs |-> {}] /\ full = FALSE
    /\ tail = 0 /\ panicked = FALSE
    /\ version = 0 /\ crashes = 0

Up == boot = "up" /\ ~panicked

-----------------------------------------------------------------------------
(* The cache *)

\* What bread(b) returns.
Contents(b) == IF cache[b] = NoBuf THEN disk.home[b] ELSE cache[b]

\* bread and brelse by a process that only reads: no begin_op is needed.
Bread(b) ==
    /\ Up /\ cache[b] = NoBuf
    /\ cache' = [cache EXCEPT ![b] = disk.home[b]]
    /\ UNCHANGED <<disk, pins, log, boot, pc, wrote, full, tail, panicked, version, crashes>>

\* bget for some other block recycles the buffer.
Recycle(b) ==
    /\ Up /\ cache[b] # NoBuf /\ pins[b] = 0
    /\ cache' = [cache EXCEPT ![b] = NoBuf]
    /\ UNCHANGED <<disk, pins, log, boot, pc, wrote, full, tail, panicked, version, crashes>>

-----------------------------------------------------------------------------
(* Operations *)

\* Mutant: nobody is woken.
NoWakeup == pc

\* wakeup(&log): the sleepers are in begin_op's loop again.
wakeup == [p \in Procs |-> IF pc[p] = "sleeping" THEN "begin" ELSE pc[p]]

\* Mutant: begin_op does not reserve space.
OnlyCommitting == log.committing

\* The two conditions begin_op waits for.
MustWait ==
    \/ log.committing
    \/ Len(log.lh) + (log.outstanding + 1) * MAXOPBLOCKS > LOGSIZE

\* One turn of begin_op's loop, from its call or after a wakeup.
begin_op(p) ==
    /\ Up /\ pc[p] \in {"idle", "begin"}
    /\ \/ /\ MustWait
          /\ pc' = [pc EXCEPT ![p] = "sleeping"]
          /\ UNCHANGED log
       \/ /\ ~MustWait
          /\ log' = [log EXCEPT !.outstanding = @ + 1]
          /\ pc' = [pc EXCEPT ![p] = "op"]
    /\ UNCHANGED <<disk, cache, pins, boot, wrote, full, tail, panicked, version, crashes>>

\* bpin of a block that is new in the log; absorption leaves the pins.
Pinned(b) == IF b \in Range(log.lh) THEN pins ELSE [pins EXCEPT ![b] = @ + 1]

\* bread, a new version of the block, log_write, brelse.
log_write(p, b) ==
    /\ Up /\ pc[p] = "op" /\ version < MaxVersion
    /\ b \in wrote[p] \/ Cardinality(wrote[p]) < OpBlocks
    /\ version' = version + 1
    /\ cache' = [cache EXCEPT ![b] = version + 1]
    /\ wrote' = [wrote EXCEPT ![p] = @ \cup {b}]
    /\ full' = (full \/ Cardinality(wrote'[p]) = MAXOPBLOCKS)
    /\ panicked' = (Len(log.lh) >= LOGSIZE \/ Len(log.lh) >= NLog - 1 \/ log.outstanding < 1)
    /\ pins' = IF panicked' THEN pins ELSE Pinned(b)
    /\ log' = [log EXCEPT !.lh = IF panicked' \/ b \in Range(@) THEN @ ELSE Append(@, b)]
    /\ UNCHANGED <<disk, boot, pc, tail, crashes>>

\* The last operation goes on to commit(), which skips an empty log.
end_op(p) ==
    /\ Up /\ pc[p] = "op"
    /\ panicked' = log.committing
    /\ \/ /\ log.outstanding = 1
          /\ log' = [log EXCEPT !.outstanding = 0, !.committing = TRUE]
          /\ pc' = [pc EXCEPT ![p] = IF log.lh = <<>> THEN "finish" ELSE "write_log"]
       \/ /\ log.outstanding # 1
          /\ log' = [log EXCEPT !.outstanding = @ - 1]
          /\ pc' = [wakeup EXCEPT ![p] = "idle"]
    /\ wrote' = [wrote EXCEPT ![p] = {}]
    /\ UNCHANGED <<disk, cache, pins, boot, full, tail, version, crashes>>

-----------------------------------------------------------------------------
(* commit *)

\* The next turn of a loop over the log, or what follows the loop.
LastTurn == tail + 1 = Len(log.lh)
NextTail == IF LastTurn THEN 0 ELSE tail + 1

write_log(p) ==
    /\ Up /\ pc[p] = "write_log"
    /\ LET from == log.lh[tail + 1]
       IN  /\ disk' = [disk EXCEPT !.log[tail + 1] = Contents(from)]
           /\ cache' = [cache EXCEPT ![from] = Contents(from)]
    /\ tail' = NextTail
    /\ pc' = [pc EXCEPT ![p] = IF LastTurn THEN "write_head" ELSE @]
    /\ UNCHANGED <<pins, log, boot, wrote, full, panicked, version, crashes>>

\* Mutant: the log is erased without having been installed.
SkipInstall == "clear"

\* What commit does after write_head.
AfterHead == "install"

\* The commit point.
write_head(p) ==
    /\ Up /\ pc[p] = "write_head"
    /\ disk' = [disk EXCEPT !.head = log.lh]
    /\ pc' = [pc EXCEPT ![p] = AfterHead]
    /\ UNCHANGED <<cache, pins, log, boot, wrote, full, tail, panicked, version, crashes>>

\* bunpin, unless recovering.
Unpinned(b, recovering) == IF recovering THEN pins ELSE [pins EXCEPT ![b] = @ - 1]

\* Mutant: the log's blocks are taken one too early.
EarlierBlock(i) == disk.log[IF i = 1 THEN 1 ELSE i - 1]

\* The data of the log's i-th block.
LogBlock(i) == disk.log[i]

\* One turn of install_trans(recovering).
Install(recovering) ==
    LET b == log.lh[tail + 1]
        data == LogBlock(tail + 1)
    IN  /\ disk' = [disk EXCEPT !.home[b] = data]
        /\ cache' = [cache EXCEPT ![b] = data]
        /\ pins' = Unpinned(b, recovering)
        /\ tail' = NextTail

install_trans(p) ==
    /\ Up /\ pc[p] = "install"
    /\ Install(FALSE)
    /\ pc' = [pc EXCEPT ![p] = IF LastTurn THEN "clear" ELSE @]
    /\ UNCHANGED <<log, boot, wrote, full, panicked, version, crashes>>

\* log.lh.n = 0 and write_head.
Erase ==
    /\ log' = [log EXCEPT !.lh = <<>>]
    /\ disk' = [disk EXCEPT !.head = <<>>]

clear(p) ==
    /\ Up /\ pc[p] = "clear"
    /\ Erase
    /\ pc' = [pc EXCEPT ![p] = "finish"]
    /\ UNCHANGED <<cache, pins, boot, wrote, full, tail, panicked, version, crashes>>

\* The rest of end_op after commit.
finish(p) ==
    /\ Up /\ pc[p] = "finish"
    /\ log' = [log EXCEPT !.committing = FALSE]
    /\ pc' = [wakeup EXCEPT ![p] = "idle"]
    /\ full' = FALSE
    /\ UNCHANGED <<disk, cache, pins, boot, wrote, tail, panicked, version, crashes>>

-----------------------------------------------------------------------------
(* Crashes and recover_from_log *)

\* Only the disk survives.
Crash ==
    /\ ~panicked /\ crashes < MaxCrashes
    /\ crashes' = crashes + 1
    /\ cache' = [b \in Blocks |-> NoBuf]
    /\ pins' = [b \in Blocks |-> 0]
    /\ log' = [lh |-> <<>>, outstanding |-> 0, committing |-> FALSE]
    /\ boot' = "read_head"
    /\ pc' = [p \in Procs |-> "idle"]
    /\ wrote' = [p \in Procs |-> {}] /\ full' = FALSE
    /\ tail' = 0
    /\ UNCHANGED <<disk, panicked, version>>

read_head ==
    /\ boot = "read_head"
    /\ log' = [log EXCEPT !.lh = disk.head]
    /\ boot' = IF disk.head = <<>> THEN "clear" ELSE "install"
    /\ UNCHANGED <<disk, cache, pins, pc, wrote, full, tail, panicked, version, crashes>>

RecoverInstall ==
    /\ boot = "install"
    /\ Install(TRUE)
    /\ boot' = IF LastTurn THEN "clear" ELSE boot
    /\ UNCHANGED <<log, pc, wrote, full, panicked, version, crashes>>

RecoverClear ==
    /\ boot = "clear"
    /\ Erase
    /\ boot' = "up"
    /\ UNCHANGED <<cache, pins, pc, wrote, full, tail, panicked, version, crashes>>

-----------------------------------------------------------------------------
Recovery == read_head \/ RecoverInstall \/ RecoverClear

Committer(p) ==
    write_log(p) \/ write_head(p) \/ install_trans(p) \/ clear(p) \/ finish(p)

LogNext ==
    \/ Recovery \/ Crash
    \/ \E b \in Blocks : Bread(b) \/ Recycle(b)
    \/ \E p \in Procs :
           \/ begin_op(p) \/ end_op(p) \/ Committer(p)
           \/ \E b \in Blocks : log_write(p, b)

\* The kernel's own steps are scheduled: recovery, the commit, and a process
\* that end_op has woken.  Operations need not end.
LogSpec ==
    /\ LogInit /\ [][LogNext]_vars
    /\ WF_vars(Recovery)
    /\ WF_vars(\E p \in Procs : Committer(p))
    /\ WF_vars(\E p \in Procs : pc[p] = "begin" /\ begin_op(p))

-----------------------------------------------------------------------------
(* Properties *)

\* Types; the reference counts stay in 0..1 and the log within its blocks.
TypeOK ==
    /\ disk.home \in [Blocks -> Values]
    /\ disk.log \in [1..(NLog - 1) -> Values]
    /\ cache \in [Blocks -> Values \cup {NoBuf}]
    /\ pins \in [Blocks -> 0..1]
    /\ log.outstanding \in 0..Cardinality(Procs) /\ log.committing \in BOOLEAN
    /\ \A h \in {log.lh, disk.head} :
           /\ Len(h) < NLog /\ Len(h) <= LOGSIZE
           /\ \A i, j \in 1..Len(h) : h[i] = h[j] => i = j
    /\ boot \in {"read_head", "install", "clear", "up"} /\ full \in BOOLEAN
    /\ pc \in [Procs -> {"idle", "begin", "sleeping", "op", "write_log", "write_head",
                         "install", "clear", "finish"}]

\* What param.h and begin_op promise: operations that write no more than
\* MAXOPBLOCKS blocks never exhaust the log.  It does not hold (LogFull.cfg):
\* begin_op reserves against LOGSIZE, log_write refuses at log.size - 1, and
\* mkfs makes log.size LOGSIZE, so the last reserved block does not exist.
NoPanic == ~panicked

\* What does hold: log_write and end_op panic only in a transaction in which
\* an operation has used up all of its MAXOPBLOCKS blocks.  Operations that
\* leave one unused never meet a panic, however they are grouped: not for
\* lack of space and not because a commit is going on.
ReservationCovers == panicked => full

\* A changed block that is not home yet is in the log and pinned, so no
\* reader ever gets the old version back from disk.
DirtyIsPinned ==
    \A b \in Blocks : cache[b] \notin {NoBuf, disk.home[b]} =>
        b \in Range(log.lh) /\ pins[b] > 0

\* The disk as recovery would leave it.
Durable ==
    [b \in Blocks |-> IF b \in Range(disk.head)
                      THEN disk.log[CHOOSE i \in DOMAIN disk.head : disk.head[i] = b]
                      ELSE disk.home[b]]

\* What operations see; before the machine is up, what they are going to see.
Current == IF boot = "up" THEN [b \in Blocks |-> Contents(b)] ELSE Durable

\* When the last end_op has returned, everything its group wrote survives.
IdleIsDurable ==
    Up /\ log.outstanding = 0 /\ ~log.committing => Current = Durable

\* Whoever sleeps in begin_op sleeps for a reason that still holds, and
\* somebody is going to wake it.
SleepersWait ==
    (\E p \in Procs : pc[p] = "sleeping") =>
        MustWait /\ (log.committing \/ log.outstanding > 0)

\* The log gives operations atomic, crash-safe transactions.
Atomic == INSTANCE AtomicDisk
              WITH current <- Current, durable <- Durable, active <- log.outstanding
ImplementsAtomicDisk == Atomic!DiskSpec

\* Waiting in begin_op while no operation runs.
Stalled == log.outstanding = 0 /\ \E p \in Procs : pc[p] \in {"begin", "sleeping"}

\* Recovery ends, a commit ends, and when processes wait in begin_op and no
\* operation is running, one of them gets in, crashes or not.
Progress ==
    (boot # "up" \/ log.committing \/ Stalled)
        ~> (boot = "up" /\ ~log.committing /\ ~Stalled)
=============================================================================
