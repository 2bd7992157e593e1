-------------------------------- MODULE Proc --------------------------------
(***************************************************************************)
(* The process table (kernel/proc.c): fork, exit, wait, kill, sleep and    *)
(* wakeup, the scheduler of every CPU, and the system calls and the clock  *)
(* interrupt that use them (kernel/sysproc.c, kernel/trap.c).              *)
(*                                                                         *)
(* A step is what runs between two points where a lock is let go while     *)
(* another is held: sleep() first takes p->lock and releases its caller's  *)
(* lock, and only then leaves the CPU; exit() becomes a zombie and         *)
(* releases wait_lock, and only then leaves its kernel stack.  The CPUs    *)
(* scan the table in order; timer interrupts preempt a process wherever it *)
(* holds no lock.  Memory and files of a process are in other modules.     *)
(***************************************************************************)
EXTENDS Integers, FiniteSets, FiniteSetsExt

CONSTANTS NPROC, CPUs,
          KillPids,   \* the arguments of kill()
          MaxPid      \* bound: nextpid

ASSUME ProcAssumption ==
    /\ NPROC \in Nat \ {0} /\ MaxPid \in Nat
    /\ KillPids \subseteq Nat

Slots == 1..NPROC
initproc == 1
Nobody == 0

VARIABLES
    proc,       \* struct proc: state, pid, parent, chan, killed; and its control
    plock,      \* the processes whose p->lock is held between steps
    wait_lock, tickslock,    \* who holds them between steps, or Nobody
    cpu,        \* c->proc of each CPU, or Nobody
    scan,       \* where its scheduler is in the table
    nextpid

vars == <<proc, plock, wait_lock, tickslock, cpu, scan, nextpid>>

\* pc: where the process is in the kernel; np: fork's child; left: the ticks
\* sys_sleep has still to wait for.
Unused == [state |-> "UNUSED", pid |-> 0, parent |-> Nobody, chan |-> Nobody,
           killed |-> FALSE, pc |-> "user", np |-> Nobody, left |-> 0]

\* Channels: a process's own struct, or the clock.
Ticks == NPROC + 1

\* init has started the shell.
ProcInit ==
    /\ proc = [p \in Slots |->
                  IF p = 1 THEN [Unused EXCEPT !.state = "RUNNABLE", !.pid = 1]
                  ELSE IF p = 2 THEN [Unused EXCEPT !.state = "RUNNABLE", !.pid = 2, !.parent = 1]
                  ELSE Unused]
    /\ plock = {} /\ wait_lock = Nobody /\ tickslock = Nobody
    /\ cpu = [c \in CPUs |-> Nobody] /\ scan = [c \in CPUs |-> 1]
    /\ nextpid = 3

Running(p) == \E c \in CPUs : cpu[c] = p
At(p, where) == Running(p) /\ proc[p].pc = where
Children(p) == {q \in Slots : proc[q].parent = p}
OthersUnlocked(p) == plock \ {p} = {}

\* The scheduler's scan of the table starts again at its end.
NextInTable(p) == (p % NPROC) + 1

\* The CPU that ran p is in its scheduler again, at the next process.
LeaveCPU(p) ==
    /\ cpu' = [c \in CPUs |-> IF cpu[c] = p THEN Nobody ELSE cpu[c]]
    /\ scan' = [c \in CPUs |-> IF cpu[c] = p THEN NextInTable(p) ELSE scan[c]]

-----------------------------------------------------------------------------
(* scheduler, yield *)

\* A turn of the scheduler's loop.  The process releases its lock when it
\* runs: at the end of yield or sleep, or in forkret.
scheduler(c) ==
    /\ cpu[c] = Nobody
    /\ LET p == scan[c]
       IN  /\ p \notin plock
           /\ IF proc[p].state = "RUNNABLE"
              THEN /\ proc' = [proc EXCEPT ![p].state = "RUNNING", ![p].chan = Nobody]
                   /\ cpu' = [cpu EXCEPT ![c] = p]
                   /\ UNCHANGED scan
              ELSE /\ scan' = [scan EXCEPT ![c] = NextInTable(p)]
                   /\ UNCHANGED <<proc, cpu>>
    /\ UNCHANGED <<plock, wait_lock, tickslock, nextpid>>

\* Interrupts are off while a process holds a spinlock or spins for one.
InterruptsOn(p) ==
    CASE proc[p].pc = "user" -> TRUE
      [] proc[p].pc = "fork_parent" -> wait_lock = Nobody
      [] proc[p].pc = "fork_run" -> proc[p].np \notin plock
      [] proc[p].pc = "exit" -> wait_lock = Nobody /\ OthersUnlocked(p)
      [] proc[p].pc = "wait" -> wait_lock = Nobody /\ Children(p) \cap plock = {}
      [] proc[p].pc = "ticks" -> tickslock = Nobody
      [] OTHER -> FALSE

\* A timer interrupt takes the CPU from a process, in a program or in the kernel.
yield(p) ==
    /\ Running(p) /\ InterruptsOn(p)
    /\ proc' = [proc EXCEPT ![p].state = "RUNNABLE"]
    /\ LeaveCPU(p)
    /\ UNCHANGED <<plock, wait_lock, tickslock, nextpid>>

-----------------------------------------------------------------------------
(* sleep, wakeup *)

\* sleep() from a loop at pc "loop": take p->lock, release lk.
SleepLock(p, from) ==
    /\ At(p, from)
    /\ plock' = plock \cup {p}
    /\ wait_lock' = IF wait_lock = p THEN Nobody ELSE wait_lock
    /\ tickslock' = IF tickslock = p THEN Nobody ELSE tickslock

\* The first half of sleep().
SleepStart(p, from) == SleepLock(p, from)

sleep1(p) ==
    /\ \/ SleepStart(p, "wait_sleep") /\ proc' = [proc EXCEPT ![p].pc = "wait_sched"]
       \/ SleepStart(p, "ticks_sleep") /\ proc' = [proc EXCEPT ![p].pc = "ticks_sched"]
    /\ UNCHANGED <<cpu, scan, nextpid>>

\* chan, state and sched(); the scheduler releases p->lock.  Awake again, the
\* process takes lk in the loop it came from.
sleep2(p) ==
    /\ At(p, "wait_sched") \/ At(p, "ticks_sched")
    /\ proc' = [proc EXCEPT ![p].state = "SLEEPING",
                            ![p].chan = IF proc[p].pc = "wait_sched" THEN p ELSE Ticks,
                            ![p].pc = IF proc[p].pc = "wait_sched" THEN "wait" ELSE "ticks"]
    /\ plock' = plock \ {p}
    /\ LeaveCPU(p)
    /\ UNCHANGED <<wait_lock, tickslock, nextpid>>

\* What wakeup(chan) makes of the table; it takes every other p->lock in turn.
wakeup(chan) ==
    [q \in Slots |-> IF proc[q].state = "SLEEPING" /\ proc[q].chan = chan
                     THEN [proc[q] EXCEPT !.state = "RUNNABLE"] ELSE proc[q]]

-----------------------------------------------------------------------------
(* fork *)

\* allocproc, the copies, and release(&np->lock); allocpid has counted even
\* when there is no memory.  The child is USED, and nobody's.
fork_alloc(p) ==
    /\ At(p, "user") /\ ~proc[p].killed /\ p # initproc /\ nextpid <= MaxPid
    /\ LET unused == {q \in Slots : proc[q].state = "UNUSED" /\ q \notin plock}
       IN  /\ unused # {}
           /\ nextpid' = nextpid + 1
           /\ \/ LET np == Min(unused)
                 IN  proc' = [proc EXCEPT ![np].state = "USED", ![np].pid = nextpid,
                                          ![p].pc = "fork_parent", ![p].np = np]
              \/ UNCHANGED proc
    /\ UNCHANGED <<plock, wait_lock, tickslock, cpu, scan>>

\* np->parent = p, under wait_lock.
fork_parent(p) ==
    /\ At(p, "fork_parent") /\ wait_lock = Nobody
    /\ proc' = [proc EXCEPT ![proc[p].np].parent = p, ![p].pc = "fork_run"]
    /\ UNCHANGED <<plock, wait_lock, tickslock, cpu, scan, nextpid>>

fork_run(p) ==
    /\ At(p, "fork_run") /\ proc[p].np \notin plock
    /\ proc' = [proc EXCEPT ![proc[p].np].state = "RUNNABLE", ![p].pc = "user", ![p].np = Nobody]
    /\ UNCHANGED <<plock, wait_lock, tickslock, cpu, scan, nextpid>>

-----------------------------------------------------------------------------
(* exit *)

\* The call of exit(), or usertrap's for a killed process.
exit_call(p) ==
    /\ At(p, "user") /\ p # initproc
    /\ proc' = [proc EXCEPT ![p].pc = "exit"]
    /\ UNCHANGED <<plock, wait_lock, tickslock, cpu, scan, nextpid>>

\* The children go to init, which is woken if there are any.
reparent(p) ==
    LET woken == IF Children(p) = {} THEN proc ELSE wakeup(initproc)
    IN  [q \in Slots |-> IF proc[q].parent = p THEN [woken[q] EXCEPT !.parent = initproc]
                         ELSE woken[q]]

\* acquire(&wait_lock), reparent.
exit_reparent(p) ==
    /\ At(p, "exit") /\ wait_lock = Nobody /\ OthersUnlocked(p)
    /\ wait_lock' = p
    /\ proc' = [reparent(p) EXCEPT ![p].pc = "exit_wake"]
    /\ UNCHANGED <<plock, tickslock, cpu, scan, nextpid>>

\* (mutant) The parent is not woken.
WakeNobody(p) == proc

WakeParent(p) == wakeup(proc[p].parent)

\* wakeup(p->parent); then, with p->lock, the zombie that lets wait_lock go.
exit_zombie(p) ==
    /\ At(p, "exit_wake") /\ OthersUnlocked(p)
    /\ proc' = [WakeParent(p) EXCEPT ![p].state = "ZOMBIE", ![p].pc = "exit_sched"]
    /\ plock' = plock \cup {p}
    /\ wait_lock' = Nobody
    /\ UNCHANGED <<tickslock, cpu, scan, nextpid>>

\* sched(), never to return; the scheduler releases p->lock.
exit_sched(p) ==
    /\ At(p, "exit_sched")
    /\ proc' = [proc EXCEPT ![p].pc = "user"]
    /\ plock' = plock \ {p}
    /\ LeaveCPU(p)
    /\ UNCHANGED <<wait_lock, tickslock, nextpid>>

-----------------------------------------------------------------------------
(* wait *)

wait_call(p) ==
    /\ At(p, "user") /\ ~proc[p].killed
    /\ p = initproc => Children(p) # {}
    /\ proc' = [proc EXCEPT ![p].pc = "wait"]
    /\ UNCHANGED <<plock, wait_lock, tickslock, cpu, scan, nextpid>>

\* (mutant) The scan does not take the children's locks.
LockFree(p) == TRUE

\* The scan takes the lock of every child in turn.
ChildrenUnlocked(p) == Children(p) \cap plock = {}

freeproc(q) == Unused

\* One turn of wait's outer loop, with wait_lock.
wait(p) ==
    /\ At(p, "wait") /\ wait_lock = Nobody /\ ChildrenUnlocked(p)
    /\ LET zombies == {q \in Children(p) : proc[q].state = "ZOMBIE"}
       IN  \/ /\ zombies # {}
              /\ \/ proc' = [proc EXCEPT ![Min(zombies)] = freeproc(Min(zombies)), ![p].pc = "user"]
                 \* the status cannot be copied out
                 \/ p # initproc /\ proc' = [proc EXCEPT ![p].pc = "user"]
              /\ UNCHANGED wait_lock
           \/ /\ zombies = {} /\ (Children(p) = {} \/ proc[p].killed)
              /\ proc' = [proc EXCEPT ![p].pc = "user"]
              /\ UNCHANGED wait_lock
           \/ /\ zombies = {} /\ Children(p) # {} /\ ~proc[p].killed
              /\ proc' = [proc EXCEPT ![p].pc = "wait_sleep"]
              /\ wait_lock' = p
    /\ UNCHANGED <<plock, tickslock, cpu, scan, nextpid>>

-----------------------------------------------------------------------------
(* kill, sys_sleep, clockintr *)

\* kill: the first entry with that pid.
kill(p, pid) ==
    /\ At(p, "user") /\ ~proc[p].killed /\ p # initproc
    /\ LET found == {q \in Slots : proc[q].pid = pid}
           q == Min(found)
       IN  /\ found # {}
           /\ q \notin plock
           /\ proc' = [proc EXCEPT ![q].killed = TRUE,
                                   ![q].state = IF @ = "SLEEPING" THEN "RUNNABLE" ELSE @]
    /\ UNCHANGED <<plock, wait_lock, tickslock, cpu, scan, nextpid>>

sys_sleep_call(p, n) ==
    /\ At(p, "user") /\ ~proc[p].killed /\ p # initproc
    /\ proc' = [proc EXCEPT ![p].pc = "ticks", ![p].left = n]
    /\ UNCHANGED <<plock, wait_lock, tickslock, cpu, scan, nextpid>>

\* One turn of sys_sleep's loop, with tickslock.
sys_sleep(p) ==
    /\ At(p, "ticks") /\ tickslock = Nobody
    /\ IF proc[p].left = 0 \/ proc[p].killed
       THEN /\ proc' = [proc EXCEPT ![p].pc = "user", ![p].left = 0]
            /\ UNCHANGED tickslock
       ELSE /\ proc' = [proc EXCEPT ![p].pc = "ticks_sleep"]
            /\ tickslock' = p
    /\ UNCHANGED <<plock, wait_lock, cpu, scan, nextpid>>

\* The clock interrupt of CPU 0.
clockintr ==
    /\ tickslock = Nobody /\ plock = {}
    /\ \E p \in Slots : proc[p].left > 0
    /\ proc' = [q \in Slots |-> [wakeup(Ticks)[q] EXCEPT !.left = IF @ = 0 THEN 0 ELSE @ - 1]]
    /\ UNCHANGED <<plock, wait_lock, tickslock, cpu, scan, nextpid>>

-----------------------------------------------------------------------------
\* (mutant) A trap from a program does not look for the mark of kill().
UsertrapBlind(p) == FALSE /\ exit_call(p)

\* usertrap calls exit() for a killed process.
usertrap(p) == proc[p].killed /\ exit_call(p)

\* The kernel's part of a process's life.
Kernel(p) ==
    \/ sleep1(p) \/ sleep2(p)
    \/ fork_parent(p) \/ fork_run(p)
    \/ exit_reparent(p) \/ exit_zombie(p) \/ exit_sched(p)
    \/ wait(p) \/ sys_sleep(p)
    \/ usertrap(p)

\* What programs ask for.
User(p) ==
    \/ fork_alloc(p) \/ (~proc[p].killed /\ exit_call(p)) \/ wait_call(p)
    \/ \E pid \in KillPids : kill(p, pid)
    \/ sys_sleep_call(p, 1)

ProcNext ==
    \/ \E c \in CPUs : scheduler(c)
    \/ \E p \in Slots : Kernel(p) \/ User(p) \/ yield(p)
    \/ clockintr

\* CPUs run, the clock ticks, timer interrupts come, the kernel's code goes
\* on, and init waits for children again and again.
ProcSpec ==
    /\ ProcInit /\ [][ProcNext]_vars
    /\ \A c \in CPUs : WF_vars(scheduler(c))
    /\ \A p \in Slots : SF_vars(Kernel(p)) /\ WF_vars(yield(p))
    /\ SF_vars(wait_call(initproc))
    /\ WF_vars(clockintr)

-----------------------------------------------------------------------------
(* Properties *)

\* Types.
TypeOK ==
    /\ \A p \in Slots :
           /\ proc[p].state \in {"UNUSED", "USED", "SLEEPING", "RUNNABLE", "RUNNING", "ZOMBIE"}
           /\ proc[p].pid \in 0..MaxPid /\ proc[p].parent \in 0..NPROC
           /\ proc[p].chan \in 0..Ticks /\ proc[p].killed \in BOOLEAN
           /\ proc[p].np \in 0..NPROC /\ proc[p].left \in 0..1
    /\ plock \subseteq Slots /\ wait_lock \in 0..NPROC /\ tickslock \in 0..NPROC
    /\ cpu \in [CPUs -> 0..NPROC] /\ scan \in [CPUs -> Slots]
    /\ nextpid \in 1..(MaxPid + 1)

\* A process is on one CPU at most, and its entry is not freed while a CPU
\* still uses its kernel stack, in exit() too.
StackInUse ==
    /\ \A c, d \in CPUs : cpu[c] = cpu[d] /\ cpu[c] # Nobody => c = d
    /\ \A c \in CPUs : cpu[c] # Nobody => proc[cpu[c]].state \in {"RUNNING", "ZOMBIE"}
    /\ \A p \in Slots : proc[p].state = "RUNNING" => Running(p)

\* Every process but init has a parent that can still wait for it; the child
\* of a fork that is not finished has none, and is not seen by anybody.
ParentsAlive ==
    \A p \in Slots \ {initproc} :
        \/ proc[p].state = "UNUSED"
        \/ proc[p].parent # Nobody /\ proc[proc[p].parent].state \notin {"UNUSED", "USED", "ZOMBIE"}
        \/ proc[p].state = "USED" /\ \E q \in Slots : proc[q].np = p /\ proc[q].pc = "fork_parent"

\* Nobody sleeps in wait() beside a zombie child: neither a child's exit nor
\* a grandparent's inheritance is missed.
NoLostWakeup ==
    \A p \in Slots : proc[p].state = "SLEEPING" /\ proc[p].chan = p =>
        Children(p) # {} /\ \A q \in Children(p) : proc[q].state # "ZOMBIE"

\* A process is marked killed only while it exists: no process is born killed.
BornAlive == \A p \in Slots : proc[p].state = "UNUSED" => ~proc[p].killed

\* A zombie is reaped when init is its parent, and when its parent is in
\* wait(), unless that wait() returns with another child or the parent exits.
Reaped ==
    \A p \in Slots \ {initproc} :
        LET parent(q) == proc[p].parent = q
        IN  (proc[p].state = "ZOMBIE"
                 /\ \/ parent(initproc)
                    \/ \E q \in Slots : parent(q) /\ proc[q].pc \in {"wait", "wait_sleep", "wait_sched"})
                ~> \/ proc[p].state = "UNUSED"
                   \/ \E q \in Slots \ {initproc} : parent(q) /\ proc[q].pc = "user"

\* A killed process exits, asleep in sys_sleep or running, unless the kill
\* came after wait() had looked for it and before it slept: then it sleeps on
\* until a child exits.
KilledExits ==
    \A p \in Slots \ {initproc} :
        proc[p].killed ~> \/ proc[p].state \in {"ZOMBIE", "UNUSED"}
                          \/ proc[p].state = "SLEEPING" /\ proc[p].chan = p
=============================================================================
