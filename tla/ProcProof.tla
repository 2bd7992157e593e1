----------------------------- MODULE ProcProof -----------------------------
(***************************************************************************)
(* Proof, for every NPROC and every set of CPUs, that no kernel stack is   *)
(* used by two CPUs and none is freed or rescheduled while a CPU is on it  *)
(* (StackInUse, kernel/proc.c).                                            *)
(*                                                                         *)
(* StackInUse is not inductive: why wait() may free a zombie is that one   *)
(* still on its stack holds its own lock, and why fork() may make its      *)
(* child runnable is that nobody else is making that slot.  StackInv adds  *)
(* both.                                                                   *)
(***************************************************************************)
EXTENDS Proc, LeastElement

\* The values of the flag killed.
Flags == BOOLEAN

Entry == [state : {"UNUSED", "USED", "SLEEPING", "RUNNABLE", "RUNNING", "ZOMBIE"},
          pid : Int, parent : Int, chan : Int, killed : Flags,
          pc : {"user", "fork_parent", "fork_run", "exit", "exit_wake", "exit_sched",
                "wait", "wait_sleep", "wait_sched", "ticks", "ticks_sleep", "ticks_sched"},
          np : Int, left : Int]

Forking(p) == proc[p].pc \in {"fork_parent", "fork_run"}

Types ==
    /\ proc \in [Slots -> Entry]
    /\ cpu \in [CPUs -> 0..NPROC] /\ scan \in [CPUs -> Slots]
    /\ nextpid \in Int

\* A zombie still on its kernel stack holds its own lock and is in exit's last step.
ZombieLocked == \A p \in Slots : proc[p].state = "ZOMBIE" /\ Running(p)
                                    => p \in plock /\ proc[p].pc = "exit_sched"

\* Only a zombie is in exit's last step.
LastStep == \A p \in Slots : proc[p].pc = "exit_sched" => proc[p].state = "ZOMBIE"

\* The slot that fork() is filling is USED, and no other fork() fills it.
ForkOwns ==
    /\ \A p \in Slots : Forking(p) => proc[p].np \in Slots /\ proc[proc[p].np].state = "USED"
    /\ \A p, q \in Slots : Forking(p) /\ Forking(q) /\ proc[p].np = proc[q].np => p = q

StackInv == Types /\ StackInUse /\ ZombieLocked /\ LastStep /\ ForkOwns

-----------------------------------------------------------------------------
\* The next slot of a scan is a slot.
LEMMA NextSlot == ASSUME NEW p \in Slots PROVE NextInTable(p) \in Slots
<1>1. NPROC \in Nat /\ NPROC > 0
  BY ProcAssumption
<1>2. (p % NPROC) \in 0..(NPROC - 1)
  BY <1>1 DEF Slots
<1> QED
  BY <1>1, <1>2 DEF NextInTable, Slots

\* A process on a CPU is RUNNING, or a zombie in exit's last step.
LEMMA OnStack ==
    ASSUME StackInv, NEW p \in Slots, Running(p)
    PROVE  /\ proc[p].state \in {"RUNNING", "ZOMBIE"}
           /\ proc[p].pc # "exit_sched" => proc[p].state = "RUNNING"
<1>1. PICK c \in CPUs : cpu[c] = p
  BY DEF Running
<1>2. p # Nobody
  BY ProcAssumption DEF Slots, Nobody
<1>3. proc[p].state \in {"RUNNING", "ZOMBIE"}
  BY <1>1, <1>2 DEF StackInv, StackInUse
<1> QED
  BY <1>3 DEF StackInv, ZombieLocked

\* The invariant holds after procinit and userinit.
LEMMA StackInit == ProcInit => StackInv
<1> SUFFICES ASSUME ProcInit PROVE StackInv
  OBVIOUS
<1> USE ProcAssumption
<1>1. proc = [p \in Slots |->
                  IF p = 1 THEN [Unused EXCEPT !.state = "RUNNABLE", !.pid = 1]
                  ELSE IF p = 2 THEN [Unused EXCEPT !.state = "RUNNABLE", !.pid = 2, !.parent = 1]
                  ELSE Unused]
  BY DEF ProcInit
<1>2. plock = {} /\ nextpid = 3
  BY DEF ProcInit
<1>3. cpu = [c \in CPUs |-> 0] /\ scan = [c \in CPUs |-> 1]
  BY DEF ProcInit, Nobody
<1>4. \A p \in Slots : /\ proc[p] \in Entry /\ proc[p].pc = "user"
                        /\ proc[p].state \in {"UNUSED", "RUNNABLE"}
  <2> TAKE p \in Slots
  <2>1. Unused \in Entry
    BY DEF Unused, Entry, Flags, Nobody
  <2>2. CASE p = 1
    <3>1. proc[p] = [[Unused EXCEPT !.state = "RUNNABLE"] EXCEPT !.pid = 1]
      BY <1>1, <2>1, <2>2 DEF Entry
    <3>2. [Unused EXCEPT !.state = "RUNNABLE"] \in Entry
      BY <2>1 DEF Entry
    <3>3. proc[p] \in Entry
      <4> DEFINE r == [Unused EXCEPT !.state = "RUNNABLE"]
      <4>1. r \in Entry /\ proc[p] = [r EXCEPT !.pid = 1]
        BY <3>1, <3>2
      <4> HIDE DEF r
      <4> QED
        BY <4>1 DEF Entry
    <3> QED
      BY <3>1, <3>3 DEF Unused
  <2>3. CASE p = 2
    <3>1. proc[p] = [[[Unused EXCEPT !.state = "RUNNABLE"] EXCEPT !.pid = 2] EXCEPT !.parent = 1]
      BY <1>1, <2>1, <2>3 DEF Entry
    <3> DEFINE r == [Unused EXCEPT !.state = "RUNNABLE"]
    <3>2. r \in Entry
      BY <2>1 DEF Entry
    <3>4. [r EXCEPT !.pid = 2] \in Entry
      <4> HIDE DEF r
      <4> QED
        BY <3>2 DEF Entry
    <3>3. proc[p] \in Entry
      <4> DEFINE t == [r EXCEPT !.pid = 2]
      <4>1. t \in Entry /\ proc[p] = [t EXCEPT !.parent = 1]
        BY <3>1, <3>4
      <4> HIDE DEF t
      <4> QED
        BY <4>1 DEF Entry
    <3> QED
      BY <3>1, <3>3 DEF Unused
  <2>4. CASE p # 1 /\ p # 2
    BY <1>1, <2>1, <2>4 DEF Unused
  <2> QED
    BY <2>2, <2>3, <2>4
<1>5. proc \in [Slots -> Entry]
  <2>1. \A p \in Slots : proc[p] \in Entry
    BY <1>4
  <2>2. proc = [p \in Slots |-> proc[p]]
    BY <1>1
  <2> QED
    BY <2>1, <2>2
<1>6. Types
  BY <1>2, <1>3, <1>5 DEF Types, Slots
<1>7. \A p \in Slots : ~Running(p)
  BY <1>3 DEF Running, Slots
<1>8. StackInUse
  BY <1>3, <1>4 DEF StackInUse, Nobody
<1>9. ZombieLocked /\ LastStep /\ ForkOwns
  BY <1>4 DEF ZombieLocked, LastStep, ForkOwns, Forking
<1> QED
  BY <1>6, <1>8, <1>9 DEF StackInv

-----------------------------------------------------------------------------
\* A step that moves no process on or off a CPU, wakes sleepers at most, and
\* starts no fork and no last step of exit, keeps the invariant.
LEMMA Calm ==
    ASSUME StackInv, Types', cpu' = cpu, plock \subseteq plock',
           \A q \in Slots : \/ proc'[q].state = proc[q].state
                            \/ proc[q].state = "SLEEPING" /\ proc'[q].state = "RUNNABLE",
           \A q \in Slots : proc'[q].pc = "exit_sched" <=> proc[q].pc = "exit_sched",
           \A q \in Slots : Forking(q)' => Forking(q) /\ proc'[q].np = proc[q].np
    PROVE  StackInv'
<1>1. \A q \in Slots : Running(q)' <=> Running(q)
  BY DEF Running
<1>2. StackInUse'
  <2>1. \A c, d \in CPUs : cpu'[c] = cpu'[d] /\ cpu'[c] # Nobody => c = d
    BY DEF StackInv, StackInUse
  <2>2. \A c \in CPUs : cpu'[c] # Nobody => proc'[cpu'[c]].state \in {"RUNNING", "ZOMBIE"}
    <3> TAKE c \in CPUs
    <3> HAVE cpu'[c] # Nobody
    <3>1. cpu[c] \in Slots
      BY ProcAssumption DEF StackInv, Types, Slots, Nobody
    <3>2. proc[cpu[c]].state \in {"RUNNING", "ZOMBIE"}
      BY DEF StackInv, StackInUse
    <3> QED
      BY <3>1, <3>2
  <2>3. \A p \in Slots : proc'[p].state = "RUNNING" => Running(p)'
    BY <1>1 DEF StackInv, StackInUse
  <2> QED
    BY <2>1, <2>2, <2>3 DEF StackInUse
<1>3. ZombieLocked'
  BY <1>1 DEF StackInv, ZombieLocked
<1>4. LastStep'
  BY DEF StackInv, LastStep
<1>5. ForkOwns'
  BY DEF StackInv, ForkOwns
<1> QED
  BY <1>2, <1>3, <1>4, <1>5 DEF StackInv

\* A process that leaves its CPU, no longer RUNNING and not in exit's last step,
\* keeps the invariant.
LEMMA Leaves ==
    ASSUME StackInv, Types', NEW p \in Slots, Running(p), LeaveCPU(p), plock \ {p} \subseteq plock',
           \A q \in Slots \ {p} : proc'[q] = proc[q],
           proc'[p].state # "RUNNING", proc'[p].pc # "exit_sched",
           Forking(p)' => Forking(p) /\ proc'[p].np = proc[p].np
    PROVE  StackInv'
<1>1. p # Nobody
  BY ProcAssumption DEF Slots, Nobody
<1>2. \A c \in CPUs : cpu'[c] = IF cpu[c] = p THEN Nobody ELSE cpu[c]
  BY DEF LeaveCPU
<1>3. ~Running(p)' /\ \A q \in Slots \ {p} : Running(q)' <=> Running(q)
  <2>1. ~Running(p)'
    BY <1>1, <1>2 DEF Running
  <2>2. \A q \in Slots \ {p} : q # Nobody
    BY ProcAssumption DEF Slots, Nobody
  <2> QED
    BY <2>1, <2>2, <1>2 DEF Running
<1>4. proc[p].state \in {"RUNNING", "ZOMBIE"}
  BY OnStack
<1>5. StackInUse'
  <2>1. \A c, d \in CPUs : cpu'[c] = cpu'[d] /\ cpu'[c] # Nobody => c = d
    BY <1>2 DEF StackInv, StackInUse
  <2>2. \A c \in CPUs : cpu'[c] # Nobody => proc'[cpu'[c]].state \in {"RUNNING", "ZOMBIE"}
    <3> TAKE c \in CPUs
    <3> HAVE cpu'[c] # Nobody
    <3>1. cpu'[c] = cpu[c] /\ cpu[c] # p
      BY <1>2
    <3>2. cpu[c] \in Slots \ {p}
      BY <3>1, ProcAssumption DEF StackInv, Types, Slots, Nobody
    <3>3. proc[cpu[c]].state \in {"RUNNING", "ZOMBIE"}
      BY <3>1 DEF StackInv, StackInUse
    <3> QED
      BY <3>1, <3>2, <3>3
  <2>3. \A q \in Slots : proc'[q].state = "RUNNING" => Running(q)'
    BY <1>3 DEF StackInv, StackInUse
  <2> QED
    BY <2>1, <2>2, <2>3 DEF StackInUse
<1>6. ZombieLocked'
  BY <1>3 DEF StackInv, ZombieLocked
<1>7. LastStep'
  BY DEF StackInv, LastStep
<1>8. ForkOwns'
  <2>1. \A q \in Slots : Forking(q)' => Forking(q) /\ proc'[q].np = proc[q].np
    BY DEF Forking
  <2>2. \A q \in Slots : proc[q].state = "USED" => proc'[q].state = "USED"
    BY <1>4
  <2> QED
    BY <2>1, <2>2 DEF StackInv, ForkOwns
<1> QED
  BY <1>5, <1>6, <1>7, <1>8 DEF StackInv

-----------------------------------------------------------------------------
\* A step that changes the entry of one process and neither CPUs nor scans keeps
\* the types.
LEMMA TypesSet ==
    ASSUME Types, NEW p \in Slots, NEW e \in Entry, proc' = [proc EXCEPT ![p] = e],
           cpu' = cpu, scan' = scan, nextpid' \in Int
    PROVE  Types' /\ proc'[p] = e /\ \A q \in Slots \ {p} : proc'[q] = proc[q]
BY DEF Types

\* A process that only moves to another place of its kernel code keeps the
\* invariant, if that place is neither fork's nor exit's last step.
LEMMA Moves ==
    ASSUME StackInv, NEW p \in Slots, NEW e \in Entry, proc' = [proc EXCEPT ![p] = e],
           e.state = proc[p].state, proc[p].pc # "exit_sched",
           e.pc \notin {"exit_sched", "fork_parent", "fork_run"},
           cpu' = cpu, scan' = scan, nextpid' \in Int, plock \subseteq plock'
    PROVE  StackInv'
<1>1. Types' /\ proc'[p] = e /\ \A q \in Slots \ {p} : proc'[q] = proc[q]
  BY TypesSet DEF StackInv
<1> QED
  BY <1>1, Calm DEF Forking

\* One step of a CPU's scheduler.
LEMMA SchedulerKeeps == ASSUME StackInv, NEW c \in CPUs, scheduler(c) PROVE StackInv'
<1>0. PICK p \in Slots : p = scan[c]
  BY DEF StackInv, Types
<1>1. p \in Slots /\ NextInTable(p) \in Slots
  BY NextSlot
<1>2. proc[p] \in Entry
  BY <1>1 DEF StackInv, Types
<1>3. CASE proc[p].state = "RUNNABLE"
  <2> DEFINE e == [proc[p] EXCEPT !.state = "RUNNING", !.chan = Nobody]
  <2>0. e = [[proc[p] EXCEPT !.state = "RUNNING"] EXCEPT !.chan = 0]
    BY <1>2 DEF Entry, Nobody
  <2>1. e \in Entry /\ e.state = "RUNNING" /\ e.pc = proc[p].pc /\ e.np = proc[p].np
    <3>2. [proc[p] EXCEPT !.state = "RUNNING"] \in Entry
      BY <1>2 DEF Entry
    <3>1. e \in Entry
      <4> DEFINE r == [proc[p] EXCEPT !.state = "RUNNING"]
      <4>1. r \in Entry /\ e = [r EXCEPT !.chan = 0]
        BY <2>0, <3>2
      <4> HIDE DEF r, e
      <4> QED
        BY <4>1 DEF Entry
    <3> QED
      BY <1>2, <3>1 DEF Entry, Nobody
  <2>2. proc' = [proc EXCEPT ![p] = e] /\ cpu' = [cpu EXCEPT ![c] = p]
    BY <1>0, <1>2, <1>3 DEF scheduler, StackInv, Types, Entry
  <2>3. scan' = scan /\ plock' = plock /\ nextpid' = nextpid /\ cpu[c] = Nobody
    BY <1>0, <1>3 DEF scheduler
  <2> HIDE DEF e
  <2>4. proc'[p] = e /\ \A q \in Slots \ {p} : proc'[q] = proc[q]
    BY <1>1, <2>2 DEF StackInv, Types
  <2>5. Types'
    BY <1>1, <2>1, <2>2, <2>3 DEF StackInv, Types, Slots
  <2>6. cpu'[c] = p /\ \A d \in CPUs \ {c} : cpu'[d] = cpu[d]
    BY <2>2 DEF StackInv, Types
  <2>7. ~Running(p)
    BY <1>1, <1>3, OnStack
  <2>8. Running(p)' /\ \A q \in Slots \ {p} : Running(q)' <=> Running(q)
    <3>1. \A q \in Slots : q # Nobody
      BY ProcAssumption DEF Slots, Nobody
    <3>2. Running(p)'
      BY <2>6 DEF Running
    <3>3. ASSUME NEW q \in Slots \ {p} PROVE Running(q)' <=> Running(q)
      BY <2>3, <2>6, <3>1 DEF Running
    <3> QED
      BY <3>2, <3>3
  <2>9. StackInUse'
    <3>1. \A d \in CPUs : cpu[d] # p
      BY <2>7 DEF Running
    <3>2. \A d, f \in CPUs : cpu'[d] = cpu'[f] /\ cpu'[d] # Nobody => d = f
      BY <2>6, <3>1 DEF StackInv, StackInUse
    <3>3. \A d \in CPUs : cpu'[d] # Nobody => proc'[cpu'[d]].state \in {"RUNNING", "ZOMBIE"}
      <4> TAKE d \in CPUs
      <4> HAVE cpu'[d] # Nobody
      <4>1. CASE d = c
        BY <2>1, <2>4, <2>6, <4>1
      <4>2. CASE d # c
        <5>1. cpu[d] \in Slots \ {p} /\ cpu'[d] = cpu[d]
          BY <2>6, <3>1, <4>2, ProcAssumption DEF StackInv, Types, Slots, Nobody
        <5>2. proc[cpu[d]].state \in {"RUNNING", "ZOMBIE"}
          BY <5>1 DEF StackInv, StackInUse
        <5> QED
          BY <2>4, <5>1, <5>2
      <4> QED
        BY <4>1, <4>2
    <3>4. \A q \in Slots : proc'[q].state = "RUNNING" => Running(q)'
      <4> TAKE q \in Slots
      <4>1. CASE q = p
        BY <2>8, <4>1
      <4>2. CASE q # p
        BY <2>4, <2>8, <4>2 DEF StackInv, StackInUse
      <4> QED
        BY <4>1, <4>2
    <3> QED
      BY <3>2, <3>3, <3>4 DEF StackInUse
  <2>10. ZombieLocked' /\ LastStep'
    <3>1. ZombieLocked'
      BY <2>1, <2>3, <2>4, <2>8 DEF StackInv, ZombieLocked
    <3>2. proc[p].pc # "exit_sched"
      BY <1>1, <1>3 DEF StackInv, LastStep
    <3>3. LastStep'
      BY <2>1, <2>4, <3>2 DEF StackInv, LastStep
    <3> QED
      BY <3>1, <3>3
  <2>11. ForkOwns'
    <3>1. \A q \in Slots : proc'[q].pc = proc[q].pc /\ proc'[q].np = proc[q].np
      BY <2>1, <2>4
    <3>2. \A q \in Slots : proc[q].state = "USED" => proc'[q].state = "USED"
      BY <1>3, <2>4
    <3> QED
      BY <3>1, <3>2 DEF StackInv, ForkOwns, Forking
  <2> QED
    BY <2>5, <2>9, <2>10, <2>11 DEF StackInv
<1>4. CASE proc[p].state # "RUNNABLE"
  <2>1. proc' = proc /\ cpu' = cpu /\ plock' = plock /\ nextpid' = nextpid
    BY <1>0, <1>4 DEF scheduler
  <2>2. scan' = [scan EXCEPT ![c] = NextInTable(p)]
    BY <1>0, <1>4 DEF scheduler
  <2>3. Types'
    BY <1>1, <2>1, <2>2 DEF StackInv, Types
  <2> QED
    BY <2>1, <2>3, Calm DEF Forking
<1> QED
  BY <1>3, <1>4

\* Leaving the CPU keeps the types of the CPUs and of their scans.
LEMMA LeaveTypes ==
    ASSUME Types, NEW p \in Slots, NEW e \in Entry, proc' = [proc EXCEPT ![p] = e],
           LeaveCPU(p), nextpid' \in Int
    PROVE  Types' /\ proc'[p] = e /\ \A q \in Slots \ {p} : proc'[q] = proc[q]
<1>1. NextInTable(p) \in Slots
  BY NextSlot
<1>2. cpu' \in [CPUs -> 0..NPROC]
  BY ProcAssumption DEF LeaveCPU, Types, Nobody
<1>3. scan' \in [CPUs -> Slots]
  BY <1>1 DEF LeaveCPU, Types
<1> QED
  BY <1>2, <1>3 DEF Types

\* A timer interrupt takes the CPU from a process.
LEMMA YieldKeeps == ASSUME StackInv, NEW p \in Slots, yield(p) PROVE StackInv'
<1> DEFINE e == [proc[p] EXCEPT !.state = "RUNNABLE"]
<1>1. proc[p] \in Entry
  BY DEF StackInv, Types
<1>2. e \in Entry /\ e.state = "RUNNABLE" /\ e.pc = proc[p].pc /\ e.np = proc[p].np
  BY <1>1 DEF Entry
<1>3. proc' = [proc EXCEPT ![p] = e]
  BY <1>1 DEF yield, StackInv, Types, Entry
<1>4. Running(p) /\ LeaveCPU(p) /\ plock' = plock /\ nextpid' = nextpid
  BY DEF yield
<1>5. proc[p].pc # "exit_sched"
  BY DEF yield, InterruptsOn
<1> HIDE DEF e
<1>6. Types' /\ proc'[p] = e /\ \A q \in Slots \ {p} : proc'[q] = proc[q]
  BY <1>2, <1>3, <1>4, LeaveTypes DEF StackInv, Types
<1> QED
  BY <1>2, <1>4, <1>5, <1>6, Leaves DEF Forking

\* sleep() leaves the CPU.
LEMMA SleepKeeps == ASSUME StackInv, NEW p \in Slots, sleep2(p) PROVE StackInv'
<1> DEFINE e == [proc[p] EXCEPT !.state = "SLEEPING",
                     !.chan = IF proc[p].pc = "wait_sched" THEN p ELSE Ticks,
                     !.pc = IF proc[p].pc = "wait_sched" THEN "wait" ELSE "ticks"]
<1>1. proc[p] \in Entry
  BY DEF StackInv, Types
<1>2. e \in Entry /\ e.state = "SLEEPING" /\ e.pc \in {"wait", "ticks"}
  <2> DEFINE i == IF proc[p].pc = "wait_sched" THEN p ELSE Ticks
             w == IF proc[p].pc = "wait_sched" THEN "wait" ELSE "ticks"
             r == [[proc[p] EXCEPT !.state = "SLEEPING"] EXCEPT !.chan = i]
  <2>1. e = [r EXCEPT !.pc = w]
    BY <1>1 DEF Entry
  <2>2. i \in Int /\ w \in {"wait", "ticks"}
    BY ProcAssumption DEF Ticks, Slots
  <2>3. r \in Entry /\ r.state = "SLEEPING"
    <3> HIDE DEF i
    <3>1. r \in Entry
      BY <1>1, <2>2 DEF Entry
    <3> QED
      BY <1>1, <3>1 DEF Entry
  <2> HIDE DEF e, r, w, i
  <2> QED
    BY <2>1, <2>2, <2>3 DEF Entry
<1>3. proc' = [proc EXCEPT ![p] = e]
  BY <1>1 DEF sleep2, StackInv, Types, Entry
<1>4. Running(p) /\ LeaveCPU(p) /\ plock' = plock \ {p} /\ nextpid' = nextpid
  BY DEF sleep2, At
<1> HIDE DEF e
<1>5. Types' /\ proc'[p] = e /\ \A q \in Slots \ {p} : proc'[q] = proc[q]
  BY <1>2, <1>3, <1>4, LeaveTypes DEF StackInv, Types
<1> QED
  BY <1>2, <1>4, <1>5, Leaves DEF Forking

\* A zombie leaves its kernel stack and its lock.
LEMMA ExitSchedKeeps == ASSUME StackInv, NEW p \in Slots, exit_sched(p) PROVE StackInv'
<1> DEFINE e == [proc[p] EXCEPT !.pc = "user"]
<1>1. proc[p] \in Entry
  BY DEF StackInv, Types
<1>2. e \in Entry /\ e.state = proc[p].state /\ e.pc = "user"
  BY <1>1 DEF Entry
<1>3. proc' = [proc EXCEPT ![p] = e]
  BY <1>1 DEF exit_sched, StackInv, Types, Entry
<1>4. Running(p) /\ LeaveCPU(p) /\ plock' = plock \ {p} /\ nextpid' = nextpid
  BY DEF exit_sched, At
<1>5. proc[p].state = "ZOMBIE"
  BY DEF exit_sched, At, StackInv, LastStep
<1> HIDE DEF e
<1>6. Types' /\ proc'[p] = e /\ \A q \in Slots \ {p} : proc'[q] = proc[q]
  BY <1>2, <1>3, <1>4, LeaveTypes DEF StackInv, Types
<1> QED
  BY <1>2, <1>4, <1>5, <1>6, Leaves DEF Forking

-----------------------------------------------------------------------------
\* wakeup() changes only the state of sleepers.
LEMMA Wakes ==
    ASSUME Types, NEW chan
    PROVE  /\ wakeup(chan) \in [Slots -> Entry]
           /\ \A q \in Slots : LET w == wakeup(chan)[q] IN
                 /\ w.pc = proc[q].pc /\ w.np = proc[q].np
                 /\ \/ w.state = proc[q].state
                    \/ proc[q].state = "SLEEPING" /\ w.state = "RUNNABLE"
<1> DEFINE w(q) == IF proc[q].state = "SLEEPING" /\ proc[q].chan = chan
                   THEN [proc[q] EXCEPT !.state = "RUNNABLE"] ELSE proc[q]
<1>1. wakeup(chan) = [q \in Slots |-> w(q)]
  BY DEF wakeup
<1>2. ASSUME NEW q \in Slots
      PROVE  /\ w(q) \in Entry /\ w(q).pc = proc[q].pc /\ w(q).np = proc[q].np
             /\ \/ w(q).state = proc[q].state
                \/ proc[q].state = "SLEEPING" /\ w(q).state = "RUNNABLE"
  <2>1. proc[q] \in Entry
    BY DEF Types
  <2>2. CASE proc[q].state = "SLEEPING" /\ proc[q].chan = chan
    <3>1. w(q) = [proc[q] EXCEPT !.state = "RUNNABLE"]
      BY <2>2
    <3> QED
      BY <2>1, <2>2, <3>1 DEF Entry
  <2>3. CASE ~(proc[q].state = "SLEEPING" /\ proc[q].chan = chan)
    <3>1. w(q) = proc[q]
      BY <2>3
    <3> QED
      BY <2>1, <3>1
  <2> QED
    BY <2>2, <2>3
<1> HIDE DEF w
<1> QED
  BY <1>1, <1>2

\* A process enters exit(), wait() or sleep(), or returns to user mode.
LEMMA PlaceKeeps ==
    ASSUME StackInv, NEW p \in Slots, proc[p].pc # "exit_sched",
           NEW to \in {"user", "exit", "wait", "wait_sleep", "wait_sched", "ticks_sleep", "ticks_sched"},
           proc' = [proc EXCEPT ![p].pc = to],
           cpu' = cpu, scan' = scan, nextpid' \in Int, plock \subseteq plock'
    PROVE  StackInv'
<1> DEFINE e == [proc[p] EXCEPT !.pc = to]
<1>1. proc[p] \in Entry
  BY DEF StackInv, Types
<1>2. e \in Entry /\ e.state = proc[p].state /\ e.pc = to
  BY <1>1 DEF Entry
<1>3. proc' = [proc EXCEPT ![p] = e]
  BY <1>1 DEF StackInv, Types, Entry
<1> HIDE DEF e
<1> QED
  BY <1>2, <1>3, Moves

\* sleep() takes p->lock and releases its caller's lock.
LEMMA SleepLockKeeps == ASSUME StackInv, NEW p \in Slots, sleep1(p) PROVE StackInv'
<1>1. cpu' = cpu /\ scan' = scan /\ nextpid' \in Int /\ plock \subseteq plock'
  BY DEF sleep1, SleepStart, SleepLock, StackInv, Types
<1>2. PICK to \in {"wait_sched", "ticks_sched"} : proc' = [proc EXCEPT ![p].pc = to]
  BY DEF sleep1
<1>3. proc[p].pc # "exit_sched"
  BY DEF sleep1, SleepStart, SleepLock, At
<1> QED
  BY <1>1, <1>2, <1>3, PlaceKeeps

\* exit() and wait() are called.
LEMMA CallsKeep ==
    ASSUME StackInv, NEW p \in Slots, exit_call(p) \/ wait_call(p) PROVE StackInv'
<1>1. cpu' = cpu /\ scan' = scan /\ nextpid' \in Int /\ plock \subseteq plock'
  BY DEF exit_call, wait_call, StackInv, Types
<1>2. PICK to \in {"exit", "wait"} : proc' = [proc EXCEPT ![p].pc = to]
  BY DEF exit_call, wait_call
<1>3. proc[p].pc # "exit_sched"
  BY DEF exit_call, wait_call, At
<1> QED
  BY <1>1, <1>2, <1>3, PlaceKeeps

\* sleep(n) is called, returns, or waits for the next tick.
LEMMA SysSleepKeeps ==
    ASSUME StackInv, NEW p \in Slots, sys_sleep_call(p, 1) \/ sys_sleep(p) PROVE StackInv'
<1>1. cpu' = cpu /\ scan' = scan /\ nextpid' \in Int /\ plock \subseteq plock'
  BY DEF sys_sleep_call, sys_sleep, StackInv, Types
<1>2. proc[p].pc # "exit_sched" /\ proc[p] \in Entry
  BY DEF sys_sleep_call, sys_sleep, At, StackInv, Types
<1>3. CASE proc' = [proc EXCEPT ![p].pc = "ticks_sleep"]
  BY <1>1, <1>2, <1>3, PlaceKeeps
<1>4. CASE \E to \in {"user", "ticks"}, n \in Int : proc' = [proc EXCEPT ![p].pc = to, ![p].left = n]
  <2>0. PICK to \in {"user", "ticks"}, n \in Int : proc' = [proc EXCEPT ![p].pc = to, ![p].left = n]
    BY <1>4
  <2> DEFINE r == [proc[p] EXCEPT !.pc = to]
             e == [r EXCEPT !.left = n]
  <2>1. proc' = [proc EXCEPT ![p] = e]
    BY <1>2, <2>0 DEF StackInv, Types, Entry
  <2>2. r \in Entry /\ r.state = proc[p].state /\ r.pc = to
    BY <1>2 DEF Entry
  <2>3. e \in Entry /\ e.state = proc[p].state /\ e.pc = to
    <3> HIDE DEF r
    <3> QED
      BY <2>2 DEF Entry
  <2> HIDE DEF e
  <2> QED
    BY <1>1, <1>2, <2>1, <2>3, Moves
<1> QED
  BY <1>3, <1>4 DEF sys_sleep_call, sys_sleep

\* kill() marks a process and wakes it.
LEMMA KillKeeps == ASSUME StackInv, NEW p \in Slots, NEW pid, kill(p, pid) PROVE StackInv'
<1> DEFINE found == {q \in Slots : proc[q].pid = pid}
<1>1. PICK q \in Slots : q = Min(found)
  <2>1. found # {} /\ found \subseteq Nat
    BY DEF kill, Slots
  <2> QED
    BY <2>1, MinIn
<1> DEFINE s == IF proc[q].state = "SLEEPING" THEN "RUNNABLE" ELSE proc[q].state
<1>2. cpu' = cpu /\ scan' = scan /\ nextpid' = nextpid /\ plock' = plock
  BY DEF kill
<1>3. proc' = [proc EXCEPT ![q].killed = TRUE,
                           ![q].state = IF @ = "SLEEPING" THEN "RUNNABLE" ELSE @]
  BY <1>1 DEF kill
<1>4. proc[q] \in Entry
  BY DEF StackInv, Types
<1>5. PICK b \in Flags : b = TRUE
  BY Zenon DEF Flags
<1> DEFINE r == [proc[q] EXCEPT !.killed = b]
           e == [r EXCEPT !.state = s]
<1>6. r \in Entry /\ r.pc = proc[q].pc /\ r.np = proc[q].np /\ r.state = proc[q].state
  BY <1>4 DEF Entry
<1>7. e \in Entry /\ e.pc = proc[q].pc /\ e.np = proc[q].np /\ e.state = s
  <2>1. s \in {"UNUSED", "USED", "SLEEPING", "RUNNABLE", "RUNNING", "ZOMBIE"}
    BY <1>4 DEF Entry
  <2> HIDE DEF r, s
  <2> QED
    BY <1>6, <2>1 DEF Entry
<1>8. proc' = [proc EXCEPT ![q] = e]
  BY <1>3, <1>4, <1>5 DEF StackInv, Types, Entry
<1> HIDE DEF e
<1>9. Types' /\ proc'[q] = e /\ \A x \in Slots \ {q} : proc'[x] = proc[x]
  BY <1>2, <1>7, <1>8, TypesSet DEF StackInv, Types
<1> QED
  BY <1>2, <1>7, <1>9, Calm DEF Forking

\* The clock interrupt wakes the sleepers of sleep(n).
LEMMA ClockKeeps == ASSUME StackInv, clockintr PROVE StackInv'
<1> DEFINE W == wakeup(Ticks)
           e(q) == [W[q] EXCEPT !.left = IF @ = 0 THEN 0 ELSE @ - 1]
<1>1. W \in [Slots -> Entry]
  BY Wakes DEF StackInv
<1>2. \A q \in Slots : /\ W[q].pc = proc[q].pc /\ W[q].np = proc[q].np
                        /\ \/ W[q].state = proc[q].state
                           \/ proc[q].state = "SLEEPING" /\ W[q].state = "RUNNABLE"
  BY Wakes DEF StackInv
<1>3. cpu' = cpu /\ scan' = scan /\ nextpid' = nextpid /\ plock' = plock
  BY DEF clockintr
<1>4. proc' = [q \in Slots |-> e(q)]
  BY DEF clockintr
<1> HIDE DEF W
<1>5. ASSUME NEW q \in Slots
      PROVE  e(q) \in Entry /\ e(q).pc = W[q].pc /\ e(q).np = W[q].np /\ e(q).state = W[q].state
  <2>1. W[q] \in Entry
    BY <1>1
  <2> QED
    BY <2>1 DEF Entry
<1> HIDE DEF e
<1>6. Types' /\ \A q \in Slots : proc'[q] = e(q)
  BY <1>3, <1>4, <1>5 DEF StackInv, Types
<1> QED
  BY <1>2, <1>3, <1>5, <1>6, Calm DEF Forking

\* fork() finds a slot, or fails after taking a pid.
LEMMA ForkAllocKeeps == ASSUME StackInv, NEW p \in Slots, fork_alloc(p) PROVE StackInv'
<1> DEFINE unused == {q \in Slots : proc[q].state = "UNUSED" /\ q \notin plock}
<1>1. cpu' = cpu /\ scan' = scan /\ nextpid' \in Int /\ plock' = plock
  <2>1. cpu' = cpu /\ scan' = scan /\ nextpid' = nextpid + 1 /\ plock' = plock
    BY Zenon DEF fork_alloc
  <2> QED
    BY <2>1 DEF StackInv, Types
<1>2. Running(p) /\ proc[p].pc = "user"
  BY DEF fork_alloc, At
<1>3. PICK np \in Slots : np = Min(unused) /\ proc[np].state = "UNUSED"
  <2>1. unused # {}
    BY Zenon DEF fork_alloc
  <2>2. unused \subseteq Nat
    BY DEF Slots
  <2> QED
    BY <2>1, <2>2, MinIn
<1>4. proc[np] \in Entry /\ proc[p] \in Entry /\ np # p
  BY <1>2, <1>3, OnStack DEF StackInv, Types
<1>5. CASE proc' = proc
  <2>1. Types'
    BY <1>1, <1>5 DEF StackInv, Types
  <2> QED
    BY <1>1, <1>5, <2>1, Calm DEF Forking
<1>6. CASE proc' = [proc EXCEPT ![np].state = "USED", ![np].pid = nextpid,
                                ![p].pc = "fork_parent", ![p].np = np]
  <2> DEFINE r == [proc[np] EXCEPT !.state = "USED"]
             e == [r EXCEPT !.pid = nextpid]
             t == [proc[p] EXCEPT !.pc = "fork_parent"]
             f == [t EXCEPT !.np = np]
  <2>1. r \in Entry /\ r.state = "USED" /\ r.pc = proc[np].pc /\ r.np = proc[np].np
    BY <1>4 DEF Entry
  <2>2. e \in Entry /\ e.state = "USED" /\ e.pc = proc[np].pc /\ e.np = proc[np].np
    <3> HIDE DEF r
    <3> QED
      BY <2>1 DEF Entry, StackInv, Types
  <2>3. t \in Entry /\ t.state = proc[p].state /\ t.pc = "fork_parent"
    BY <1>4 DEF Entry
  <2>4. f \in Entry /\ f.state = proc[p].state /\ f.pc = "fork_parent" /\ f.np = np
    <3> HIDE DEF t
    <3> QED
      BY <2>3 DEF Entry, Slots
  <2>5. proc' = [proc EXCEPT ![np] = e, ![p] = f]
    BY <1>4, <1>6 DEF StackInv, Types, Entry
  <2> HIDE DEF e, f
  <2>6. /\ proc' \in [Slots -> Entry] /\ proc'[np] = e /\ proc'[p] = f
        /\ \A q \in Slots \ {np, p} : proc'[q] = proc[q]
    BY <1>4, <2>2, <2>4, <2>5 DEF StackInv, Types
  <2>7. Types'
    BY <1>1, <2>6 DEF StackInv, Types
  <2>8. \A q \in Slots : Running(q)' <=> Running(q)
    BY <1>1 DEF Running
  <2>9. ~Running(np)
    BY <1>3, OnStack
  <2>10. StackInUse'
    <3>1. \A c, d \in CPUs : cpu'[c] = cpu'[d] /\ cpu'[c] # Nobody => c = d
      BY <1>1 DEF StackInv, StackInUse
    <3>2. \A c \in CPUs : cpu'[c] # Nobody => proc'[cpu'[c]].state \in {"RUNNING", "ZOMBIE"}
      <4> TAKE c \in CPUs
      <4> HAVE cpu'[c] # Nobody
      <4>1. cpu[c] \in Slots /\ cpu[c] # np
        BY <1>1, <2>9, ProcAssumption DEF StackInv, Types, Slots, Nobody, Running
      <4>2. proc[cpu[c]].state \in {"RUNNING", "ZOMBIE"}
        BY <1>1 DEF StackInv, StackInUse
      <4> QED
        BY <1>1, <2>4, <2>6, <4>1, <4>2
    <3>3. \A q \in Slots : proc'[q].state = "RUNNING" => Running(q)'
      BY <2>2, <2>4, <2>6, <2>8 DEF StackInv, StackInUse
    <3> QED
      BY <3>1, <3>2, <3>3 DEF StackInUse
  <2>11. ZombieLocked'
    <3>1. proc[p].state = "RUNNING"
      BY <1>2, OnStack
    <3> QED
      BY <1>1, <2>2, <2>4, <2>6, <2>8, <3>1 DEF StackInv, ZombieLocked
  <2>12. LastStep'
    BY <1>3, <2>2, <2>4, <2>6 DEF StackInv, LastStep
  <2>13. ForkOwns'
    <3>1. Forking(p)' /\ proc'[p].np = np /\ ~Forking(p)
      BY <1>2, <2>4, <2>6 DEF Forking
    <3>2. \A q \in Slots \ {p} : (Forking(q)' <=> Forking(q)) /\ proc'[q].np = proc[q].np
      BY <2>2, <2>6 DEF Forking
    <3>3. \A q \in Slots : Forking(q) => proc[q].np \in Slots /\ proc[proc[q].np].state = "USED"
      BY DEF StackInv, ForkOwns
    <3>4. \A q \in Slots : Forking(q) => proc[q].np # np
      BY <1>3, <3>3
    <3>5. \A q \in Slots : proc[q].state = "USED" => proc'[q].state = "USED"
      BY <2>2, <2>4, <2>6
    <3>6. \A q \in Slots : Forking(q)' => proc'[q].np \in Slots /\ proc'[proc'[q].np].state = "USED"
      <4> TAKE q \in Slots
      <4> HAVE Forking(q)'
      <4>1. CASE q = p
        BY <2>2, <2>6, <3>1, <4>1
      <4>2. CASE q # p
        BY <3>2, <3>3, <3>5, <4>2
      <4> QED
        BY <4>1, <4>2
    <3>7. ASSUME NEW x \in Slots, NEW q \in Slots, Forking(x)', Forking(q)', proc'[x].np = proc'[q].np
          PROVE  x = q
      BY <3>1, <3>2, <3>4, <3>7 DEF StackInv, ForkOwns
    <3> QED
      BY <3>6, <3>7 DEF ForkOwns
  <2> QED
    BY <2>7, <2>10, <2>11, <2>12, <2>13 DEF StackInv
<1> QED
  BY <1>3, <1>5, <1>6 DEF fork_alloc

\* fork() records the parent of the new process.
LEMMA ForkParentKeeps == ASSUME StackInv, NEW p \in Slots, fork_parent(p) PROVE StackInv'
<1>1. cpu' = cpu /\ scan' = scan /\ nextpid' = nextpid /\ plock' = plock
  BY DEF fork_parent
<1>2. Forking(p) /\ proc[p].pc = "fork_parent" /\ Running(p)
  BY DEF fork_parent, At, Forking
<1>3. PICK np \in Slots : np = proc[p].np /\ proc[np].state = "USED"
  BY <1>2 DEF StackInv, ForkOwns
<1>4. proc[np] \in Entry /\ proc[p] \in Entry /\ np # p
  BY <1>2, <1>3, OnStack DEF StackInv, Types
<1> DEFINE e == [proc[np] EXCEPT !.parent = p]
           f == [proc[p] EXCEPT !.pc = "fork_run"]
<1>5. e \in Entry /\ e.state = proc[np].state /\ e.pc = proc[np].pc /\ e.np = proc[np].np
  BY <1>4 DEF Entry, Slots
<1>6. f \in Entry /\ f.state = proc[p].state /\ f.pc = "fork_run" /\ f.np = proc[p].np
  BY <1>4 DEF Entry
<1>7. proc' = [proc EXCEPT ![np] = e, ![p] = f]
  BY <1>3, <1>4 DEF fork_parent, StackInv, Types, Entry
<1> HIDE DEF e, f
<1>8. /\ proc' \in [Slots -> Entry] /\ proc'[np] = e /\ proc'[p] = f
      /\ \A q \in Slots \ {np, p} : proc'[q] = proc[q]
  BY <1>4, <1>5, <1>6, <1>7 DEF StackInv, Types
<1>9. Types'
  BY <1>1, <1>8 DEF StackInv, Types
<1>10. \A q \in Slots : proc'[q].state = proc[q].state /\ proc'[q].np = proc[q].np
  BY <1>5, <1>6, <1>8
<1>11. \A q \in Slots : proc'[q].pc = "exit_sched" <=> proc[q].pc = "exit_sched"
  BY <1>2, <1>5, <1>6, <1>8
<1>12. \A q \in Slots : Forking(q)' => Forking(q)
  BY <1>2, <1>5, <1>8 DEF Forking
<1> QED
  BY <1>1, <1>9, <1>10, <1>11, <1>12, Calm

\* fork() makes the new process runnable.
LEMMA ForkRunKeeps == ASSUME StackInv, NEW p \in Slots, fork_run(p) PROVE StackInv'
<1>1. cpu' = cpu /\ scan' = scan /\ nextpid' = nextpid /\ plock' = plock
  BY DEF fork_run
<1>2. Forking(p) /\ proc[p].pc = "fork_run" /\ Running(p)
  BY DEF fork_run, At, Forking
<1>3. PICK np \in Slots : np = proc[p].np /\ proc[np].state = "USED"
  BY <1>2 DEF StackInv, ForkOwns
<1>4. proc[np] \in Entry /\ proc[p] \in Entry /\ np # p
  BY <1>2, <1>3, OnStack DEF StackInv, Types
<1> DEFINE e == [proc[np] EXCEPT !.state = "RUNNABLE"]
           t == [proc[p] EXCEPT !.pc = "user"]
           f == [t EXCEPT !.np = Nobody]
<1>5. e \in Entry /\ e.state = "RUNNABLE" /\ e.pc = proc[np].pc /\ e.np = proc[np].np
  BY <1>4 DEF Entry
<1>6. t \in Entry /\ t.state = proc[p].state /\ t.pc = "user"
  BY <1>4 DEF Entry
<1>7. f \in Entry /\ f.state = proc[p].state /\ f.pc = "user"
  <2> HIDE DEF t
  <2> QED
    BY <1>6 DEF Entry, Nobody
<1>8. proc' = [proc EXCEPT ![np] = e, ![p] = f]
  BY <1>3, <1>4 DEF fork_run, StackInv, Types, Entry
<1> HIDE DEF e, f
<1>9. /\ proc' \in [Slots -> Entry] /\ proc'[np] = e /\ proc'[p] = f
      /\ \A q \in Slots \ {np, p} : proc'[q] = proc[q]
  BY <1>4, <1>5, <1>7, <1>8 DEF StackInv, Types
<1>10. Types'
  BY <1>1, <1>9 DEF StackInv, Types
<1>11. \A q \in Slots : Running(q)' <=> Running(q)
  BY <1>1 DEF Running
<1>12. ~Running(np)
  BY <1>3, OnStack
<1>13. StackInUse'
  <2>1. \A c, d \in CPUs : cpu'[c] = cpu'[d] /\ cpu'[c] # Nobody => c = d
    BY <1>1 DEF StackInv, StackInUse
  <2>2. \A c \in CPUs : cpu'[c] # Nobody => proc'[cpu'[c]].state \in {"RUNNING", "ZOMBIE"}
    <3> TAKE c \in CPUs
    <3> HAVE cpu'[c] # Nobody
    <3>1. cpu[c] \in Slots /\ cpu[c] # np
      BY <1>1, <1>12, ProcAssumption DEF StackInv, Types, Slots, Nobody, Running
    <3>2. proc[cpu[c]].state \in {"RUNNING", "ZOMBIE"}
      BY <1>1 DEF StackInv, StackInUse
    <3> QED
      BY <1>1, <1>7, <1>9, <3>1, <3>2
  <2>3. \A q \in Slots : proc'[q].state = "RUNNING" => Running(q)'
    BY <1>5, <1>7, <1>9, <1>11 DEF StackInv, StackInUse
  <2> QED
    BY <2>1, <2>2, <2>3 DEF StackInUse
<1>14. ZombieLocked'
  <2>1. proc[p].state = "RUNNING"
    BY <1>2, OnStack
  <2> QED
    BY <1>1, <1>5, <1>7, <1>9, <1>11, <2>1 DEF StackInv, ZombieLocked
<1>15. LastStep'
  BY <1>3, <1>5, <1>7, <1>9 DEF StackInv, LastStep
<1>16. ForkOwns'
  <2>1. \A q \in Slots : Forking(q)' => q # p /\ Forking(q) /\ proc'[q].np = proc[q].np
    BY <1>5, <1>7, <1>9 DEF Forking
  <2>2. \A q \in Slots \ {p} : Forking(q) => proc[q].np # np
    BY <1>2, <1>3 DEF StackInv, ForkOwns
  <2>3. \A q \in Slots \ {np} : proc[q].state = "USED" => proc'[q].state = "USED"
    BY <1>7, <1>9
  <2> QED
    BY <2>1, <2>2, <2>3 DEF StackInv, ForkOwns
<1> QED
  BY <1>10, <1>13, <1>14, <1>15, <1>16 DEF StackInv

-----------------------------------------------------------------------------
\* exit() gives its children to init.
LEMMA ReparentKeeps == ASSUME StackInv, NEW p \in Slots, exit_reparent(p) PROVE StackInv'
<1> DEFINE W == IF Children(p) = {} THEN proc ELSE wakeup(initproc)
           e(q) == IF proc[q].parent = p THEN [W[q] EXCEPT !.parent = initproc] ELSE W[q]
           R == [q \in Slots |-> e(q)]
<1>1. W \in [Slots -> Entry]
  BY Wakes DEF StackInv, Types
<1>2. \A q \in Slots : /\ W[q].pc = proc[q].pc /\ W[q].np = proc[q].np
                        /\ \/ W[q].state = proc[q].state
                           \/ proc[q].state = "SLEEPING" /\ W[q].state = "RUNNABLE"
  BY Wakes DEF StackInv
<1>3. cpu' = cpu /\ scan' = scan /\ nextpid' = nextpid /\ plock' = plock
  BY DEF exit_reparent
<1>4. proc' = [R EXCEPT ![p].pc = "exit_wake"] /\ proc[p].pc = "exit"
  BY DEF exit_reparent, reparent, At
<1> HIDE DEF W
<1>5. ASSUME NEW q \in Slots
      PROVE  e(q) \in Entry /\ e(q).pc = W[q].pc /\ e(q).np = W[q].np /\ e(q).state = W[q].state
  <2>1. W[q] \in Entry
    BY <1>1
  <2>2. CASE proc[q].parent = p
    <3>1. e(q) = [W[q] EXCEPT !.parent = 1]
      BY <2>2 DEF initproc
    <3> QED
      BY <2>1, <3>1 DEF Entry
  <2>3. CASE proc[q].parent # p
    BY <2>1, <2>3
  <2> QED
    BY <2>2, <2>3
<1> HIDE DEF e
<1> DEFINE f == [e(p) EXCEPT !.pc = "exit_wake"]
<1>6. f \in Entry /\ f.state = e(p).state /\ f.pc = "exit_wake"
  BY <1>5 DEF Entry
<1>7. R \in [Slots -> Entry] /\ \A q \in Slots : R[q] = e(q)
  BY <1>5
<1> HIDE DEF R
<1>8. proc' = [R EXCEPT ![p] = f]
  BY <1>4, <1>7 DEF Entry
<1> HIDE DEF f
<1>9. proc' \in [Slots -> Entry] /\ proc'[p] = f /\ \A q \in Slots \ {p} : proc'[q] = e(q)
  BY <1>6, <1>7, <1>8
<1>10. Types'
  BY <1>3, <1>9 DEF StackInv, Types
<1>11. ASSUME NEW q \in Slots
       PROVE  \/ proc'[q].state = proc[q].state
              \/ proc[q].state = "SLEEPING" /\ proc'[q].state = "RUNNABLE"
  BY <1>2, <1>5, <1>6, <1>9
<1>12. \A q \in Slots : proc'[q].pc = "exit_sched" <=> proc[q].pc = "exit_sched"
  BY <1>2, <1>4, <1>5, <1>6, <1>9
<1>13. \A q \in Slots : Forking(q)' => Forking(q) /\ proc'[q].np = proc[q].np
  BY <1>2, <1>5, <1>6, <1>9 DEF Forking
<1> QED
  BY <1>3, <1>10, <1>11, <1>12, <1>13, Calm

\* exit() wakes the parent and becomes a zombie that holds its own lock.
LEMMA ZombieKeeps == ASSUME StackInv, NEW p \in Slots, exit_zombie(p) PROVE StackInv'
<1> DEFINE W == WakeParent(p)
<1>1. W \in [Slots -> Entry]
  BY Wakes DEF WakeParent, StackInv
<1>2. \A q \in Slots : /\ W[q].pc = proc[q].pc /\ W[q].np = proc[q].np
                        /\ \/ W[q].state = proc[q].state
                           \/ proc[q].state = "SLEEPING" /\ W[q].state = "RUNNABLE"
  BY Wakes DEF WakeParent, StackInv
<1>3. cpu' = cpu /\ scan' = scan /\ nextpid' = nextpid /\ plock' = plock \cup {p}
  BY DEF exit_zombie
<1>4. Running(p) /\ proc[p].pc = "exit_wake"
  BY DEF exit_zombie, At
<1>5. proc' = [W EXCEPT ![p].state = "ZOMBIE", ![p].pc = "exit_sched"]
  BY DEF exit_zombie
<1> HIDE DEF W
<1> DEFINE r == [W[p] EXCEPT !.state = "ZOMBIE"]
           e == [r EXCEPT !.pc = "exit_sched"]
<1>6. r \in Entry /\ r.state = "ZOMBIE"
  <2>1. W[p] \in Entry
    BY <1>1
  <2> QED
    BY <2>1 DEF Entry
<1>7. e \in Entry /\ e.state = "ZOMBIE" /\ e.pc = "exit_sched"
  <2> HIDE DEF r
  <2> QED
    BY <1>6 DEF Entry
<1>8. proc' = [W EXCEPT ![p] = e]
  BY <1>1, <1>5 DEF Entry
<1> HIDE DEF e
<1>9. proc' \in [Slots -> Entry] /\ proc'[p] = e /\ \A q \in Slots \ {p} : proc'[q] = W[q]
  BY <1>1, <1>7, <1>8
<1>10. Types'
  BY <1>3, <1>9 DEF StackInv, Types
<1>11. \A q \in Slots : Running(q)' <=> Running(q)
  BY <1>3 DEF Running
<1>12. proc[p].state = "RUNNING"
  BY <1>4, OnStack
<1>13. StackInUse'
  <2>1. \A c, d \in CPUs : cpu'[c] = cpu'[d] /\ cpu'[c] # Nobody => c = d
    BY <1>3 DEF StackInv, StackInUse
  <2>2. \A c \in CPUs : cpu'[c] # Nobody => proc'[cpu'[c]].state \in {"RUNNING", "ZOMBIE"}
    <3> TAKE c \in CPUs
    <3> HAVE cpu'[c] # Nobody
    <3>1. cpu[c] \in Slots
      BY <1>3, ProcAssumption DEF StackInv, Types, Slots, Nobody
    <3>2. proc[cpu[c]].state \in {"RUNNING", "ZOMBIE"}
      BY <1>3 DEF StackInv, StackInUse
    <3> QED
      BY <1>2, <1>3, <1>7, <1>9, <3>1, <3>2
  <2>3. \A q \in Slots : proc'[q].state = "RUNNING" => Running(q)'
    BY <1>2, <1>7, <1>9, <1>11 DEF StackInv, StackInUse
  <2> QED
    BY <2>1, <2>2, <2>3 DEF StackInUse
<1>14. ZombieLocked'
  BY <1>2, <1>3, <1>7, <1>9, <1>11 DEF StackInv, ZombieLocked
<1>15. LastStep'
  BY <1>2, <1>7, <1>9 DEF StackInv, LastStep
<1>16. ForkOwns'
  <2>1. \A q \in Slots : Forking(q)' => Forking(q) /\ proc'[q].np = proc[q].np
    BY <1>2, <1>7, <1>9 DEF Forking
  <2>2. \A q \in Slots : proc[q].state = "USED" => proc'[q].state = "USED"
    BY <1>2, <1>9, <1>12
  <2> QED
    BY <2>1, <2>2 DEF StackInv, ForkOwns
<1> QED
  BY <1>10, <1>13, <1>14, <1>15, <1>16 DEF StackInv

\* wait() frees a zombie child that is off its stack.
LEMMA ReapKeeps ==
    ASSUME StackInv, NEW p \in Slots, NEW z \in Slots, proc[z].state = "ZOMBIE", ~Running(z),
           Running(p), proc[p].pc = "wait",
           proc' = [proc EXCEPT ![z] = Unused, ![p].pc = "user"],
           cpu' = cpu, scan' = scan, nextpid' = nextpid, plock' = plock
    PROVE  StackInv'
<1>1. z # p /\ proc[p] \in Entry
  BY DEF StackInv, Types
<1> DEFINE f == [proc[p] EXCEPT !.pc = "user"]
<1>2. Unused \in Entry /\ Unused.state = "UNUSED" /\ Unused.pc = "user"
  <2>1. Unused \in Entry
    BY DEF Unused, Entry, Flags, Nobody
  <2> QED
    BY <2>1 DEF Unused
<1>3. f \in Entry /\ f.state = proc[p].state /\ f.pc = "user"
  BY <1>1 DEF Entry
<1>4. proc' = [proc EXCEPT ![z] = Unused, ![p] = f]
  BY <1>1 DEF StackInv, Types, Entry
<1> HIDE DEF f
<1>5. /\ proc' \in [Slots -> Entry] /\ proc'[z] = Unused /\ proc'[p] = f
      /\ \A q \in Slots \ {z, p} : proc'[q] = proc[q]
  BY <1>1, <1>2, <1>3, <1>4 DEF StackInv, Types
<1>6. Types'
  BY <1>5 DEF StackInv, Types
<1>7. \A q \in Slots : Running(q)' <=> Running(q)
  BY DEF Running
<1>8. proc[p].state = "RUNNING"
  BY OnStack
<1>9. StackInUse'
  <2>1. \A c, d \in CPUs : cpu'[c] = cpu'[d] /\ cpu'[c] # Nobody => c = d
    BY DEF StackInv, StackInUse
  <2>2. \A c \in CPUs : cpu'[c] # Nobody => proc'[cpu'[c]].state \in {"RUNNING", "ZOMBIE"}
    <3> TAKE c \in CPUs
    <3> HAVE cpu'[c] # Nobody
    <3>1. cpu[c] \in Slots /\ cpu[c] # z
      BY ProcAssumption DEF StackInv, Types, Slots, Nobody, Running
    <3>2. proc[cpu[c]].state \in {"RUNNING", "ZOMBIE"}
      BY DEF StackInv, StackInUse
    <3> QED
      BY <1>3, <1>5, <3>1, <3>2
  <2>3. \A q \in Slots : proc'[q].state = "RUNNING" => Running(q)'
    BY <1>2, <1>3, <1>5, <1>7 DEF StackInv, StackInUse
  <2> QED
    BY <2>1, <2>2, <2>3 DEF StackInUse
<1>10. ZombieLocked'
  BY <1>2, <1>3, <1>5, <1>7, <1>8 DEF StackInv, ZombieLocked
<1>11. LastStep'
  BY <1>2, <1>3, <1>5 DEF StackInv, LastStep
<1>12. ForkOwns'
  <2>1. \A q \in Slots : Forking(q)' => Forking(q) /\ proc'[q].np = proc[q].np
    BY <1>2, <1>3, <1>5 DEF Forking
  <2>2. \A q \in Slots : proc[q].state = "USED" => proc'[q].state = "USED"
    BY <1>3, <1>5
  <2>3. \A q \in Slots : Forking(q)' => proc'[q].np \in Slots /\ proc'[proc'[q].np].state = "USED"
    <3> TAKE q \in Slots
    <3> HAVE Forking(q)'
    <3>1. proc'[q].np = proc[q].np /\ proc[q].np \in Slots /\ proc[proc[q].np].state = "USED"
      BY <2>1 DEF StackInv, ForkOwns
    <3> QED
      BY <2>2, <3>1
  <2>4. \A x, q \in Slots : Forking(x)' /\ Forking(q)' /\ proc'[x].np = proc'[q].np => x = q
    BY <2>1 DEF StackInv, ForkOwns
  <2> QED
    BY <2>3, <2>4 DEF ForkOwns
<1> QED
  BY <1>6, <1>9, <1>10, <1>11, <1>12 DEF StackInv

\* One turn of wait()'s loop.
LEMMA WaitKeeps == ASSUME StackInv, NEW p \in Slots, wait(p) PROVE StackInv'
<1> DEFINE zombies == {q \in Children(p) : proc[q].state = "ZOMBIE"}
<1>1. cpu' = cpu /\ scan' = scan /\ nextpid' = nextpid /\ plock' = plock
  BY Zenon DEF wait
<1>2. Running(p) /\ proc[p].pc = "wait" /\ Children(p) \cap plock = {}
  BY Zenon DEF wait, At, ChildrenUnlocked
<1>3. CASE \E to \in {"user", "wait_sleep"} : proc' = [proc EXCEPT ![p].pc = to]
  <2>1. nextpid' \in Int
    BY <1>1 DEF StackInv, Types
  <2> QED
    BY <1>1, <1>2, <1>3, <2>1, PlaceKeeps
<1>4. CASE /\ zombies # {}
           /\ proc' = [proc EXCEPT ![Min(zombies)] = freeproc(Min(zombies)), ![p].pc = "user"]
  <2>1. PICK z \in zombies : z = Min(zombies)
    <3>1. zombies \subseteq Nat
      BY DEF Children, Slots
    <3> QED
      BY <1>4, <3>1, MinIn
  <2>2. z \in Slots /\ proc[z].state = "ZOMBIE" /\ z \notin plock
    BY <1>2, <2>1 DEF Children
  <2>3. ~Running(z)
    BY <2>2 DEF StackInv, ZombieLocked
  <2>4. proc' = [proc EXCEPT ![z] = Unused, ![p].pc = "user"]
    BY <1>4, <2>1 DEF freeproc
  <2> QED
    BY <1>1, <1>2, <2>2, <2>3, <2>4, ReapKeeps
<1> QED
  <2>1. \/ zombies # {} /\ proc' = [proc EXCEPT ![Min(zombies)] = freeproc(Min(zombies)), ![p].pc = "user"]
        \/ proc' = [proc EXCEPT ![p].pc = "user"]
        \/ proc' = [proc EXCEPT ![p].pc = "wait_sleep"]
    BY Zenon DEF wait
  <2> QED
    BY <1>3, <1>4, <2>1

-----------------------------------------------------------------------------
\* Every step of the process table keeps the invariant.
LEMMA StackStep == StackInv /\ [ProcNext]_vars => StackInv'
<1> SUFFICES ASSUME StackInv, [ProcNext]_vars PROVE StackInv'
  OBVIOUS
<1>1. CASE UNCHANGED vars
  <2>1. Types'
    BY <1>1 DEF StackInv, Types, vars
  <2> QED
    BY <1>1, <2>1, Calm DEF vars, Forking
<1>2. ASSUME NEW c \in CPUs, scheduler(c) PROVE StackInv'
  BY <1>2, SchedulerKeeps
<1>3. ASSUME NEW p \in Slots, Kernel(p) PROVE StackInv'
  <2>1. CASE sleep1(p) \/ sleep2(p) \/ sys_sleep(p)
    BY <2>1, SleepLockKeeps, SleepKeeps, SysSleepKeeps
  <2>2. CASE fork_parent(p) \/ fork_run(p)
    BY <2>2, ForkParentKeeps, ForkRunKeeps
  <2>3. CASE exit_reparent(p) \/ exit_zombie(p) \/ exit_sched(p)
    BY <2>3, ReparentKeeps, ZombieKeeps, ExitSchedKeeps
  <2>4. CASE wait(p) \/ usertrap(p)
    BY <2>4, WaitKeeps, CallsKeep DEF usertrap
  <2> QED
    BY <1>3, <2>1, <2>2, <2>3, <2>4 DEF Kernel
<1>4. ASSUME NEW p \in Slots, User(p) PROVE StackInv'
  <2>1. CASE fork_alloc(p)
    BY <2>1, ForkAllocKeeps
  <2>2. CASE exit_call(p) \/ wait_call(p)
    BY <2>2, CallsKeep
  <2>3. ASSUME NEW pid \in KillPids, kill(p, pid) PROVE StackInv'
    BY <2>3, KillKeeps
  <2>4. CASE sys_sleep_call(p, 1)
    BY <2>4, SysSleepKeeps
  <2> QED
    BY <1>4, <2>1, <2>2, <2>3, <2>4 DEF User
<1>5. ASSUME NEW p \in Slots, yield(p) PROVE StackInv'
  BY <1>5, YieldKeeps
<1>6. CASE clockintr
  BY <1>6, ClockKeeps
<1> QED
  BY <1>1, <1>2, <1>3, <1>4, <1>5, <1>6 DEF ProcNext

\* For every number of processes and of CPUs: no two CPUs run the same process,
\* one on a CPU is RUNNING or a zombie on its way out, and a RUNNING one is on a
\* CPU; so freeproc() and allocproc() never take a kernel stack in use.
THEOREM ProcStackInUse == ProcSpec => []StackInUse
<1>1. StackInv => StackInUse
  BY DEF StackInv
<1> QED
  BY <1>1, StackInit, StackStep, PTL DEF ProcSpec
=============================================================================
