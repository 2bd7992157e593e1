-------------------------------- MODULE Pipe --------------------------------
(***************************************************************************)
(* Pipes (kernel/pipe.c) with the file references that keep them alive     *)
(* (kernel/file.c), sleep and wakeup on their two channels and kill        *)
(* (kernel/proc.c).  Processes fork, read, write, close, exit and are      *)
(* killed in every order.                                                  *)
(*                                                                         *)
(* What pi->lock protects is atomic to everyone but kill, which takes only *)
(* the victim's lock: so pipewrite, which tests killed for every byte,     *)
(* advances one byte per step with the lock held in between, piperead's    *)
(* copy loop, which does not, is one step, and falling asleep is a step    *)
(* after the test that decided it.  sleep takes p->lock before it releases *)
(* pi->lock, so no wakeup falls between those two.                         *)
(*                                                                         *)
(* Byte k of a pipe's stream (from 1) carries the value k.                 *)
(***************************************************************************)
EXTENDS Integers, Sequences, FiniteSets, FiniteSetsExt, SequencesExt

CONSTANTS Procs,
          PIPESIZE,
          WordMod,      \* 2^32: nread and nwrite are uint
          Lens,         \* the lengths programs read and write
          MaxCalls, MaxForks, MaxKills   \* bounds on what a behaviour does

ASSUME PipeAssumption ==
    /\ PIPESIZE \in Nat \ {0} /\ WordMod \in Nat /\ WordMod % PIPESIZE = 0
    /\ PIPESIZE < WordMod
    /\ Lens \subseteq Nat \ {0} /\ MaxCalls \in Nat /\ MaxForks \in Nat /\ MaxKills \in Nat
    /\ Procs # {} /\ "nobody" \notin Procs

Ends == {"r", "w"}

VARIABLES
    pi,      \* struct pipe, and whether its page is allocated
    lock,    \* the holder of pi->lock, or "nobody"
    ref,     \* the references of the pipe's two struct files
    proc,    \* per process: control, the ends its descriptors refer to,
             \*   killed, and of the call it is in: the operation, length,
             \*   progress, and how many bytes copyin/copyout can access
    hist,    \* history: bytes stored, the bytes readers got, those removed
             \*   that copyout failed to deliver, whether a read found the end of
             \*   the stream, whether a killed writer left bytes behind since
             \*   readers were last woken
    bound    \* reads and writes, forks and kills so far

vars == <<pi, lock, ref, proc, hist, bound>>

\* uint arithmetic.
Plus(a, b) == (a + b) % WordMod

Empty == pi.nread = pi.nwrite

\* Mutant: one byte too many.
LateFull == pi.nwrite = Plus(pi.nread, PIPESIZE + 1)

Full == pi.nwrite = Plus(pi.nread, PIPESIZE)

NoCall == [op |-> "none", n |-> 0, i |-> 0, room |-> 0]
NewProc(ends) == [pc |-> "user", ofile |-> ends, killed |-> FALSE, call |-> NoCall]

\* pipealloc has given the pipe to one process.
PipeInit ==
    /\ pi = [data |-> [a \in 0..(PIPESIZE - 1) |-> 0], nread |-> 0, nwrite |-> 0,
             readopen |-> TRUE, writeopen |-> TRUE, allocated |-> TRUE]
    /\ lock = "nobody"
    /\ ref = [e \in Ends |-> 1]
    /\ LET creator == CHOOSE p \in Procs : TRUE
       IN  proc = [p \in Procs |-> IF p = creator THEN NewProc(Ends) ELSE
                                   [NewProc({}) EXCEPT !.pc = "unused"]]
    /\ hist = [sent |-> 0, got |-> <<>>, undelivered |-> {}, eof |-> FALSE, cut |-> FALSE]
    /\ bound = [calls |-> 0, forks |-> 0, kills |-> 0]

\* Mutant: wakeup stops at the first process it finds.
WakeOne(chan) ==
    LET asleep == {q \in Procs : proc[q].pc = "sleeping" /\ proc[q].call.op = chan}
    IN  IF asleep = {} THEN proc
        ELSE [proc EXCEPT ![CHOOSE q \in asleep : TRUE].pc = "acquire"]

\* The processes after wakeup(chan), chan being the operation that sleeps on
\* it (a reader on nread, a writer on nwrite): runnable, and on their way to
\* take pi->lock again.
wakeup(chan) ==
    [q \in Procs |-> IF proc[q].pc = "sleeping" /\ proc[q].call.op = chan
                     THEN [proc[q] EXCEPT !.pc = "acquire"] ELSE proc[q]]

\* The second half of sleep: p->lock taken, pi->lock released, SLEEPING.
sleep(p) ==
    /\ proc[p].pc = "tosleep"
    /\ lock' = "nobody"
    /\ proc' = [proc EXCEPT ![p].pc = "sleeping"]
    /\ UNCHANGED <<pi, ref, hist, bound>>

\* The process holds pi->lock, or takes it now: on entry, or when sleep ends.
Locked(p) ==
    \/ lock = p /\ proc[p].pc = "locked"
    \/ lock = "nobody" /\ proc[p].pc = "acquire"

\* wakeup(chan) if there is a chan, release, return.
Return(p, chan) ==
    /\ lock' = "nobody"
    /\ proc' = [wakeup(chan) EXCEPT ![p].pc = "user", ![p].call = NoCall]

-----------------------------------------------------------------------------
(* System calls begin.  usertrap sends a killed process to exit instead.   *)

User(p) == proc[p].pc = "user" /\ ~proc[p].killed

\* The references after filedup of every file of a descriptor table.
filedup(ends) == [e \in Ends |-> IF e \in ends THEN ref[e] + 1 ELSE ref[e]]

Unused == {c \in Procs : proc[c].pc = "unused"}

\* allocproc takes the first unused process.
fork(p) ==
    /\ User(p) /\ Unused # {} /\ bound.forks < MaxForks
    /\ proc' = [proc EXCEPT ![CHOOSE c \in Unused : TRUE] = NewProc(proc[p].ofile)]
    /\ ref' = filedup(proc[p].ofile)
    /\ bound' = [bound EXCEPT !.forks = @ + 1]
    /\ UNCHANGED <<pi, lock, hist>>

\* read or write of n bytes of which the first room are accessible.
call(p, op, n, room) ==
    /\ User(p) /\ bound.calls < MaxCalls
    /\ (IF op = "read" THEN "r" ELSE "w") \in proc[p].ofile
    /\ proc' = [proc EXCEPT ![p].pc = "acquire",
                    ![p].call = [op |-> op, n |-> n, i |-> 0, room |-> room]]
    /\ bound' = [bound EXCEPT !.calls = @ + 1]
    /\ UNCHANGED <<pi, lock, ref, hist>>

-----------------------------------------------------------------------------
(* pipewrite and piperead *)

pipewrite(p) ==
    LET c == proc[p].call IN
    /\ Locked(p) /\ c.op = "write"
    /\ \/ /\ c.i < c.n /\ (~pi.readopen \/ proc[p].killed)       \* -1
          /\ Return(p, "none")
          /\ hist' = [hist EXCEPT !.cut = @ \/ c.i > 0]
          /\ UNCHANGED pi
       \/ /\ c.i < c.n /\ pi.readopen /\ ~proc[p].killed /\ Full
          /\ proc' = [wakeup("read") EXCEPT ![p].pc = "tosleep"]
          /\ lock' = p
          /\ hist' = [hist EXCEPT !.cut = FALSE]
          /\ UNCHANGED pi
       \/ /\ c.i < c.n /\ pi.readopen /\ ~proc[p].killed /\ ~Full
          /\ c.i < c.room
          /\ pi' = [pi EXCEPT !.data[pi.nwrite % PIPESIZE] = hist.sent + 1,
                              !.nwrite = Plus(@, 1)]
          /\ hist' = [hist EXCEPT !.sent = @ + 1]
          /\ proc' = [proc EXCEPT ![p].pc = "locked", ![p].call.i = @ + 1]
          /\ lock' = p
       \/ /\ \/ c.i = c.n
             \/ c.i >= c.room /\ pi.readopen /\ ~proc[p].killed /\ ~Full
          /\ Return(p, "read")
          /\ hist' = [hist EXCEPT !.cut = FALSE]
          /\ UNCHANGED pi
    /\ UNCHANGED <<ref, bound>>

\* The bytes piperead removes: the one whose copyout fails is removed too.
PipereadCount(c) ==
    LET avail == (pi.nwrite - pi.nread) % WordMod
        want == IF c.room < c.n THEN c.room + 1 ELSE c.n
    IN  IF want < avail THEN want ELSE avail

\* The condition under which a reader waits.
MustWait == Empty /\ pi.writeopen

piperead(p) ==
    /\ Locked(p) /\ proc[p].call.op = "read"
    /\ \/ /\ MustWait /\ proc[p].killed                           \* -1
          /\ Return(p, "none")
          /\ UNCHANGED <<pi, hist>>
       \/ /\ MustWait /\ ~proc[p].killed
          /\ proc' = [proc EXCEPT ![p].pc = "tosleep"]
          /\ lock' = p
          /\ UNCHANGED <<pi, hist>>
       \/ LET k == PipereadCount(proc[p].call)
              i == Min({k, proc[p].call.room})    \* what piperead returns
              bytes == [j \in 1..k |-> pi.data[(pi.nread + j - 1) % PIPESIZE]]
          IN  /\ ~MustWait
              /\ pi' = [pi EXCEPT !.nread = Plus(@, k)]
              /\ hist' = [hist EXCEPT !.got = @ \o SubSeq(bytes, 1, i),
                                      !.undelivered = @ \cup {bytes[j] : j \in (i + 1)..k},
                                      !.eof = @ \/ k = 0]
              /\ Return(p, "write")
    /\ UNCHANGED <<ref, bound>>

-----------------------------------------------------------------------------
(* close, exit and kill *)

\* fileclose, by close or, in the order of the descriptors, by exit: the last
\* reference goes on to pipeclose.
fileclose(p, e) ==
    /\ User(p) \/ proc[p].pc = "exiting"
    /\ e \in proc[p].ofile
    /\ proc[p].pc = "exiting" /\ e = "w" => "r" \notin proc[p].ofile
    /\ ref' = [ref EXCEPT ![e] = @ - 1]
    /\ proc' = [proc EXCEPT
           ![p].ofile = @ \ {e},
           ![p].pc = IF ref[e] > 1 THEN @
                     ELSE IF @ = "user" THEN "pipeclose" ELSE "exitclose",
           ![p].call.op = IF ref[e] > 1 THEN @ ELSE e]
    /\ UNCHANGED <<pi, lock, hist, bound>>

\* Mutant: the page goes with the first end.
FreedEarly(readopen, writeopen) == ~readopen \/ ~writeopen

\* The page is freed with the second end.
Freed(readopen, writeopen) == ~readopen /\ ~writeopen

\* Mutant: the closing side's own channel.
OwnChannel(e) == IF e = "w" THEN "write" ELSE "read"

\* The operations to wake when an end closes.
Waiters(e) == IF e = "w" THEN "read" ELSE "write"

pipeclose(p) ==
    /\ proc[p].pc \in {"pipeclose", "exitclose"} /\ lock = "nobody"
    /\ LET readopen  == pi.readopen /\ proc[p].call.op # "r"
           writeopen == pi.writeopen /\ proc[p].call.op # "w"
       IN  pi' = [pi EXCEPT !.readopen = readopen, !.writeopen = writeopen,
                            !.allocated = ~Freed(readopen, writeopen)]
    /\ proc' = [wakeup(Waiters(proc[p].call.op)) EXCEPT
                    ![p].pc = IF @ = "pipeclose" THEN "user" ELSE "exiting",
                    ![p].call = NoCall]
    /\ hist' = [hist EXCEPT !.cut = @ /\ proc[p].call.op # "w"]
    /\ UNCHANGED <<lock, ref, bound>>

\* exit, by the program's choice or because it was killed.
exit(p) ==
    /\ proc[p].pc = "user"
    /\ proc' = [proc EXCEPT ![p].pc = "exiting"]
    /\ UNCHANGED <<pi, lock, ref, hist, bound>>

kill(p) ==
    /\ proc[p].pc # "unused" /\ bound.kills < MaxKills
    /\ bound' = [bound EXCEPT !.kills = @ + 1]
    /\ proc' = [proc EXCEPT ![p].killed = TRUE,
                            ![p].pc = IF @ = "sleeping" THEN "acquire" ELSE @]
    /\ UNCHANGED <<pi, lock, ref, hist>>

-----------------------------------------------------------------------------
\* The steps of a process inside the kernel.
Kernel(p) ==
    sleep(p) \/ pipeclose(p) \/ pipewrite(p) \/ piperead(p)

PipeNext ==
    \E p \in Procs :
        \/ Kernel(p)
        \/ exit(p) \/ kill(p) \/ fork(p)
        \/ \E op \in {"read", "write"}, n \in Lens :
               \E room \in {1, n} : call(p, op, n, room)
        \/ \E e \in Ends : fileclose(p, e)

\* The scheduler runs every runnable process again and again and no holder of
\* pi->lock sleeps; what programs do in user mode is up to them.
PipeSpec == /\ PipeInit /\ [][PipeNext]_vars
            /\ \A p \in Procs : WF_vars(Kernel(p))

-----------------------------------------------------------------------------
(* Properties *)

Calls == [op : {"none", "read", "write", "r", "w"}, n : Nat, i : Nat, room : Nat]

\* Types, the counters in their uint range, and the lock held by the process
\* that is between acquire and release.
TypeOK ==
    /\ pi \in [data : [0..(PIPESIZE - 1) -> Nat], nread : 0..(WordMod - 1),
               nwrite : 0..(WordMod - 1), readopen : BOOLEAN,
               writeopen : BOOLEAN, allocated : BOOLEAN]
    /\ ref \in [Ends -> 0..Cardinality(Procs)]
    /\ proc \in [Procs -> [pc : {"unused", "user", "acquire", "locked", "tosleep",
                                 "sleeping", "pipeclose", "exitclose",
                                 "exiting"},
                           ofile : SUBSET Ends, killed : BOOLEAN, call : Calls]]
    /\ \A p \in Procs : proc[p].call.i <= proc[p].call.n
    /\ \A p \in Procs : proc[p].pc \in {"locked", "tosleep"} <=> lock = p

\* nread and nwrite wrap around at 2^32, yet bytes come out in the order they
\* went in, none twice, and at most PIPESIZE are buffered.  None is lost but
\* the one at which a reader's copyout fails, which piperead has removed.  A
\* read finds the end of the stream only when every byte was removed and no
\* writer is left.
InOrder ==
    LET k == Len(hist.got) + Cardinality(hist.undelivered) IN
    /\ k <= hist.sent /\ hist.sent <= k + PIPESIZE
    /\ hist.got = SelectSeq([j \in 1..k |-> j], LAMBDA j : j \notin hist.undelivered)
    /\ pi.allocated => \A j \in (k + 1)..hist.sent :
                           pi.data[(pi.nread + j - k - 1) % PIPESIZE] = j
    /\ hist.eof => k = hist.sent /\ ~pi.writeopen

\* No wakeup is lost: when nobody holds the lock, no reader sleeps on a pipe
\* that has bytes or no writer, and no writer on one that has room or no
\* reader.  The one exception is a writer killed in the middle of a call,
\* which returns -1 without waking the readers of the bytes it stored.
NoLostWakeup ==
    lock = "nobody" => \A p \in Procs : proc[p].pc = "sleeping" =>
        IF proc[p].call.op = "read" THEN pi.writeopen /\ (Empty \/ hist.cut)
        ELSE Full /\ pi.readopen

\* The files' counts are the descriptors, over all processes, and the last
\* close of an end is the only one that reaches pipeclose.
RefsExact ==
    \A e \in Ends :
        /\ ref[e] = Cardinality({p \in Procs : e \in proc[p].ofile})
        /\ ref[e] > 0 => (IF e = "r" THEN pi.readopen ELSE pi.writeopen)
        /\ Cardinality({p \in Procs : proc[p].call.op = e}) <= 1

\* kfree in pipeclose never takes the page from under a process that is in a
\* pipe operation, asleep or not.
NoUseAfterFree ==
    \A p \in Procs : proc[p].call # NoCall => pi.allocated

\* Once the last writer has closed, every reader returns; once the last
\* reader has closed, every writer does: pipeclose's wakeup reaches them all.
Returns ==
    \A p \in Procs :
        (\/ proc[p].call.op = "read" /\ ~pi.writeopen
         \/ proc[p].call.op = "write" /\ ~pi.readopen) ~> (proc[p].pc \in {"user", "exiting"})
=============================================================================
