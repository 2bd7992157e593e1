------------------------------ MODULE Console ------------------------------
(***************************************************************************)
(* The console: line editing (kernel/console.c) over the UART driver       *)
(* (kernel/uart.c), with spinlocks as kernel/spinlock.c builds them from   *)
(* an atomic swap and the interrupt-enable bit, and the interrupt path     *)
(* (kernel/trap.c, kernel/plic.c).                                         *)
(*                                                                         *)
(* Each hart runs a process, which its interrupt handler preempts when     *)
(* interrupts are enabled: a writer on one hart, a reader on another.      *)
(* sleep and wakeup take the sleeper's p->lock inside the lock they are    *)
(* called with; the rest of them is module Proc's.  The UART is external:  *)
(* a FIFO each way, an interrupt when a character arrives and when the     *)
(* last one is sent; a character written to a full FIFO is lost.           *)
(***************************************************************************)
EXTENDS Integers, Sequences, FiniteSets, SequencesExt

CONSTANTS Inputs,            \* the sequences a user may type
          Lines,             \* characters the writer writes
          INPUT_BUF_SIZE, UART_TX_BUF_SIZE, FIFO_DEPTH,
          ReadSize           \* the n of the reader's read()

ASSUME ConsoleAssumption ==
    /\ INPUT_BUF_SIZE \in Nat \ {0} /\ UART_TX_BUF_SIZE \in Nat \ {0}
    /\ FIFO_DEPTH \in Nat \ {0} /\ ReadSize \in Nat \ {0} /\ Lines \in Nat

Harts == {1, 2}
Writer == 1    \* actors: the process on each hart,
Reader == 2
Handler(h) == h + 2    \* and the handler of each hart
Handlers == {3, 4}
Actors == {Writer, Reader} \cup Handlers
HartOf(a) == IF a > 2 THEN a - 2 ELSE a

LockNames == {"cons", "tx", "writer", "reader"}    \* the last two: the p->locks

UintMod == 4 * INPUT_BUF_SIZE    \* cons.r, w, e are uint; 2^32 in the code

VARIABLES
    pc,       \* control of every actor
    lock,     \* the hart that holds the lock, or 0
    ie, noff, intena,        \* of every hart
    cons,     \* buf, r, w, e
    tx,       \* buf, w, r, and whether the writer sleeps on it
    fifo,     \* the UART's transmitter: echoes are 0, the writer's bytes 1, 2, ...
    rx,       \* the UART's receiver
    typing,   \* what the user will still type
    irq,      \* the PLIC: pending, and the hart that serves the UART, or 0
    char,     \* the character the handler has, the echoes and the wakeup it still owes
    rd,       \* the reader's call: n left, what it has, asleep, killed
    shown,    \* bytes of the writer that left the machine
    panicked

vars == <<pc, lock, ie, noff, intena, cons, tx, fifo, rx, typing, irq, char, rd,
          shown, panicked>>
locks == <<lock, ie, noff, intena>>

NoChar == [c |-> "", echoes |-> 0, wake |-> FALSE]

ConsoleInit ==
    /\ pc = [a \in Actors |-> IF a \in Handlers THEN "off" ELSE "idle"]
    /\ lock = [l \in LockNames |-> 0]
    /\ ie = [h \in Harts |-> TRUE] /\ noff = [h \in Harts |-> 0]
    /\ intena = [h \in Harts |-> FALSE]
    /\ cons = [buf |-> [i \in 0..(INPUT_BUF_SIZE - 1) |-> ""], r |-> 0, w |-> 0, e |-> 0]
    /\ tx = [buf |-> [i \in 0..(UART_TX_BUF_SIZE - 1) |-> 0], w |-> 0, r |-> 0, asleep |-> FALSE]
    /\ fifo = <<>> /\ rx = <<>> /\ typing \in Inputs
    /\ irq = [pending |-> FALSE, claimed |-> 0]
    /\ char = NoChar
    /\ rd = [n |-> 0, got |-> <<>>, asleep |-> FALSE, killed |-> FALSE]
    /\ shown = 0 /\ panicked = FALSE

\* A process runs while the handler of its hart does not.
At(a, where) ==
    /\ ~panicked /\ pc[a] = where
    /\ a \notin Handlers => pc[Handler(a)] = "off"
Goto(a, where) == pc' = [pc EXCEPT ![a] = where]

-----------------------------------------------------------------------------
(* kernel/spinlock.c *)

push_off(h) ==
    /\ ie' = [ie EXCEPT ![h] = FALSE]
    /\ intena' = [intena EXCEPT ![h] = IF noff[h] = 0 THEN ie[h] ELSE @]
    /\ noff' = [noff EXCEPT ![h] = @ + 1]

\* (mutant) The inner of two pop_offs turns interrupts on already.
UnNested(h) == intena[h]

\* Whether pop_off turns interrupts on.
TurnsOn(h) == noff[h] = 1 /\ intena[h]

\* pop_off, with its two checks.
pop_off(h) ==
    /\ noff' = [noff EXCEPT ![h] = @ - 1]
    /\ ie' = [ie EXCEPT ![h] = TurnsOn(h)]
    /\ UNCHANGED intena
PopPanics(h) == ie[h] \/ noff[h] < 1

\* A process turns interrupts off, then swaps until the lock is its own.
acquire_off(a, from, to) ==
    /\ At(a, from)
    /\ push_off(HartOf(a))
    /\ Goto(a, to)
    /\ UNCHANGED <<lock, panicked>>

acquire_swap(a, l, from, to) ==
    /\ At(a, from)
    /\ lock[l] \in {0, HartOf(a)}
    /\ lock' = [lock EXCEPT ![l] = HartOf(a)]
    /\ panicked' = (lock[l] = HartOf(a))
    /\ Goto(a, to)
    /\ UNCHANGED <<ie, noff, intena>>

\* Where interrupts are off already, in a handler or under another lock: one step.
acquire_nested(a, l, from, to) ==
    /\ At(a, from)
    /\ lock[l] \in {0, HartOf(a)}
    /\ lock' = [lock EXCEPT ![l] = HartOf(a)]
    /\ panicked' = (lock[l] = HartOf(a))
    /\ push_off(HartOf(a))
    /\ Goto(a, to)

release(a, l, to) ==
    /\ lock' = [lock EXCEPT ![l] = 0]
    /\ panicked' = (lock[l] # HartOf(a) \/ PopPanics(HartOf(a)))
    /\ pop_off(HartOf(a))
    /\ Goto(a, to)

-----------------------------------------------------------------------------
(* kernel/uart.c *)

\* Whether myproc() of the hart that a runs on is p, which wakeup passes over: p is on
\* its hart unless it sleeps.
IsMyproc(a, p) ==
    HartOf(a) = p /\ ~(IF p = Writer THEN tx.asleep ELSE rd.asleep)

TxIdle == fifo = <<>>          \* LSR_TX_IDLE
WriteTHR(c) == fifo' = IF Len(fifo) < FIFO_DEPTH THEN Append(fifo, c) ELSE fifo

\* The loop of uartstart: look at the buffer and at LSR, then send.
uartstart_look(a, from, to, done) ==
    /\ At(a, from)
    /\ Goto(a, IF tx.w = tx.r \/ ~TxIdle THEN done ELSE to)
    /\ UNCHANGED <<locks, cons, tx, fifo, rx, typing, irq, char, rd, shown, panicked>>

\* (mutant) The writer is not told of the space.
SendSilently == [tx EXCEPT !.r = @ + 1]

\* uart_tx_r += 1 and wakeup(&uart_tx_r).
Sent == [tx EXCEPT !.r = @ + 1, !.asleep = FALSE]

\* Send a byte; in wakeup the lock of the one process that sleeps on &uart_tx_r (those
\* of the others are taken and released to no effect).
uartstart_send(a, from, to) ==
    \/ /\ At(a, from) /\ IsMyproc(a, Writer)
       /\ WriteTHR(tx.buf[tx.r % UART_TX_BUF_SIZE])
       /\ tx' = Sent
       /\ Goto(a, to)
       /\ UNCHANGED <<locks, cons, rx, typing, irq, char, rd, shown, panicked>>
    \/ /\ ~IsMyproc(a, Writer)
       /\ acquire_nested(a, "writer", from, "waking")
       /\ UNCHANGED <<cons, tx, fifo, rx, typing, irq, char, rd, shown>>
    \/ /\ At(a, "waking")
       /\ WriteTHR(tx.buf[tx.r % UART_TX_BUF_SIZE])
       /\ tx' = Sent
       /\ release(a, "writer", to)
       /\ UNCHANGED <<cons, rx, typing, irq, char, rd, shown>>

\* (mutant) One byte more than the buffer holds.
OverFull == tx.w = tx.r + UART_TX_BUF_SIZE + 1

TxFull == tx.w = tx.r + UART_TX_BUF_SIZE

\* uartputc, once it was called: acquire, wait for space, store.  sleep takes
\* p->lock, gives up uart_tx_lock and leaves p->lock to the scheduler, which releases it.
uartputc ==
    \/ /\ acquire_swap(Writer, "tx", "spin", "put")
       /\ UNCHANGED <<cons, tx, fifo, rx, typing, irq, char, rd, shown>>
    \/ /\ TxFull
       /\ acquire_nested(Writer, "writer", "put", "tx_sleep")
       /\ UNCHANGED <<cons, tx, fifo, rx, typing, irq, char, rd, shown>>
    \/ /\ At(Writer, "tx_sleep")
       /\ release(Writer, "tx", "tx_sched")
       /\ tx' = [tx EXCEPT !.asleep = TRUE]
       /\ UNCHANGED <<cons, fifo, rx, typing, irq, char, rd, shown>>
    \/ /\ At(Writer, "tx_sched")
       /\ release(Writer, "writer", "idle")
       /\ UNCHANGED <<cons, tx, fifo, rx, typing, irq, char, rd, shown>>
    \/ /\ At(Writer, "put") /\ ~TxFull
       /\ tx' = [tx EXCEPT !.buf[tx.w % UART_TX_BUF_SIZE] = tx.w + 1, !.w = @ + 1]
       /\ Goto(Writer, IF TxIdle THEN "send" ELSE "started")
       /\ UNCHANGED <<locks, cons, fifo, rx, typing, irq, char, rd, shown, panicked>>
    \/ uartstart_look(Writer, "start", "send", "started")
    \/ uartstart_send(Writer, "send", "start")
    \/ /\ At(Writer, "started")
       /\ release(Writer, "tx", "idle")
       /\ UNCHANGED <<cons, tx, fifo, rx, typing, irq, char, rd, shown>>

-----------------------------------------------------------------------------
(* kernel/console.c *)

\* The loop of write(): the next byte to uartputc, which also takes it up
\* again after it slept for space.
consolewrite ==
    \/ /\ tx.w < Lines /\ ~tx.asleep
       /\ acquire_off(Writer, "idle", "spin")
       /\ UNCHANGED <<cons, tx, fifo, rx, typing, irq, char, rd, shown>>
    \/ uartputc

Uint(n) == n % UintMod
Count(from, to) == Uint(to - from)

\* What ends a read() that took c.
EndsRead(c) == c = "\n" \/ rd.n = 1

\* consoleread finds nothing: killed() takes and releases p->lock, sleep takes it again.
consoleread_wait ==
    /\ \/ /\ rd.n > 0 /\ cons.r = cons.w
          /\ acquire_nested(Reader, "reader", "read", "killed")
          /\ UNCHANGED rd
       \/ /\ At(Reader, "killed")
          /\ release(Reader, "reader", IF rd.killed THEN "leave" ELSE "wait")
          /\ UNCHANGED rd
       \/ /\ At(Reader, "leave")
          /\ release(Reader, "cons", "exit")
          /\ UNCHANGED rd
       \/ /\ acquire_nested(Reader, "reader", "wait", "cons_sleep")
          /\ UNCHANGED rd
       \/ /\ At(Reader, "cons_sleep")
          /\ release(Reader, "cons", "cons_sched")
          /\ rd' = [rd EXCEPT !.asleep = TRUE]
       \/ /\ At(Reader, "cons_sched")
          /\ release(Reader, "reader", "sleep")
          /\ UNCHANGED rd
    /\ UNCHANGED <<cons, tx, fifo, rx, typing, irq, char, shown>>

\* One turn of consoleread's loop, with cons.lock; target is ReadSize.
consoleread_turn ==
    LET c == cons.buf[cons.r % INPUT_BUF_SIZE]
        taken == [cons EXCEPT !.r = Uint(@ + 1)]
    IN  /\ At(Reader, "read") /\ rd.n > 0 /\ cons.r # cons.w
        /\ \/ \* ^D: for the next read() when this one has something
              /\ c = "^D"
              /\ cons' = IF rd.n < ReadSize THEN cons ELSE taken
              /\ release(Reader, "cons", "return")
              /\ UNCHANGED rd
           \/ /\ c # "^D"
              /\ cons' = taken
              /\ rd' = [rd EXCEPT !.n = @ - 1, !.got = Append(@, c)]
              /\ IF EndsRead(c)
                 THEN release(Reader, "cons", "return")
                 ELSE Goto(Reader, "read") /\ UNCHANGED <<locks, panicked>>
        /\ UNCHANGED <<tx, fifo, rx, typing, irq, char, shown>>

\* read() by the reader, again and again.
consoleread ==
    \/ /\ At(Reader, "idle") /\ ~rd.killed
       /\ acquire_off(Reader, "idle", "spin")
       /\ rd' = [rd EXCEPT !.n = ReadSize, !.got = <<>>]
       /\ UNCHANGED <<cons, tx, fifo, rx, typing, irq, char, shown>>
    \/ /\ acquire_swap(Reader, "cons", "spin", "read")
       /\ UNCHANGED <<cons, tx, fifo, rx, typing, irq, char, rd, shown>>
    \/ consoleread_wait \/ consoleread_turn
    \/ /\ At(Reader, "sleep") /\ ~rd.asleep
       /\ acquire_off(Reader, "sleep", "spin")
       /\ UNCHANGED <<cons, tx, fifo, rx, typing, irq, char, rd, shown>>
    \/ /\ At(Reader, "return")
       /\ Goto(Reader, "idle")
       /\ rd' = [rd EXCEPT !.n = 0, !.got = <<>>]
       /\ UNCHANGED <<locks, cons, tx, fifo, rx, typing, irq, char, shown, panicked>>

\* kill() of the reader under its p->lock by a process on a third hart, once the rest
\* is over; it only marks a process that is not asleep.
kill ==
    /\ ~panicked /\ lock["reader"] = 0 /\ ~rd.killed /\ typing = <<>> /\ rx = <<>> /\ shown = Lines
    /\ rd' = [rd EXCEPT !.killed = TRUE, !.asleep = FALSE]
    /\ UNCHANGED <<pc, locks, cons, tx, fifo, rx, typing, irq, char, shown, panicked>>

\* cons.e - cons.r < INPUT_BUF_SIZE.
Room == Count(cons.r, cons.e) < INPUT_BUF_SIZE

\* (mutant) A full buffer is not handed over.
EndsByKeyOnly(c, e) == c \in {"\n", "^D"}

\* The characters that make what was typed ready.
EndsLine(c, e) == c \in {"\n", "^D"} \/ Count(cons.r, e) = INPUT_BUF_SIZE

\* The switch of consoleintr: what becomes of the buffer, and the echoes.
edit(c) ==
    LET stored == IF c = "\r" THEN "\n" ELSE c
        e1 == Uint(cons.e + 1)
    IN  CASE c = "^U" -> [cons |-> [cons EXCEPT !.e = cons.w], echoes |-> Count(cons.w, cons.e)]
          [] c = "^H" /\ cons.e # cons.w -> [cons |-> [cons EXCEPT !.e = Uint(@ - 1)], echoes |-> 1]
          [] c \notin {"^U", "^H"} /\ Room ->
                 [cons |-> [cons EXCEPT !.buf[cons.e % INPUT_BUF_SIZE] = stored, !.e = e1,
                                        !.w = IF EndsLine(stored, e1) THEN e1 ELSE @],
                  echoes |-> 1]
          [] OTHER -> [cons |-> cons, echoes |-> 0]

-----------------------------------------------------------------------------
(* The interrupt path *)

\* The controller gives an interrupt to the hart that asks for it first, and gives no
\* other until that hart is done.
plic_claim(h) == irq' = [pending |-> FALSE, claimed |-> h]
plic_complete == irq' = [irq EXCEPT !.claimed = 0]

\* The trap into the handler.
trap(h) ==
    /\ ~panicked /\ ie[h] /\ irq.pending /\ irq.claimed = 0
    /\ pc[Handler(h)] = "off"
    /\ ie' = [ie EXCEPT ![h] = FALSE]
    /\ plic_claim(h)
    /\ Goto(Handler(h), "getc")
    /\ UNCHANGED <<lock, noff, intena, cons, tx, fifo, rx, typing, char, rd, shown, panicked>>

\* uartgetc: a character, when there is one.
uartgetc(a) ==
    /\ At(a, "getc") /\ rx # <<>>
    /\ char' = [NoChar EXCEPT !.c = Head(rx)] /\ rx' = Tail(rx)
    /\ Goto(a, "cons")
    /\ UNCHANGED <<locks, cons, tx, fifo, typing, irq, rd, shown, panicked>>

\* uartputc_sync: push_off, wait for the transmitter, write, pop_off.
uartputc_sync(a) ==
    \/ /\ At(a, "echo") /\ char.echoes > 0
       /\ push_off(HartOf(a))
       /\ Goto(a, "echo_wait")
       /\ UNCHANGED <<lock, cons, tx, fifo, rx, typing, irq, char, rd, shown, panicked>>
    \/ /\ At(a, "echo_wait") /\ TxIdle
       /\ Goto(a, "echo_write")
       /\ UNCHANGED <<locks, cons, tx, fifo, rx, typing, irq, char, rd, shown, panicked>>
    \/ /\ At(a, "echo_write")
       /\ WriteTHR(0)
       /\ char' = [char EXCEPT !.echoes = @ - 1]
       /\ panicked' = PopPanics(HartOf(a))
       /\ pop_off(HartOf(a))
       /\ Goto(a, "echo")
       /\ UNCHANGED <<lock, cons, tx, rx, typing, irq, rd, shown>>

\* consoleintr: the buffer, then the echoes, then wakeup(&cons.r); in the code each echo
\* comes before its change of the buffer, but cons.lock is held throughout.
consoleintr(a) ==
    LET wakes == char.wake /\ ~IsMyproc(a, Reader)
    IN  \/ /\ acquire_nested(a, "cons", "cons", "echo")
           /\ cons' = edit(char.c).cons
           /\ char' = [char EXCEPT !.echoes = edit(char.c).echoes, !.wake = cons'.w # cons.w]
           /\ UNCHANGED <<tx, fifo, rx, typing, irq, rd, shown>>
        \/ uartputc_sync(a)
        \/ /\ char.echoes = 0 /\ wakes
           /\ acquire_nested(a, "reader", "echo", "wake")
           /\ UNCHANGED <<cons, tx, fifo, rx, typing, irq, char, rd, shown>>
        \/ /\ At(a, "wake")
           /\ rd' = [rd EXCEPT !.asleep = FALSE]
           /\ char' = [char EXCEPT !.wake = FALSE]
           /\ release(a, "reader", "echo")
           /\ UNCHANGED <<cons, tx, fifo, rx, typing, irq, shown>>
        \/ /\ At(a, "echo") /\ char.echoes = 0 /\ ~wakes
           /\ release(a, "cons", "getc")
           /\ char' = NoChar
           /\ UNCHANGED <<cons, tx, fifo, rx, typing, irq, rd, shown>>

\* uartintr: every character to consoleintr, then uartstart.
uartintr(h) ==
    LET a == Handler(h)
    IN  \/ uartgetc(a)
        \/ consoleintr(a)
        \/ /\ rx = <<>>
           /\ acquire_nested(a, "tx", "getc", "start")
           /\ UNCHANGED <<cons, tx, fifo, rx, typing, irq, char, rd, shown>>
        \/ uartstart_look(a, "start", "send", "started")
        \/ uartstart_send(a, "send", "start")
        \/ /\ At(a, "started")
           /\ release(a, "tx", "complete")
           /\ UNCHANGED <<cons, tx, fifo, rx, typing, irq, char, rd, shown>>

\* The end of the handler and the return, which restores the interrupt-enable bit.
complete(h) ==
    /\ At(Handler(h), "complete")
    /\ plic_complete
    /\ ie' = [ie EXCEPT ![h] = TRUE]
    /\ Goto(Handler(h), "off")
    /\ UNCHANGED <<lock, noff, intena, cons, tx, fifo, rx, typing, char, rd, shown, panicked>>

\* The UART: the user types, the transmitter sends.
UartReceives ==
    /\ ~panicked /\ typing # <<>>
    /\ rx' = Append(rx, Head(typing)) /\ typing' = Tail(typing)
    /\ irq' = [irq EXCEPT !.pending = TRUE]
    /\ UNCHANGED <<pc, locks, cons, tx, fifo, char, rd, shown, panicked>>

UartSends ==
    /\ ~panicked /\ fifo # <<>>
    /\ fifo' = Tail(fifo)
    /\ shown' = IF Head(fifo) > shown THEN Head(fifo) ELSE shown
    /\ irq' = [irq EXCEPT !.pending = @ \/ Len(fifo) = 1]
    /\ UNCHANGED <<pc, locks, cons, tx, rx, typing, char, rd, panicked>>

Kernel == consolewrite \/ consoleread \/ \E h \in Harts : trap(h) \/ uartintr(h) \/ complete(h)

ConsoleNext == Kernel \/ kill \/ UartReceives \/ UartSends

\* Both harts run, and so does the UART.
ConsoleSpec ==
    /\ ConsoleInit /\ [][ConsoleNext]_vars
    /\ WF_vars(consolewrite) /\ WF_vars(consoleread)
    /\ \A h \in Harts : WF_vars(uartintr(h) \/ complete(h))
    /\ WF_vars(\E h \in Harts : trap(h))
    /\ WF_vars(UartReceives) /\ WF_vars(UartSends)

-----------------------------------------------------------------------------
(* Properties *)

\* Types.
TypeOK ==
    /\ lock \in [LockNames -> 0..2]
    /\ noff \in [Harts -> 0..2]
    /\ {cons.r, cons.w, cons.e} \subseteq 0..(UintMod - 1)
    /\ Count(cons.r, cons.e) <= INPUT_BUF_SIZE
    /\ Len(fifo) <= FIFO_DEPTH /\ tx.w \in 0..Lines /\ tx.r \in 0..tx.w
    /\ rd.n \in 0..ReadSize /\ Len(rd.got) <= ReadSize

\* A hart that holds a spinlock or serves an interrupt has interrupts off, so a handler
\* never meets a lock its own hart holds: acquire, release and pop_off do not panic.
LocksMaskInterrupts ==
    /\ ~panicked
    /\ \A h \in Harts :
           ((\E l \in LockNames : lock[l] = h) \/ pc[Handler(h)] # "off") => ~ie[h]

\* Of what write() was given nothing is lost, repeated or reordered: the bytes
\* shown, in the FIFO and in the buffer are those stored, in their order.
OutputIntact ==
    LET inFifo == SelectSeq(fifo, LAMBDA c : c > 0)
        inBuf == [i \in 1..(tx.w - tx.r) |-> tx.buf[(tx.r + i - 1) % UART_TX_BUF_SIZE]]
    IN  inFifo \o inBuf = [i \in 1..(tx.w - shown) |-> shown + i]

\* A read() returns at most one line, and nothing only at a ^D.
ReadsAreLines ==
    /\ \A i \in 1..Len(rd.got) : rd.got[i] # "^D" /\ (rd.got[i] = "\n" => i = Len(rd.got))
    /\ pc[Reader] = "return" =>
           \/ rd.n = 0 \/ rd.got = <<>> \/ Last(rd.got) = "\n"
           \/ cons.r # cons.w /\ cons.buf[cons.r % INPUT_BUF_SIZE] = "^D"

\* The circular buffer with its three indices implements a line discipline.
Line == [i \in 1..Count(cons.w, cons.e) |-> cons.buf[(cons.w + i - 1) % INPUT_BUF_SIZE]]
Ready == [i \in 1..Count(cons.r, cons.w) |-> cons.buf[(cons.r + i - 1) % INPUT_BUF_SIZE]]
LD == INSTANCE LineDiscipline WITH Size <- INPUT_BUF_SIZE, Chars <- {"a", "\n", "^D"},
                                   Enders <- {"\n", "^D"}, line <- Line, ready <- Ready
ImplementsLineDiscipline == LD!LineSpec

\* Everything comes to rest: the writer gets all its bytes out, what was
\* typed is processed, and complete lines are read, unless the reader was killed.
ComesToRest ==
    <>[](/\ shown = Lines /\ pc[Writer] = "idle"
         /\ typing = <<>> /\ rx = <<>>
         /\ cons.r = cons.w \/ pc[Reader] = "exit" \/ (rd.killed /\ pc[Reader] = "idle"))
=============================================================================
