----------------------------- MODULE RingStream -----------------------------
(***************************************************************************)
(* The data path of an open ring buffer: user/ringbuf.c's start_write,     *)
(* finish_write, start_read and finish_read, called in the loops of        *)
(* user/rb.c by one writer and one reader that share the book page         *)
(* (read_done, write_done) and the buffer pages.                           *)
(*                                                                         *)
(* Every atomic load and store of the book page is a step of its own, and  *)
(* memcpy moves one byte per step, so the two processes interleave as on   *)
(* two harts.  The buffer is mapped twice back to back, so the byte at     *)
(* offset a of the 2 * MAX_RINGBUF_BYTES window is mem[a % MAX].           *)
(* Byte number i of the stream (from 0) carries the value i + 1; a byte of *)
(* a fresh page is 0.                                                      *)
(***************************************************************************)
EXTENDS Integers, Sequences

CONSTANTS USR_RINGBUF_SIZE,   \* buffer pages (16)
          PGSIZE,             \* bytes of a page (4096)
          SIZE,               \* bytes to transfer
          WordMod,            \* 2^64: the book's counters are uint64
          Greedy              \* TRUE: the loops of rb.c, which take all they
                              \* are offered; FALSE: any non-empty part of it

\* MAX_RINGBUF_BYTES, where the expression that uses it parenthesises it.
MAX == USR_RINGBUF_SIZE * PGSIZE

ASSUME StreamAssumption ==
    /\ USR_RINGBUF_SIZE \in Nat \ {0}
    /\ PGSIZE \in Nat \ {0}
    /\ SIZE \in Nat
    /\ WordMod \in Nat
    /\ 2 * (SIZE + MAX) < WordMod
    /\ Greedy \in BOOLEAN
    /\ Greedy => \E k \in 0..SIZE : SIZE = k * MAX

VARIABLES
    read_done, write_done,   \* struct book
    mem,                     \* the buffer's physical bytes
    wpc, wread, wwrite,      \* the writer: control, its two loads,
    waddr, wbytes, wcopied,  \*   chunk address and size, memcpy's progress,
    total_write,             \*   rb.c's count
    rpc, rread, rwrite, raddr, rbytes, rcopied, total_read,
    read_buf                 \* where the reader copies the stream to

wvars == <<write_done, mem, wpc, wread, wwrite, waddr, wbytes, wcopied,
           total_write>>
rvars == <<read_done, rpc, rread, rwrite, raddr, rbytes, rcopied, total_read,
           read_buf>>
vars == <<wvars, rvars>>

-----------------------------------------------------------------------------
\* uint64 arithmetic, and the (int) cast of an offered size.
Add64(a, b) == IF a + b < WordMod THEN a + b ELSE a + b - WordMod
Sub64(a, b) == IF a >= b THEN a - b ELSE a - b + WordMod
ToInt(x) == IF 2 * x < WordMod THEN x ELSE x - WordMod

\* The chunk sizes a client may choose when it is offered avail bytes.
Chunks(avail, left) ==
    IF Greedy THEN {avail}
    ELSE {n \in 1..SIZE : n <= avail /\ n <= left}

\* start_write's offset: write % (MAX_RINGBUF_BYTES).
WriteOffset(write) == write % MAX

\* start_read's offset: read % MAX_RINGBUF_BYTES, where the macro's body
\* USR_RINGBUF_SIZE *PGSIZE is not parenthesised.
ReadOffset(read) == (read % USR_RINGBUF_SIZE) * PGSIZE

StreamInit ==
    /\ read_done = 0 /\ write_done = 0
    /\ mem = [a \in 0..(MAX - 1) |-> 0]
    /\ wpc = "start" /\ wread = 0 /\ wwrite = 0 /\ waddr = 0 /\ wbytes = 0
    /\ wcopied = 0 /\ total_write = 0
    /\ rpc = "start" /\ rread = 0 /\ rwrite = 0 /\ raddr = 0 /\ rbytes = 0
    /\ rcopied = 0 /\ total_read = 0
    /\ read_buf = [i \in 0..(SIZE - 1) |-> 0]

-----------------------------------------------------------------------------
(* The writer. *)

\* while (total_write < SIZE) start_write: load read_done.
WStartLoadRead ==
    /\ wpc = "start" /\ total_write < SIZE
    /\ wread' = read_done
    /\ wpc' = "startWrite"
    /\ UNCHANGED <<write_done, mem, wwrite, waddr, wbytes, wcopied, total_write,
                   rvars>>

\* (mutant) start_write that offers the whole ring whatever is unread.
OverfullWStartLoadWrite ==
    /\ wpc = "startWrite"
    /\ waddr' = WriteOffset(write_done)
    /\ wbytes' \in Chunks(MAX, SIZE - total_write)
    /\ wcopied' = 0
    /\ wpc' = "copy"
    /\ UNCHANGED <<write_done, mem, wread, wwrite, total_write, rvars>>

\* start_write loads write_done and makes its offer; the client loops when
\* the offer is empty and otherwise chooses its chunk.
WStartLoadWrite ==
    /\ wpc = "startWrite"
    /\ waddr' = WriteOffset(write_done)
    /\ LET avail == ToInt(Sub64(MAX, Sub64(write_done, wread)))
       IN  IF avail <= 0
           THEN wpc' = "start" /\ UNCHANGED <<wbytes, wcopied>>
           ELSE /\ wbytes' \in Chunks(avail, SIZE - total_write)
                /\ wcopied' = 0
                /\ wpc' = "copy"
    /\ UNCHANGED <<write_done, mem, wread, wwrite, total_write, rvars>>

\* memcpy(write_addr, ..., bytes), a byte; then total_write += bytes.
WCopy ==
    /\ wpc = "copy"
    /\ mem' = [mem EXCEPT ![(waddr + wcopied) % MAX] = total_write + wcopied + 1]
    /\ wcopied' = wcopied + 1
    /\ IF wcopied + 1 = wbytes
       THEN wpc' = "finish" /\ total_write' = total_write + wbytes
       ELSE UNCHANGED <<wpc, total_write>>
    /\ UNCHANGED <<write_done, wread, wwrite, waddr, wbytes, rvars>>

WFinishLoadRead ==
    /\ wpc = "finish"
    /\ wread' = read_done
    /\ wpc' = "finishWrite"
    /\ UNCHANGED <<write_done, mem, wwrite, waddr, wbytes, wcopied, total_write,
                   rvars>>

\* finish_write loads write_done and exits when the chunk does not fit.
WFinishLoadWrite ==
    /\ wpc = "finishWrite"
    /\ wwrite' = write_done
    /\ wpc' = IF wbytes > Sub64(MAX, Sub64(write_done, wread))
              THEN "exited" ELSE "finishStore"
    /\ UNCHANGED <<write_done, mem, wread, waddr, wbytes, wcopied, total_write,
                   rvars>>

WFinishStore ==
    /\ wpc = "finishStore"
    /\ write_done' = Add64(wwrite, wbytes)
    /\ wpc' = "start"
    /\ UNCHANGED <<mem, wread, wwrite, waddr, wbytes, wcopied, total_write, rvars>>

WDone ==
    /\ wpc = "start" /\ total_write >= SIZE
    /\ wpc' = "done"
    /\ UNCHANGED <<write_done, mem, wread, wwrite, waddr, wbytes, wcopied,
                   total_write, rvars>>

Writer == \/ WStartLoadRead \/ WStartLoadWrite \/ WCopy \/ WFinishLoadRead
          \/ WFinishLoadWrite \/ WFinishStore \/ WDone

-----------------------------------------------------------------------------
(* The reader. *)

RStartLoadRead ==
    /\ rpc = "start" /\ total_read < SIZE
    /\ rread' = read_done
    /\ rpc' = "startWrite"
    /\ UNCHANGED <<read_done, rwrite, raddr, rbytes, rcopied, total_read,
                   read_buf, wvars>>

RStartLoadWrite ==
    /\ rpc = "startWrite"
    /\ raddr' = ReadOffset(rread)
    /\ LET avail == ToInt(Sub64(write_done, rread))
       IN  IF avail <= 0
           THEN rpc' = "start" /\ UNCHANGED <<rbytes, rcopied>>
           ELSE /\ rbytes' \in Chunks(avail, SIZE - total_read)
                /\ rcopied' = 0
                /\ rpc' = "copy"
    /\ UNCHANGED <<read_done, rread, rwrite, total_read, read_buf, wvars>>

\* memcpy(read_buf + total_read, read_addr, bytes); total_read += bytes.
RCopy ==
    /\ rpc = "copy"
    /\ read_buf' = [read_buf EXCEPT ![total_read + rcopied] =
                        mem[(raddr + rcopied) % MAX]]
    /\ rcopied' = rcopied + 1
    /\ IF rcopied + 1 = rbytes
       THEN rpc' = "finish" /\ total_read' = total_read + rbytes
       ELSE UNCHANGED <<rpc, total_read>>
    /\ UNCHANGED <<read_done, rread, rwrite, raddr, rbytes, wvars>>

RFinishLoadRead ==
    /\ rpc = "finish"
    /\ rread' = read_done
    /\ rpc' = "finishWrite"
    /\ UNCHANGED <<read_done, rwrite, raddr, rbytes, rcopied, total_read,
                   read_buf, wvars>>

\* (mutant) finish_read with >= in its first test.
DroppingRFinishLoadWrite ==
    /\ rpc = "finishWrite"
    /\ rwrite' = write_done
    /\ rpc' = IF rbytes >= Sub64(write_done, rread) THEN "start" ELSE "finishStore"
    /\ UNCHANGED <<read_done, rread, raddr, rbytes, rcopied, total_read,
                   read_buf, wvars>>

\* finish_read loads write_done and gives up silently when the chunk is
\* larger than what is published, or than write_done itself.
RFinishLoadWrite ==
    /\ rpc = "finishWrite"
    /\ rwrite' = write_done
    /\ rpc' = IF rbytes > Sub64(write_done, rread) \/ ~(rbytes <= write_done)
              THEN "start" ELSE "finishStore"
    /\ UNCHANGED <<read_done, rread, raddr, rbytes, rcopied, total_read,
                   read_buf, wvars>>

RFinishStore ==
    /\ rpc = "finishStore"
    /\ read_done' = Add64(rread, rbytes)
    /\ rpc' = "start"
    /\ UNCHANGED <<rread, rwrite, raddr, rbytes, rcopied, total_read, read_buf,
                   wvars>>

RDone ==
    /\ rpc = "start" /\ total_read >= SIZE
    /\ rpc' = "done"
    /\ UNCHANGED <<read_done, rread, rwrite, raddr, rbytes, rcopied, total_read,
                   read_buf, wvars>>

Reader == \/ RStartLoadRead \/ RStartLoadWrite \/ RCopy \/ RFinishLoadRead
          \/ RFinishLoadWrite \/ RFinishStore \/ RDone

\* Both processes have left their loops.
Finished == wpc \in {"done", "exited"} /\ rpc = "done" /\ UNCHANGED vars

StreamNext == Writer \/ Reader \/ Finished

StreamSpec == StreamInit /\ [][StreamNext]_vars

\* Both processes are runnable all the time (the loops never sleep), so the
\* round-robin scheduler keeps running them.
StreamFairSpec == StreamSpec /\ WF_vars(Writer) /\ WF_vars(Reader)

-----------------------------------------------------------------------------
(* Properties. *)

WPcs == {"start", "startWrite", "copy", "finish", "finishWrite",
         "finishStore", "exited", "done"}
RPcs == WPcs \ {"exited"}

\* Every variable keeps its type: counters never exceed the bytes of the
\* transfer, offsets stay in the first of the two mappings.
TypeOK ==
    /\ read_done \in 0..SIZE /\ write_done \in 0..SIZE
    /\ mem \in [0..(MAX - 1) -> 0..SIZE]
    /\ wpc \in WPcs /\ wread \in 0..SIZE /\ wwrite \in 0..SIZE
    /\ waddr \in 0..(MAX - 1) /\ wbytes \in 0..MAX /\ wcopied \in 0..MAX
    /\ total_write \in 0..SIZE
    /\ rpc \in RPcs /\ rread \in 0..SIZE /\ rwrite \in 0..SIZE
    /\ raddr \in 0..(MAX - 1) /\ rbytes \in 0..MAX /\ rcopied \in 0..MAX
    /\ total_read \in 0..SIZE
    /\ read_buf \in [0..(SIZE - 1) -> 0..SIZE]

\* The writer, which decides from a read_done that may be stale, never
\* overwrites a published byte that the reader has not released: every
\* unread byte is still in its place, and there are at most MAX of them.
UnreadIntact ==
    /\ read_done <= write_done /\ write_done <= read_done + MAX
    /\ \A i \in 0..(SIZE - 1) :
           read_done <= i /\ i < write_done => mem[i % MAX] = i + 1

\* finish_read never gives up silently and finish_write never exits with
\* "Write exceeded read.": between calls the clients' own totals equal the
\* counters of the book page.
TotalsAgreeWithBook ==
    /\ wpc \in {"start", "done"} => total_write = write_done
    /\ rpc \in {"start", "done"} => total_read = read_done
    /\ wpc # "exited"

\* The two memcpys, which run without a lock, never touch the same physical
\* byte (through either of its two mappings).
NoCopyRace ==
    wpc = "copy" /\ rpc = "copy" =>
        \A i \in wcopied..(wbytes - 1), j \in rcopied..(rbytes - 1) :
            (waddr + i) % MAX # (raddr + j) % MAX

\* rb.c: "After transfer, read_buf should have contents of write_buf": every
\* byte the reader has copied is the stream's byte of that position.
Delivered ==
    \A i \in 0..(SIZE - 1) :
        i < total_read + (IF rpc = "copy" THEN rcopied ELSE 0)
            => read_buf[i] = i + 1

\* With both processes scheduled, the transfer completes: neither loop polls
\* for ever on a full or an empty ring.
Completes == <>(wpc = "done" /\ rpc = "done")

\* The ring as the abstract queue: what is published and not released is the
\* queue, what finish_read released has been taken.
Fifo == INSTANCE BoundedFifo WITH
            Capacity <- MAX,
            Total <- SIZE,
            queue <- [i \in 1..(write_done - read_done) |->
                          mem[(read_done + i - 1) % MAX]],
            taken <- [i \in 1..read_done |-> read_buf[i - 1]],
            published <- write_done

\* The load/store-level protocol of user/ringbuf.c implements the bounded
\* byte queue.
ImplementsFifo == Fifo!FifoSpec
=============================================================================
