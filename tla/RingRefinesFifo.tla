-------------------------- MODULE RingRefinesFifo --------------------------
(***************************************************************************)
(* Proof that the load/store-level protocol of user/ringbuf.c, with the    *)
(* clients of user/rb.c, implements the bounded byte queue, for every ring *)
(* size, page size and transfer length.                                    *)
(*                                                                         *)
(* The bytes of the queue and the bytes taken are functions of the two     *)
(* counters alone (InStep), so only the stores of finish_write and         *)
(* finish_read change the abstract state: they publish and take a chunk.   *)
(***************************************************************************)
EXTENDS RingStreamProof

\* The bytes from a + 1 to b of the stream.
Span(a, b) == [i \in 1..(b - a) |-> a + i]

\* The queue of the refinement mapping, and the bytes taken.
Queue == [i \in 1..(write_done - read_done) |-> mem[(read_done + i - 1) % MAX]]
Taken == [i \in 1..read_done |-> read_buf[i - 1]]

\* A span is a sequence of numbers of that length.
LEMMA SpanLen ==
    ASSUME NEW a \in Nat, NEW b \in Nat, a <= b
    PROVE  Span(a, b) \in Seq(Nat) /\ Len(Span(a, b)) = b - a
BY DEF Span

\* Two spans that meet make one.
LEMMA SpanJoin ==
    ASSUME NEW a \in Nat, NEW b \in Nat, NEW c \in Nat, a <= b, b <= c
    PROVE  Span(a, b) \o Span(b, c) = Span(a, c)
BY DEF Span

-----------------------------------------------------------------------------
\* What is published and not released is the stream from read_done on, and what
\* was released is the stream up to read_done.
InStep ==
    /\ read_done \in Nat /\ write_done \in Nat /\ read_done <= write_done
    /\ Queue = Span(read_done, write_done) /\ Taken = Span(0, read_done)

\* Every byte is where the counters say, before and after a step.
LEMMA Contents == IInv /\ Delivered => InStep
<1> SUFFICES ASSUME IInv, Delivered PROVE InStep
  OBVIOUS
<1> USE MaxPos
<1>1. /\ read_done \in 0..SIZE /\ write_done \in 0..SIZE /\ read_done <= write_done
      /\ total_read \in 0..SIZE /\ rcopied \in 0..MAX /\ rbytes \in 0..MAX
  BY DEF IInv, TypeOK, UnreadIntact
<1>2. ASSUME NEW i \in 1..(write_done - read_done)
      PROVE  mem[(read_done + i - 1) % MAX] = read_done + i
  <2> DEFINE j == read_done + i - 1
  <2>1. j \in 0..(SIZE - 1) /\ read_done <= j /\ j < write_done /\ j + 1 = read_done + i
    BY <1>1
  <2> HIDE DEF j
  <2>2. mem[j % MAX] = j + 1
    BY <2>1 DEF IInv, UnreadIntact
  <2> QED
    BY <2>1, <2>2 DEF j
<1>3. ASSUME NEW i \in 1..read_done PROVE read_buf[i - 1] = i
  <2> DEFINE j == i - 1
  <2>1. read_done <= total_read
    BY <1>1 DEF IInv, RInv, TypeOK, RPcs, WPcs
  <2>2. j \in 0..(SIZE - 1) /\ j < total_read + (IF rpc = "copy" THEN rcopied ELSE 0) /\ j + 1 = i
    BY <1>1, <2>1 DEF Span
  <2> HIDE DEF j
  <2>3. read_buf[j] = j + 1
    BY <2>2, Zenon DEF Delivered
  <2> QED
    BY <2>2, <2>3 DEF j
<1>4. Queue = Span(read_done, write_done)
  BY <1>2 DEF Queue, Span
<1>5. Taken = Span(0, read_done)
  BY <1>1, <1>3 DEF Taken, Span
<1> QED
  BY <1>1, <1>4, <1>5 DEF InStep

\* The same facts of the state a step leads to.
LEMMA ContentsAfter == IInv' /\ Delivered' => InStep'
BY Contents, PTL

\* An empty ring is an empty queue.
LEMMA FifoStarts == StreamInit => Fifo!FifoInit
<1> SUFFICES ASSUME StreamInit PROVE Fifo!FifoInit
  OBVIOUS
<1>1. read_done = 0 /\ write_done = 0
  BY DEF StreamInit
<1> QED
  BY <1>1 DEF Fifo!FifoInit

\* finish_write's store publishes the chunk.
LEMMA StorePublishes ==
    ASSUME IInv, Delivered, IInv', Delivered', WFinishStore
    PROVE  wbytes \in 1..MAX /\ Fifo!Publish(wbytes)
<1> USE MaxPos
<1>1. /\ wbytes \in 1..MAX /\ write_done + wbytes <= read_done + MAX
      /\ write_done + wbytes <= SIZE /\ wwrite = write_done
      /\ read_done \in 0..SIZE /\ write_done \in 0..SIZE /\ read_done <= write_done
  BY DEF WFinishStore, IInv, WInv, TypeOK, UnreadIntact
<1>2. write_done' = write_done + wbytes
  BY <1>1 DEF WFinishStore, Add64
<1>3. read_done' = read_done /\ read_buf' = read_buf
  BY DEF WFinishStore, rvars
<1>4. Queue = Span(read_done, write_done) /\ Queue' = Span(read_done, write_done + wbytes)
  <2>1. Queue = Span(read_done, write_done) /\ Queue' = Span(read_done, write_done)'
    BY Contents, ContentsAfter DEF InStep
  <2> QED
    BY <1>2, <1>3, <2>1 DEF Span
<1>5. Span(write_done, write_done + wbytes) = [i \in 1..wbytes |-> write_done + i]
  BY <1>1 DEF Span
<1>0. read_done \in Nat /\ write_done \in Nat /\ write_done + wbytes \in Nat /\ write_done <= write_done + wbytes
  BY <1>1
<1>6. Queue' = Queue \o [i \in 1..wbytes |-> write_done + i]
  <2>1. Span(read_done, write_done) \o Span(write_done, write_done + wbytes) = Span(read_done, write_done + wbytes)
    BY <1>0, <1>1, SpanJoin
  <2> QED
    BY <1>4, <1>5, <2>1, Zenon
<1>7. Len(Queue) = write_done - read_done
  BY <1>0, <1>1, <1>4, SpanLen
<1>8. Taken' = Taken
  BY <1>3 DEF Taken
<1>9. Len(Queue) + wbytes <= MAX /\ write_done + wbytes <= SIZE
  BY <1>1, <1>7
<1> QED
  BY <1>1, <1>2, <1>6, <1>8, <1>9, Zenon DEF Fifo!Publish, Queue, Taken

\* finish_read's store takes the chunk.
LEMMA StoreTakes ==
    ASSUME IInv, Delivered, IInv', Delivered', RFinishStore
    PROVE  rbytes \in 1..MAX /\ Fifo!Take(rbytes)
<1> USE MaxPos
<1>1. /\ rbytes \in 1..MAX /\ read_done + rbytes <= write_done /\ rread = read_done
      /\ read_done \in 0..SIZE /\ write_done \in 0..SIZE /\ read_done <= write_done
  BY DEF RFinishStore, IInv, RInv, TypeOK, UnreadIntact
<1>2. read_done' = read_done + rbytes
  BY <1>1 DEF RFinishStore, Add64
<1>3. write_done' = write_done
  BY DEF RFinishStore, wvars
<1>4. Queue = Span(read_done, write_done) /\ Queue' = Span(read_done + rbytes, write_done)
  <2>1. Queue = Span(read_done, write_done) /\ Queue' = Span(read_done, write_done)'
    BY Contents, ContentsAfter DEF InStep
  <2> QED
    BY <1>2, <1>3, <2>1 DEF Span
<1>5. Taken = Span(0, read_done) /\ Taken' = Span(0, read_done + rbytes)
  <2>1. Taken = Span(0, read_done) /\ Taken' = Span(0, read_done)'
    BY Contents, ContentsAfter DEF InStep
  <2> QED
    BY <1>2, <2>1 DEF Span
<1>0. read_done \in Nat /\ write_done \in Nat /\ rbytes \in Nat /\ 0 <= read_done /\ read_done + rbytes \in Nat
      /\ read_done <= read_done + rbytes /\ 0 \in Nat
  BY <1>1
<1>6. Len(Queue) = write_done - read_done
  BY <1>0, <1>1, <1>4, SpanLen
<1>7. /\ SubSeq(Span(read_done, write_done), 1, rbytes) = Span(read_done, read_done + rbytes)
      /\ SubSeq(Span(read_done, write_done), rbytes + 1, write_done - read_done) = Span(read_done + rbytes, write_done)
  <2>1. read_done + rbytes <= write_done
    BY <1>1
  <2>2. PICK a \in Nat, b \in Nat, n \in Nat : a = read_done /\ b = write_done /\ n = rbytes
    BY <1>0
  <2>3. a + n <= b
    BY <2>1, <2>2
  <2>4. SubSeq(Span(a, b), 1, n) = Span(a, a + n) /\ SubSeq(Span(a, b), n + 1, b - a) = Span(a + n, b)
    BY <2>3 DEF Span
  <2> QED
    BY <2>2, <2>4, Zenon
<1>8. Queue' = SubSeq(Queue, rbytes + 1, Len(Queue))
  BY <1>4, <1>6, <1>7, Zenon
<1>9. Taken' = Taken \o SubSeq(Queue, 1, rbytes)
  <2>1. Span(0, read_done) \o Span(read_done, read_done + rbytes) = Span(0, read_done + rbytes)
    BY <1>0, SpanJoin
  <2> QED
    BY <1>4, <1>5, <1>7, <2>1, Zenon
<1>10. rbytes <= Len(Queue)
  BY <1>1, <1>6
<1> QED
  BY <1>1, <1>3, <1>8, <1>9, <1>10, Zenon DEF Fifo!Take, Queue, Taken

\* Every other step leaves the queue as it was.
LEMMA OthersStutter ==
    ASSUME IInv, Delivered, IInv', Delivered', [StreamNext]_vars, ~WFinishStore, ~RFinishStore
    PROVE  UNCHANGED Fifo!fifoVars
<1>1. read_done' = read_done /\ write_done' = write_done
  BY DEF StreamNext, Writer, Reader, Finished, vars, wvars, rvars,
         WStartLoadRead, WStartLoadWrite, WCopy, WFinishLoadRead, WFinishLoadWrite, WDone,
         RStartLoadRead, RStartLoadWrite, RCopy, RFinishLoadRead, RFinishLoadWrite, RDone
<1>2. Queue' = Queue
  <2>1. Queue = Span(read_done, write_done) /\ Queue' = Span(read_done, write_done)'
    BY Contents, ContentsAfter DEF InStep
  <2> QED
    BY <1>1, <2>1 DEF Span
<1>3. Taken' = Taken
  <2>1. Taken = Span(0, read_done) /\ Taken' = Span(0, read_done)'
    BY Contents, ContentsAfter DEF InStep
  <2> QED
    BY <1>1, <2>1 DEF Span
<1> QED
  BY <1>1, <1>2, <1>3 DEF Fifo!fifoVars, Queue, Taken

\* For every ring size, page size and transfer length: with the loops of rb.c,
\* start and finish calls of user/ringbuf.c that interleave load by load and byte
\* by byte implement a bounded byte queue.
THEOREM StreamImplementsFifo == ASSUME Greedy PROVE StreamSpec => ImplementsFifo
<1>1. IInv /\ Delivered /\ IInv' /\ Delivered' /\ [StreamNext]_vars => [Fifo!FifoNext]_(Fifo!fifoVars)
  <2> SUFFICES ASSUME IInv, Delivered, IInv', Delivered', [StreamNext]_vars
               PROVE  [Fifo!FifoNext]_(Fifo!fifoVars)
    OBVIOUS
  <2>1. CASE WFinishStore
    <3>1. wbytes \in 1..MAX /\ Fifo!Publish(wbytes)
      BY <2>1, StorePublishes
    <3>2. Fifo!FifoNext
      BY <3>1 DEF Fifo!FifoNext, Fifo!Publish
    <3> QED
      BY <3>2
  <2>2. CASE RFinishStore
    <3>1. rbytes \in 1..MAX /\ Fifo!Take(rbytes)
      BY <2>2, StoreTakes
    <3>2. Fifo!FifoNext
      BY <3>1 DEF Fifo!FifoNext, Fifo!Take
    <3> QED
      BY <3>2
  <2>3. CASE ~WFinishStore /\ ~RFinishStore
    BY <2>3, OthersStutter
  <2> QED
    BY <2>1, <2>2, <2>3
<1> QED
  BY <1>1, FifoStarts, StreamInvariance, StreamDelivered, PTL DEF StreamSpec, ImplementsFifo, Fifo!FifoSpec
=============================================================================
