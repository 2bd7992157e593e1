-------------------------- MODULE RingStreamProof --------------------------
(***************************************************************************)
(* Proofs about RingStream, for every ring size, page size and transfer    *)
(* length: the writer never overwrites unread bytes and no finish call is  *)
(* refused, whatever chunks the clients choose; and with rb.c's loops,     *)
(* which take all they are offered, every byte is delivered in its place.  *)
(***************************************************************************)
EXTENDS RingStream, ModArith

\* The writer between its loads and its store: the read_done it loaded is a
\* lower bound of the current one, the chunk it chose fits what was free, and
\* the bytes it has copied are in place.
WInv ==
    /\ wpc # "exited"
    /\ wpc \in {"start", "startWrite", "copy", "done"}
          => total_write = write_done
    /\ wpc = "startWrite" => write_done < SIZE
    /\ wpc \in {"startWrite", "finishWrite"}
          => wread <= read_done /\ write_done <= wread + MAX
    /\ wpc = "finishWrite" => write_done + wbytes <= wread + MAX
    /\ wpc \in {"copy", "finish", "finishWrite", "finishStore"}
          => /\ 1 <= wbytes
             /\ write_done + wbytes <= read_done + MAX
             /\ write_done + wbytes <= SIZE
    /\ wpc = "copy" => wcopied < wbytes /\ waddr = write_done % MAX
    /\ wpc \in {"finish", "finishWrite", "finishStore"}
          => total_write = write_done + wbytes /\ wcopied = wbytes
    /\ wpc = "finishStore" => wwrite = write_done

\* What the writer has copied and not yet published.
CopiedInPlace ==
    wpc \in {"copy", "finish", "finishWrite", "finishStore"} =>
        \A i \in 0..(SIZE - 1) :
            write_done <= i /\ i < write_done + wcopied => mem[i % MAX] = i + 1

\* The reader: its chunk is published.
RInv ==
    /\ rpc \in {"start", "startWrite", "copy", "done"}
          => total_read = read_done
    /\ rpc \in {"startWrite", "finishWrite", "finishStore"}
          => rread = read_done
    /\ rpc \in {"copy", "finish", "finishWrite", "finishStore"}
          => 1 <= rbytes /\ read_done + rbytes <= write_done
    /\ rpc = "copy" => rcopied < rbytes
    /\ rpc \in {"finish", "finishWrite", "finishStore"}
          => total_read = read_done + rbytes

\* With greedy clients both counters are multiples of the ring's size, so a
\* chunk is the whole ring, the writer owns it when the counters are equal,
\* the reader when they differ.
GInv ==
    Greedy =>
        /\ \E k \in Nat : read_done = k * MAX
        /\ \E k \in Nat : write_done = k * MAX
        /\ wpc = "startWrite" => \E k \in Nat : wread = k * MAX
        /\ wpc \in {"copy", "finish", "finishWrite", "finishStore"}
              => wbytes = MAX /\ read_done = write_done
        /\ rpc \in {"copy", "finish", "finishWrite", "finishStore"}
              => rbytes = MAX /\ write_done = read_done + MAX
        /\ rpc = "copy" => raddr = 0

\* The inductive invariant.
IInv == TypeOK /\ UnreadIntact /\ WInv /\ CopiedInPlace /\ RInv /\ GInv

-----------------------------------------------------------------------------
\* The ring holds at least one byte, and the counters are far from 2^64.
LEMMA MaxPos ==
  /\ MAX \in Nat \ {0}
  /\ SIZE \in Nat /\ WordMod \in Nat /\ 2 * (SIZE + MAX) < WordMod
<1>1. USR_RINGBUF_SIZE * PGSIZE \in Nat \ {0} BY StreamAssumption, Z3
<1> QED BY <1>1, StreamAssumption DEF MAX

\* The slots of two stream positions less than MAX apart differ.
LEMMA SlotsDiffer ==
  ASSUME NEW i \in Nat, NEW j \in Nat, i # j, i < j + MAX, j < i + MAX
  PROVE  i % MAX # j % MAX
BY MaxPos, ModInjective

\* A fresh ring, with its zeroed book and pages, satisfies the invariant.
LEMMA InitIInv == StreamInit => IInv
<1> SUFFICES ASSUME StreamInit PROVE IInv OBVIOUS
<1> USE MaxPos
<1>1. TypeOK BY DEF StreamInit, TypeOK, WPcs, RPcs
<1>2. UnreadIntact BY DEF StreamInit, UnreadIntact
<1>3. WInv /\ CopiedInPlace /\ RInv
  BY DEF StreamInit, WInv, CopiedInPlace, RInv
<1>4. GInv
  <2>1. 0 = 0 * MAX BY Z3
  <2> QED BY <2>1 DEF StreamInit, GInv
<1> QED BY <1>1, <1>2, <1>3, <1>4 DEF IInv

\* The writer's loads, its tests and its exit from the loop leave the buffer
\* and the book alone.
LEMMA WControl ==
  ASSUME IInv,
         WStartLoadRead \/ WFinishLoadRead \/ WFinishLoadWrite \/ WDone
  PROVE  IInv'
<1> USE MaxPos DEF IInv
<1>1. UNCHANGED <<write_done, mem, total_write, wbytes, wcopied, waddr, rvars>>
  BY DEF WStartLoadRead, WFinishLoadRead, WFinishLoadWrite, WDone
<1>2. TypeOK'
  BY <1>1 DEF WStartLoadRead, WFinishLoadRead, WFinishLoadWrite, WDone,
              TypeOK, WPcs, RPcs, rvars
<1>3. UnreadIntact' BY <1>1 DEF UnreadIntact, rvars
<1>4. WInv'
  BY <1>1 DEF WStartLoadRead, WFinishLoadRead, WFinishLoadWrite, WDone,
              TypeOK, UnreadIntact, WInv, rvars, Sub64
<1>5. CopiedInPlace'
  BY <1>1 DEF WStartLoadRead, WFinishLoadRead, WFinishLoadWrite, WDone,
              CopiedInPlace, rvars
<1>6. RInv' BY <1>1 DEF RInv, rvars
<1>7. GInv'
  BY <1>1 DEF WStartLoadRead, WFinishLoadRead, WFinishLoadWrite, WDone,
              GInv, rvars
<1> QED BY <1>2, <1>3, <1>4, <1>5, <1>6, <1>7

\* A multiple of MAX between a and a + MAX, a also a multiple, is one of them.
LEMMA GreedyGap ==
  ASSUME NEW a, NEW b, \E k \in Nat : a = k * MAX, \E k \in Nat : b = k * MAX,
         a < b
  PROVE  a + MAX <= b
<1>1. PICK k \in Nat : a = k * MAX OBVIOUS
<1>2. PICK j \in Nat : b = j * MAX OBVIOUS
<1> QED BY <1>1, <1>2, MaxPos, MultipleGap

\* Adding MAX to a multiple of MAX gives a multiple of MAX.
LEMMA GreedySum ==
  ASSUME NEW a, \E k \in Nat : a = k * MAX
  PROVE  \E k \in Nat : a + MAX = k * MAX
<1>1. PICK k \in Nat : a = k * MAX OBVIOUS
<1>2. MAX \in Nat BY MaxPos
<1>3. (k + 1) * MAX = k * MAX + MAX BY <1>2, Z3
<1> QED BY <1>1, <1>3

\* start_write's offer never exceeds what is free: the read_done it was
\* computed from can only have grown.
LEMMA WOffer ==
  ASSUME IInv, WStartLoadWrite
  PROVE  IInv'
<1> USE MaxPos DEF IInv
<1> DEFINE free == MAX - (write_done - wread)
<1>1. /\ write_done \in 0..SIZE /\ wread \in 0..SIZE /\ read_done \in 0..SIZE
      /\ wread <= read_done /\ read_done <= write_done
      /\ write_done <= wread + MAX
      /\ total_write = write_done /\ write_done < SIZE
  BY DEF WStartLoadWrite, TypeOK, UnreadIntact, WInv
<1>2. free \in 0..MAX BY <1>1
<1>3. ToInt(Sub64(MAX, Sub64(write_done, wread))) = free
  BY <1>1, <1>2 DEF ToInt, Sub64
<1> HIDE DEF free
<1>4. waddr' = write_done % MAX /\ waddr' \in 0..(MAX - 1)
  BY <1>1, ModDef DEF WStartLoadWrite, WriteOffset
<1>5. UNCHANGED <<write_done, mem, wread, wwrite, total_write, rvars>>
  BY DEF WStartLoadWrite
<1>6. CASE free = 0
  <2>1. wpc' = "start" /\ UNCHANGED <<wbytes, wcopied>>
    BY <1>3, <1>6 DEF WStartLoadWrite
  <2> QED
    BY <1>1, <1>4, <1>5, <2>1 DEF TypeOK, UnreadIntact, WInv, CopiedInPlace,
          RInv, GInv, WPcs, RPcs, rvars
<1>7. CASE free # 0
  <2>1. wpc' = "copy" /\ wcopied' = 0 /\ wbytes' \in Chunks(free, SIZE - write_done)
    BY <1>1, <1>2, <1>3, <1>7 DEF WStartLoadWrite
  <2>2. Greedy => free = MAX /\ read_done = write_done /\ write_done + MAX <= SIZE
    <3> SUFFICES ASSUME Greedy
                 PROVE  free = MAX /\ read_done = write_done /\ write_done + MAX <= SIZE
      BY Zenon
    <3>1. /\ \E k \in Nat : wread = k * MAX
          /\ \E k \in Nat : write_done = k * MAX
      BY Zenon DEF GInv, WStartLoadWrite
    <3>2. \E k \in Nat : SIZE = k * MAX
      <4>1. \E k \in 0..SIZE : SIZE = k * MAX BY StreamAssumption, Zenon
      <4> QED BY <4>1
    <3>3. ~(wread < write_done)
      BY <3>1, <1>1, <1>2, <1>7, GreedyGap DEF free
    <3>4. write_done + MAX <= SIZE BY <3>1, <3>2, <1>1, GreedyGap
    <3> QED BY <3>3, <3>4, <1>1 DEF free
  <2>3. PICK n : n \in Chunks(free, SIZE - write_done) /\ wbytes' = n BY <2>1
  <2>4. n \in 1..MAX /\ n <= free /\ write_done + n <= SIZE
    <3>1. CASE Greedy
      <4>1. n = free BY <2>3, <3>1, Zenon DEF Chunks
      <4>2. free = MAX /\ write_done + MAX <= SIZE BY <2>2, <3>1, Zenon
      <4> QED BY <4>1, <4>2
    <3>2. CASE ~Greedy
      <4>1. n \in {c \in 1..SIZE : c <= free /\ c <= SIZE - write_done}
        BY <2>3, <3>2, Zenon DEF Chunks
      <4> QED BY <4>1, <1>1, <1>2
    <3> QED BY <3>1, <3>2
  <2>5. Greedy => n = MAX
    BY <2>2, <2>3, Zenon DEF Chunks
  <2>10. write_done + n <= read_done + MAX
    BY <1>1, <1>2, <2>4 DEF free
  <2>6. TypeOK' /\ UnreadIntact'
    BY <1>1, <1>4, <1>5, <2>1, <2>3, <2>4
    DEF TypeOK, UnreadIntact, WPcs, RPcs, rvars
  <2>7. WInv' /\ RInv'
    BY <1>1, <1>4, <1>5, <2>1, <2>3, <2>4, <2>10 DEF WInv, RInv, rvars
  <2>8. CopiedInPlace'
    BY <1>1, <1>5, <2>1 DEF CopiedInPlace
  <2>9. GInv'
    BY <1>5, <2>1, <2>2, <2>3, <2>5 DEF GInv, rvars
  <2> QED BY <2>6, <2>7, <2>8, <2>9
<1> QED BY <1>2, <1>6, <1>7

\* memcpy into the ring lands on the slot of the next unpublished position,
\* which no unread byte and no byte copied before occupies.
LEMMA WCopyStep ==
  ASSUME IInv, WCopy
  PROVE  IInv'
<1> USE MaxPos DEF IInv
<1>1. PICK p \in Nat : p = write_done + wcopied
  BY DEF TypeOK
<1>2. /\ write_done \in Nat /\ read_done \in Nat /\ wbytes \in 1..MAX
      /\ wcopied \in 0..(MAX - 1) /\ wcopied < wbytes
      /\ write_done + wbytes <= read_done + MAX
      /\ write_done + wbytes <= SIZE /\ read_done <= write_done
      /\ total_write = write_done
  BY DEF WCopy, TypeOK, WInv, UnreadIntact
<1>3. (waddr + wcopied) % MAX = p % MAX
  <2>1. wcopied \in Nat BY <1>2
  <2>2. ((write_done % MAX) + wcopied) % MAX = (write_done + wcopied) % MAX
    BY <1>2, <2>1, ModShift
  <2>3. waddr = write_done % MAX BY DEF WCopy, WInv
  <2> QED BY <2>2, <2>3, <1>1
<1>4. p % MAX \in 0..(MAX - 1) /\ p + 1 \in 0..SIZE /\ p < read_done + MAX
  BY <1>1, <1>2, ModDef
<1>5. mem' = [mem EXCEPT ![p % MAX] = p + 1]
  BY <1>1, <1>2, <1>3 DEF WCopy
<1>6. UNCHANGED <<write_done, wread, wwrite, waddr, wbytes, rvars>>
  BY DEF WCopy
<1>7. ASSUME NEW i \in 0..(SIZE - 1), read_done <= i, i < p
      PROVE  mem'[i % MAX] = mem[i % MAX]
  <2>1. i \in Nat /\ i # p /\ i < p + MAX /\ p < i + MAX
    BY <1>2, <1>4, <1>7
  <2>2. i % MAX # p % MAX BY <2>1, SlotsDiffer
  <2>3. i % MAX \in 0..(MAX - 1) BY <2>1, ModDef
  <2> QED BY <2>2, <2>3, <1>5 DEF TypeOK
<1>8. mem'[p % MAX] = p + 1 BY <1>4, <1>5 DEF TypeOK
<1>9. TypeOK'
  <2>1. mem' \in [0..(MAX - 1) -> 0..SIZE] BY <1>4, <1>5 DEF TypeOK
  <2>2. /\ wcopied' \in 0..MAX /\ total_write' \in 0..SIZE
        /\ wpc' \in WPcs
    BY <1>2 DEF WCopy, WPcs, TypeOK
  <2> QED BY <2>1, <2>2, <1>6 DEF TypeOK, rvars
<1>10. UnreadIntact'
  <2>1. ASSUME NEW i \in 0..(SIZE - 1), read_done <= i, i < write_done
        PROVE  mem'[i % MAX] = i + 1
    <3>1. mem[i % MAX] = i + 1 BY <2>1 DEF UnreadIntact
    <3>2. i < p BY <2>1, <1>1, <1>2
    <3>3. mem'[i % MAX] = mem[i % MAX] BY <2>1, <3>2, <1>7
    <3> QED BY <3>1, <3>3
  <2>2. read_done' = read_done /\ write_done' = write_done
    BY <1>6 DEF rvars
  <2> QED BY <2>1, <2>2 DEF UnreadIntact
<1>11. WInv'
  BY <1>2, <1>6 DEF WCopy, WInv, rvars
<1>12. CopiedInPlace'
  <2>1. ASSUME NEW i \in 0..(SIZE - 1), write_done <= i,
               i < write_done + wcopied + 1
        PROVE  mem'[i % MAX] = i + 1
    <3>1. CASE i = p BY <3>1, <1>8
    <3>2. CASE i # p
      <4>1. i < p BY <3>2, <2>1, <1>1, <1>2
      <4>2. mem[i % MAX] = i + 1
        BY <4>1, <2>1, <1>1 DEF CopiedInPlace, WCopy
      <4>3. read_done <= i BY <2>1, <1>2
      <4>4. mem'[i % MAX] = mem[i % MAX] BY <4>1, <4>3, <1>7
      <4> QED BY <4>2, <4>4
    <3> QED BY <3>1, <3>2
  <2>2. wcopied' = wcopied + 1 /\ write_done' = write_done
    BY <1>6 DEF WCopy
  <2>3. write_done' + wcopied' = write_done + wcopied + 1
    BY <2>2, <1>2
  <2> QED BY <2>1, <2>2, <2>3, Zenon DEF CopiedInPlace
<1>13. RInv' BY <1>6 DEF RInv, rvars
<1>14. GInv' BY <1>6 DEF GInv, WCopy, rvars
<1> QED BY <1>9, <1>10, <1>11, <1>12, <1>13, <1>14

\* Publishing the chunk turns the copied bytes into unread ones.
LEMMA WStoreStep ==
  ASSUME IInv, WFinishStore
  PROVE  IInv'
<1> USE MaxPos DEF IInv
<1>1. /\ write_done \in Nat /\ read_done \in Nat /\ wbytes \in 1..MAX
      /\ wwrite = write_done /\ wcopied = wbytes
      /\ write_done + wbytes <= read_done + MAX
      /\ write_done + wbytes <= SIZE /\ read_done <= write_done
      /\ total_write = write_done + wbytes
  BY DEF WFinishStore, TypeOK, WInv, UnreadIntact
<1>2. write_done' = write_done + wbytes /\ wpc' = "start"
  BY <1>1 DEF WFinishStore, Add64
<1>3. UNCHANGED <<mem, wread, wwrite, waddr, wbytes, wcopied, total_write, rvars>>
  BY DEF WFinishStore
<1>4. TypeOK' BY <1>1, <1>2, <1>3 DEF TypeOK, WPcs, rvars
<1>5. UnreadIntact'
  <2>1. ASSUME NEW i \in 0..(SIZE - 1), read_done <= i, i < write_done + wbytes
        PROVE  mem[i % MAX] = i + 1
    <3>1. CASE i < write_done BY <3>1, <2>1 DEF UnreadIntact
    <3>2. CASE ~(i < write_done)
      <4>1. write_done <= i /\ i < write_done + wcopied BY <3>2, <2>1, <1>1
      <4>2. wpc = "finishStore" BY DEF WFinishStore
      <4> QED BY <4>1, <4>2, <2>1 DEF CopiedInPlace
    <3> QED BY <3>1, <3>2
  <2> QED BY <2>1, <1>1, <1>2, <1>3 DEF UnreadIntact, rvars
<1>6. WInv' /\ CopiedInPlace'
  BY <1>1, <1>2, <1>3 DEF WInv, CopiedInPlace, rvars
<1>7. RInv' BY <1>1, <1>2, <1>3 DEF RInv, TypeOK, rvars
<1>8. GInv'
  <2> SUFFICES ASSUME Greedy PROVE GInv' BY Zenon DEF GInv
  <2>1. /\ wbytes = MAX /\ read_done = write_done
        /\ \E k \in Nat : read_done = k * MAX
        /\ \E k \in Nat : write_done = k * MAX
    BY Zenon DEF GInv, WFinishStore
  <2>2. \E k \in Nat : write_done + MAX = k * MAX BY <2>1, GreedySum
  <2>3. rpc \notin {"copy", "finish", "finishWrite", "finishStore"}
    BY <2>1, <1>1 DEF RInv, TypeOK
  <2> QED BY <2>1, <2>2, <2>3, <1>2, <1>3 DEF GInv, rvars
<1> QED BY <1>4, <1>5, <1>6, <1>7, <1>8

\* The reader's loads and tests; finish_read's two tests pass.
LEMMA RControl ==
  ASSUME IInv,
         RStartLoadRead \/ RFinishLoadRead \/ RFinishLoadWrite \/ RDone
  PROVE  IInv'
<1> USE MaxPos DEF IInv
<1>1. UNCHANGED <<read_done, raddr, rbytes, rcopied, total_read, read_buf, wvars>>
  BY DEF RStartLoadRead, RFinishLoadRead, RFinishLoadWrite, RDone
<1>2. TypeOK'
  BY <1>1 DEF RStartLoadRead, RFinishLoadRead, RFinishLoadWrite, RDone,
              TypeOK, WPcs, RPcs, wvars
<1>3. UnreadIntact' /\ WInv' /\ CopiedInPlace'
  BY <1>1 DEF UnreadIntact, WInv, CopiedInPlace, wvars
<1>4. RInv'
  BY <1>1 DEF RStartLoadRead, RFinishLoadRead, RFinishLoadWrite, RDone,
              TypeOK, UnreadIntact, RInv, wvars, Sub64
<1>5. GInv'
  BY <1>1 DEF RStartLoadRead, RFinishLoadRead, RFinishLoadWrite, RDone,
              GInv, wvars
<1> QED BY <1>2, <1>3, <1>4, <1>5

\* The unparenthesised macro still yields an offset inside the first mapping.
LEMMA ReadOffsetRange ==
  ASSUME NEW r \in Nat
  PROVE  /\ ReadOffset(r) \in 0..(MAX - 1)
         /\ (\E k \in Nat : r = k * MAX) => ReadOffset(r) = 0
<1> USE StreamAssumption
<1>1. PICK m \in 0..(USR_RINGBUF_SIZE - 1) : m = r % USR_RINGBUF_SIZE BY ModDef
<1>2. m * PGSIZE \in 0..(USR_RINGBUF_SIZE * PGSIZE - 1)
  <2>1. PICK d \in Nat : d = USR_RINGBUF_SIZE - (m + 1)
    <3>1. USR_RINGBUF_SIZE - (m + 1) \in Nat BY <1>1
    <3> QED BY <3>1
  <2>4. USR_RINGBUF_SIZE = m + 1 + d BY <2>1
  <2>2. (m + 1 + d) * PGSIZE = m * PGSIZE + PGSIZE + d * PGSIZE BY Z3
  <2>3. m * PGSIZE \in Nat /\ d * PGSIZE \in Nat BY Z3
  <2> QED BY <2>2, <2>3, <2>4
<1>3. ASSUME NEW k \in Nat, r = k * MAX PROVE m = 0
  <2>1. PICK j \in Nat : j = k * PGSIZE BY Z3
  <2>2. r = j * USR_RINGBUF_SIZE BY <1>3, <2>1, Z3 DEF MAX
  <2>3. (j * USR_RINGBUF_SIZE) % USR_RINGBUF_SIZE = 0 BY MultipleMod
  <2> QED BY <2>2, <2>3, <1>1
<1>4. 0 * PGSIZE = 0 BY Z3
<1> QED BY <1>1, <1>2, <1>3, <1>4 DEF ReadOffset, MAX

\* start_read offers what is published.
LEMMA ROffer ==
  ASSUME IInv, RStartLoadWrite
  PROVE  IInv'
<1> USE MaxPos DEF IInv
<1> DEFINE avail == write_done - read_done
<1>1. /\ write_done \in 0..SIZE /\ read_done \in 0..SIZE /\ rread = read_done
      /\ read_done <= write_done /\ write_done <= read_done + MAX
      /\ total_read = read_done
  BY DEF RStartLoadWrite, TypeOK, UnreadIntact, RInv
<1>2. avail \in 0..MAX BY <1>1
<1>3. ToInt(Sub64(write_done, rread)) = avail
  BY <1>1, <1>2 DEF ToInt, Sub64
<1> HIDE DEF avail
<1>4. raddr' = ReadOffset(read_done) /\ raddr' \in 0..(MAX - 1)
  BY <1>1, ReadOffsetRange DEF RStartLoadWrite
<1>5. UNCHANGED <<read_done, rread, rwrite, total_read, read_buf, wvars>>
  BY DEF RStartLoadWrite
<1>6. UnreadIntact' /\ WInv' /\ CopiedInPlace'
  BY <1>5 DEF UnreadIntact, WInv, CopiedInPlace, wvars
<1>7. CASE avail = 0
  <2>1. rpc' = "start" /\ UNCHANGED <<rbytes, rcopied>>
    BY <1>3, <1>7 DEF RStartLoadWrite
  <2>2. TypeOK' /\ RInv' /\ GInv'
    BY <1>1, <1>4, <1>5, <2>1 DEF TypeOK, RInv, GInv, RPcs, WPcs, wvars
  <2> QED BY <2>2, <1>6
<1>8. CASE avail # 0
  <2>1. rpc' = "copy" /\ rcopied' = 0 /\ rbytes' \in Chunks(avail, SIZE - read_done)
    BY <1>1, <1>2, <1>3, <1>8 DEF RStartLoadWrite
  <2>2. PICK n : n \in Chunks(avail, SIZE - read_done) /\ rbytes' = n BY <2>1
  <2>3. n \in 1..MAX /\ n <= avail
    <3>1. CASE Greedy
      <4>1. n = avail BY <2>2, <3>1, Zenon DEF Chunks
      <4> QED BY <4>1, <1>2, <1>8
    <3>2. CASE ~Greedy
      <4>1. n \in {c \in 1..SIZE : c <= avail /\ c <= SIZE - read_done}
        BY <2>2, <3>2, Zenon DEF Chunks
      <4> QED BY <4>1, <1>1, <1>2
    <3> QED BY <3>1, <3>2
  <2>4. read_done + n <= write_done BY <1>1, <2>3 DEF avail
  <2>5. TypeOK'
    BY <1>1, <1>4, <1>5, <2>1, <2>2, <2>3 DEF TypeOK, RPcs, WPcs, wvars
  <2>6. RInv'
    BY <1>1, <1>5, <2>1, <2>2, <2>3, <2>4 DEF RInv, wvars
  <2>7. GInv'
    <3> SUFFICES ASSUME Greedy PROVE GInv' BY Zenon DEF GInv
    <3>1. n = avail BY <2>2, Zenon DEF Chunks
    <3>2. /\ \E k \in Nat : read_done = k * MAX
          /\ \E k \in Nat : write_done = k * MAX
      BY Zenon DEF GInv
    <3>3. read_done < write_done BY <1>1, <1>8 DEF avail
    <3>4. write_done = read_done + MAX BY <1>1, <3>2, <3>3, GreedyGap
    <3>5. raddr' = 0 BY <1>1, <1>4, <3>2, ReadOffsetRange
    <3>6. n = MAX BY <3>1, <3>4, <1>1 DEF avail
    <3> QED BY <1>5, <2>1, <2>2, <3>4, <3>5, <3>6 DEF GInv, wvars
  <2> QED BY <2>5, <2>6, <2>7, <1>6
<1> QED BY <1>7, <1>8

\* memcpy out of the ring changes read_buf only.
LEMMA RCopyStep ==
  ASSUME IInv, RCopy
  PROVE  IInv'
<1> USE MaxPos DEF IInv
<1>1. /\ read_done \in Nat /\ write_done \in 0..SIZE /\ rbytes \in 1..MAX
      /\ rcopied \in Nat /\ rcopied < rbytes /\ total_read = read_done
      /\ read_done + rbytes <= write_done
  BY DEF RCopy, TypeOK, RInv
<1>2. UNCHANGED <<read_done, rread, rwrite, raddr, rbytes, wvars>>
  BY DEF RCopy
<1>3. TypeOK'
  <2>1. PICK a \in Nat : a = raddr + rcopied BY <1>1 DEF TypeOK
  <2>2. a % MAX \in 0..(MAX - 1) BY ModDef
  <2>3. mem[a % MAX] \in 0..SIZE BY <2>2 DEF TypeOK
  <2>4. read_buf' \in [0..(SIZE - 1) -> 0..SIZE]
    BY <2>1, <2>3 DEF RCopy, TypeOK
  <2>5. rcopied' \in 0..MAX /\ total_read' \in 0..SIZE /\ rpc' \in RPcs
    BY <1>1 DEF RCopy, RPcs, WPcs
  <2> QED BY <2>4, <2>5, <1>2 DEF TypeOK, wvars
<1>4. UnreadIntact' /\ WInv' /\ CopiedInPlace'
  BY <1>2 DEF UnreadIntact, WInv, CopiedInPlace, wvars
<1>5. RInv' BY <1>1, <1>2 DEF RCopy, RInv, wvars
<1>6. GInv' BY <1>2 DEF RCopy, GInv, wvars
<1> QED BY <1>3, <1>4, <1>5, <1>6

\* Releasing a chunk only frees published bytes.
LEMMA RStoreStep ==
  ASSUME IInv, RFinishStore
  PROVE  IInv'
<1> USE MaxPos DEF IInv
<1>1. /\ read_done \in Nat /\ write_done \in 0..SIZE /\ rbytes \in 1..MAX
      /\ rread = read_done /\ total_read = read_done + rbytes
      /\ read_done + rbytes <= write_done /\ write_done <= read_done + MAX
  BY DEF RFinishStore, TypeOK, RInv, UnreadIntact
<1>2. read_done' = read_done + rbytes /\ rpc' = "start"
  BY <1>1 DEF RFinishStore, Add64
<1>3. UNCHANGED <<rread, rwrite, raddr, rbytes, rcopied, total_read, read_buf, wvars>>
  BY DEF RFinishStore
<1>4. TypeOK' BY <1>1, <1>2, <1>3 DEF TypeOK, WPcs, RPcs, wvars
<1>5. UnreadIntact'
  <2>1. /\ read_done' <= write_done' /\ write_done' <= read_done' + MAX
        /\ \A i \in 0..(SIZE - 1) : read_done' <= i => read_done <= i
    BY <1>1, <1>2, <1>3 DEF wvars
  <2>2. write_done' = write_done /\ mem' = mem BY <1>3 DEF wvars
  <2> QED BY <2>1, <2>2, Zenon DEF UnreadIntact
<1>6. WInv' BY <1>1, <1>2, <1>3 DEF WInv, TypeOK, wvars
<1>7. CopiedInPlace' BY <1>3 DEF CopiedInPlace, wvars
<1>8. RInv' BY <1>1, <1>2, <1>3 DEF RInv, wvars
<1>9. GInv'
  <2> SUFFICES ASSUME Greedy PROVE GInv' BY Zenon DEF GInv
  <2>1. /\ rbytes = MAX /\ write_done = read_done + MAX
        /\ \E k \in Nat : read_done = k * MAX
        /\ \E k \in Nat : write_done = k * MAX
        /\ wpc = "startWrite" => \E k \in Nat : wread = k * MAX
    BY Zenon DEF GInv, RFinishStore
  <2>2. wpc \notin {"copy", "finish", "finishWrite", "finishStore"}
    BY <2>1, <1>1 DEF WInv, TypeOK
  <2> QED BY <2>1, <2>2, <1>1, <1>2, <1>3 DEF GInv, wvars
<1> QED BY <1>4, <1>5, <1>6, <1>7, <1>8, <1>9

\* Every load, store and byte copy of either process preserves the invariant.
LEMMA NextIInv == IInv /\ [StreamNext]_vars => IInv'
<1> SUFFICES ASSUME IInv, [StreamNext]_vars PROVE IInv' OBVIOUS
<1>1. CASE Writer
  BY <1>1, WControl, WOffer, WCopyStep, WStoreStep DEF Writer
<1>2. CASE Reader
  BY <1>2, RControl, ROffer, RCopyStep, RStoreStep DEF Reader
<1>3. CASE Finished \/ UNCHANGED vars
  <2>1. UNCHANGED vars BY <1>3 DEF Finished
  <2>2. TypeOK' BY <2>1 DEF vars, wvars, rvars, IInv, TypeOK
  <2>3. UnreadIntact' BY <2>1 DEF vars, wvars, rvars, IInv, UnreadIntact
  <2>4. WInv' BY <2>1 DEF vars, wvars, rvars, IInv, WInv
  <2>5. CopiedInPlace' BY <2>1 DEF vars, wvars, rvars, IInv, CopiedInPlace
  <2>6. RInv' BY <2>1 DEF vars, wvars, rvars, IInv, RInv
  <2>7. GInv' BY <2>1 DEF vars, wvars, rvars, IInv, GInv
  <2> QED
    BY <2>2, <2>3, <2>4, <2>5, <2>6, <2>7 DEF IInv
<1> QED BY <1>1, <1>2, <1>3 DEF StreamNext

\* Every state of the protocol satisfies the inductive invariant.
THEOREM StreamInvariance == StreamSpec => []IInv
BY InitIInv, NextIInv, PTL DEF StreamSpec

\* For every ring size and every choice of chunks, the variables keep their
\* types: the counters of the book never pass the transfer's length.
THEOREM StreamTypeOK == StreamSpec => []TypeOK
<1>1. IInv => TypeOK BY DEF IInv
<1> QED BY <1>1, StreamInvariance, PTL

\* For every ring size and every choice of chunks, start_write never leads
\* the writer to overwrite a byte the reader has not released.
THEOREM StreamUnreadIntact == StreamSpec => []UnreadIntact
<1>1. IInv => UnreadIntact BY DEF IInv
<1> QED BY <1>1, StreamInvariance, PTL

\* For every ring size and every choice of chunks, finish_read and
\* finish_write accept every chunk their start call offered.
THEOREM StreamTotalsAgree == StreamSpec => []TotalsAgreeWithBook
<1>1. IInv => TotalsAgreeWithBook
  BY DEF IInv, WInv, RInv, TotalsAgreeWithBook
<1> QED BY <1>1, StreamInvariance, PTL

\* With rb.c's loops the two unlocked memcpys never overlap.
THEOREM StreamNoCopyRace == ASSUME Greedy PROVE StreamSpec => []NoCopyRace
<1>1. IInv => NoCopyRace
  <2> SUFFICES ASSUME IInv, wpc = "copy", rpc = "copy" PROVE FALSE
    BY Zenon DEF NoCopyRace
  <2>1. read_done = write_done /\ write_done = read_done + MAX
    BY Zenon DEF IInv, GInv
  <2> QED BY <2>1, MaxPos DEF IInv, TypeOK
<1> QED BY <1>1, StreamInvariance, PTL

\* The byte memcpy takes out of the ring is the stream's next byte: a greedy
\* reader's offset 0 is the slot of read_done.
LEMMA RCopyDelivers ==
  ASSUME Greedy, IInv, Delivered, RCopy
  PROVE  Delivered'
<1> USE MaxPos DEF IInv
<1>1. /\ read_done \in Nat /\ write_done \in 0..SIZE /\ rbytes \in 1..MAX
      /\ rcopied \in Nat /\ rcopied < rbytes /\ total_read = read_done
      /\ read_done + rbytes <= write_done
  BY DEF RCopy, TypeOK, RInv
<1>2. PICK p \in 0..(SIZE - 1) : p = total_read + rcopied BY <1>1
<1>3. mem[(raddr + rcopied) % MAX] = p + 1
  <2>1. raddr = 0 /\ \E k \in Nat : read_done = k * MAX
    BY Zenon DEF GInv, RCopy
  <2>2. read_done % MAX = 0 BY <2>1, MultipleMod
  <2>3. ((read_done % MAX) + rcopied) % MAX = (read_done + rcopied) % MAX
    BY <1>1, ModShift
  <2>4. (raddr + rcopied) % MAX = p % MAX BY <2>1, <2>2, <2>3, <1>1, <1>2
  <2>5. read_done <= p /\ p < write_done BY <1>1, <1>2
  <2>6. mem[p % MAX] = p + 1 BY <2>5 DEF UnreadIntact
  <2> QED BY <2>4, <2>6
<1>4. read_buf' = [read_buf EXCEPT ![p] = p + 1] BY <1>2, <1>3 DEF RCopy
<1>5. read_buf \in [0..(SIZE - 1) -> 0..SIZE] BY DEF TypeOK
<1>6. total_read' + (IF rpc' = "copy" THEN rcopied' ELSE 0) = p + 1
  BY <1>1, <1>2 DEF RCopy
<1>7. ASSUME NEW i \in 0..(SIZE - 1), i < p + 1
      PROVE  read_buf'[i] = i + 1
  <2>1. CASE i = p BY <2>1, <1>4, <1>5
  <2>2. CASE i # p
    <3>1. i < total_read + rcopied BY <2>2, <1>7, <1>2
    <3>2. read_buf[i] = i + 1 BY <3>1 DEF Delivered, RCopy
    <3> QED BY <3>2, <2>2, <1>4, <1>5
  <2> QED BY <2>1, <2>2
<1> QED BY <1>6, <1>7, Zenon DEF Delivered

\* No other step changes what was read or how much.
LEMMA OthersDeliver ==
  ASSUME IInv, Delivered, [StreamNext]_vars, ~RCopy
  PROVE  Delivered'
<1> DEFINE count == total_read + (IF rpc = "copy" THEN rcopied ELSE 0)
<1>1. read_buf' = read_buf /\ total_read' = total_read
  BY DEF StreamNext, Writer, Reader, Finished, vars, wvars, rvars,
         WStartLoadRead, WStartLoadWrite, WCopy, WFinishLoadRead,
         WFinishLoadWrite, WFinishStore, WDone,
         RStartLoadRead, RStartLoadWrite, RFinishLoadRead,
         RFinishLoadWrite, RFinishStore, RDone
<1>2. \/ rpc' = rpc /\ rcopied' = rcopied
      \/ rpc # "copy" /\ rpc' # "copy"
      \/ rpc # "copy" /\ rpc' = "copy" /\ rcopied' = 0
  BY DEF StreamNext, Writer, Reader, Finished, vars, wvars, rvars,
         WStartLoadRead, WStartLoadWrite, WCopy, WFinishLoadRead,
         WFinishLoadWrite, WFinishStore, WDone,
         RStartLoadRead, RStartLoadWrite, RFinishLoadRead,
         RFinishLoadWrite, RFinishStore, RDone
<1>3. count' = count BY <1>1, <1>2
<1> QED BY <1>1, <1>3, Zenon DEF Delivered

\* With rb.c's loops, for every ring size and transfer length, read_buf holds
\* the stream's bytes in order: the goal rb.c states.
THEOREM StreamDelivered == ASSUME Greedy PROVE StreamSpec => []Delivered
<1>1. StreamInit => Delivered
  BY MaxPos DEF StreamInit, Delivered
<1>2. IInv /\ Delivered /\ [StreamNext]_vars => Delivered'
  BY RCopyDelivers, OthersDeliver
<1> QED BY <1>1, <1>2, StreamInvariance, PTL DEF StreamSpec
=============================================================================
