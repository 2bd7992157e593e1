------------------------- MODULE RingbufKernelProof -------------------------
(***************************************************************************)
(* Proof that, whatever the clients do, no page of a ring in use is free,  *)
(* another ring's or a page table (RingsOwnTheirPages), for every number   *)
(* of processes, names, registry entries, buffer and memory pages, the     *)
(* empty name and opens that run out of memory included.                   *)
(*                                                                         *)
(* The inductive invariant Owned adds to the property that page tables own *)
(* their pages too, since freeing one at exit must not free another's      *)
(* page, and the types of the registry, the tables and the free list.      *)
(* There are three kinds of step: pages move from the free list to a ring  *)
(* and a page table, an entry gives its pages back and is in use no more,  *)
(* a page table gives its pages back.  That kalloc has the pages an open   *)
(* takes is lemma Ranked.                                                  *)
(***************************************************************************)
EXTENDS RingbufKernel, LeastElement

AnyName == Names \cup LongNames \cup {""}
Rings == [refcount : Int, name : AnyName, buf : [0..(RINGBUF_SIZE - 1) -> Int], book : Int]
TableRecs == [ids : SUBSET (Nat \X Nat), pages : SUBSET (1..PPages)]

Owned ==
    /\ ringbufs \in [Slots -> Rings]
    /\ tables \in [Procs -> TableRecs]
    /\ freelist \subseteq 1..PPages
    /\ \A s \in InUse : PagesOf(s) \subseteq 1..PPages
    /\ \A s \in InUse : PagesOf(s) \cap freelist = {}
    /\ \A s, t \in InUse : s # t => PagesOf(s) \cap PagesOf(t) = {}
    /\ \A s \in InUse, p \in Procs : PagesOf(s) \cap tables[p].pages = {}
    /\ \A p \in Procs : tables[p].pages \cap freelist = {}
    /\ \A p, q \in Procs : p # q => tables[p].pages \cap tables[q].pages = {}

OwnInv == panic # "append_no_table" => Owned

\* The pages of a ring.
RingPages(rb) == {rb.book} \cup {rb.buf[i] : i \in 0..(RINGBUF_SIZE - 1)}

\* Pages A of the free list go to entry t, which may keep some of its own, and
\* pages B to the page table of process q.
LEMMA MoveKeeps ==
    ASSUME Owned, NEW t, NEW q, NEW A, NEW B,
           A \subseteq freelist, B \subseteq freelist, A \cap B = {},
           ringbufs' \in [Slots -> Rings], tables' \in [Procs -> TableRecs],
           freelist' \subseteq freelist \ (A \cup B),
           \A s \in InUse' : s # t => s \in InUse /\ PagesOf(s)' = PagesOf(s),
           t \in InUse' => \A x \in PagesOf(t)' : x \in A \/ (t \in InUse /\ x \in PagesOf(t)),
           \A p \in Procs : p # q => tables'[p].pages = tables[p].pages,
           q \in Procs => tables'[q].pages \subseteq tables[q].pages \cup B
    PROVE  Owned'
<1>1. \A s \in InUse' : \A x \in PagesOf(s)' :
          (s = t /\ x \in A) \/ (s \in InUse /\ x \in PagesOf(s))
  OBVIOUS
<1>2. \A p \in Procs : \A x \in tables'[p].pages :
          (p = q /\ x \in B) \/ x \in tables[p].pages
  OBVIOUS
<1>3. freelist' \subseteq 1..PPages /\ \A s \in InUse' : PagesOf(s)' \subseteq 1..PPages
  BY <1>1 DEF Owned
<1>4. \A s \in InUse' : PagesOf(s)' \cap freelist' = {}
  BY <1>1 DEF Owned
<1>5. \A r, s \in InUse' : r # s => PagesOf(r)' \cap PagesOf(s)' = {}
  BY <1>1 DEF Owned
<1>6. \A s \in InUse', p \in Procs : PagesOf(s)' \cap tables'[p].pages = {}
  <2> SUFFICES ASSUME NEW s \in InUse', NEW p \in Procs,
                      NEW x \in PagesOf(s)', x \in tables'[p].pages
               PROVE  FALSE
    OBVIOUS
  <2>1. (s = t /\ x \in A) \/ (s \in InUse /\ x \in PagesOf(s))
    BY <1>1
  <2>2. (p = q /\ x \in B) \/ x \in tables[p].pages
    BY <1>2
  <2>3. s \in InUse => PagesOf(s) \cap freelist = {} /\ PagesOf(s) \cap tables[p].pages = {}
    BY DEF Owned
  <2>4. tables[p].pages \cap freelist = {}
    BY DEF Owned
  <2> QED
    BY <2>1, <2>2, <2>3, <2>4
<1>7. \A p \in Procs : tables'[p].pages \cap freelist' = {}
  BY <1>2 DEF Owned
<1>8. \A p, r \in Procs : p # r => tables'[p].pages \cap tables'[r].pages = {}
  BY <1>2 DEF Owned
<1> QED
  BY <1>3, <1>4, <1>5, <1>6, <1>7, <1>8 DEF Owned

\* No page moves, but entries may fall out of use.
LEMMA QuietKeeps ==
    ASSUME Owned, ringbufs' \in [Slots -> Rings], UNCHANGED <<tables, freelist>>,
           \A s \in Slots :
               /\ ringbufs'[s].buf = ringbufs[s].buf /\ ringbufs'[s].book = ringbufs[s].book
               /\ s \in InUse' => s \in InUse
    PROVE  Owned'
<1>1. \A s \in InUse' : s \in InUse /\ PagesOf(s)' = PagesOf(s)
  BY DEF InUse, PagesOf
<1> QED
  BY <1>1 DEF Owned

\* An entry in use gives its pages back and is in use no more.
LEMMA FreeKeeps ==
    ASSUME Owned, NEW t \in InUse, t \notin InUse',
           ringbufs' \in [Slots -> Rings],
           \A s \in Slots \ {t} : ringbufs'[s] = ringbufs[s],
           freelist' = freelist \cup PagesOf(t), tables' = tables
    PROVE  Owned'
<1>1. \A s \in InUse' : s \in InUse /\ s # t /\ PagesOf(s)' = PagesOf(s)
  BY DEF InUse, PagesOf
<1> QED
  BY <1>1 DEF Owned

\* A process's page tables are freed.
LEMMA TablesKeep ==
    ASSUME Owned, NEW q \in Procs, ringbufs' = ringbufs,
           freelist' = freelist \cup tables[q].pages,
           tables' = [tables EXCEPT ![q] = NoTables], NoTables \in TableRecs, NoTables.pages = {}
    PROVE  Owned'
<1>1. InUse' = InUse /\ \A s \in InUse : PagesOf(s)' = PagesOf(s)
  BY DEF InUse, PagesOf
<1>2. tables' \in [Procs -> TableRecs]
  BY DEF Owned
<1>3. tables'[q].pages = {} /\ \A p \in Procs : p # q => tables'[p].pages = tables[p].pages
  BY DEF Owned
<1>4. tables[q].pages \subseteq 1..PPages
  BY DEF Owned, TableRecs
<1>5. \A s \in InUse : PagesOf(s)' \cap freelist' = {}
  BY <1>1 DEF Owned
<1>6. \A s \in InUse, p \in Procs : PagesOf(s)' \cap tables'[p].pages = {}
  BY <1>1, <1>3 DEF Owned
<1>7. \A p \in Procs : tables'[p].pages \cap freelist' = {}
  BY <1>3 DEF Owned
<1>8. \A p, r \in Procs : p # r => tables'[p].pages \cap tables'[r].pages = {}
  BY <1>3 DEF Owned
<1>9. freelist' \subseteq 1..PPages
  BY <1>4 DEF Owned
<1>10. \A s \in InUse : PagesOf(s)' \subseteq 1..PPages
  BY <1>1 DEF Owned
<1>11. \A r, s \in InUse : r # s => PagesOf(r)' \cap PagesOf(s)' = {}
  BY <1>1 DEF Owned
<1>12. ringbufs' \in [Slots -> Rings]
  BY DEF Owned
<1> QED
  BY <1>1, <1>2, <1>5, <1>6, <1>7, <1>8, <1>9, <1>10, <1>11, <1>12 DEF Owned

-----------------------------------------------------------------------------
\* A quotient of naturals is one.
LEMMA DivNat ==
    ASSUME NEW a \in Nat, NEW c \in Nat \ {0}
    PROVE  a \div c \in Nat /\ c * c \in Nat \ {0}
<1>1. a \div c \in Nat
  BY Z3
<1>2. c * c \in Nat \ {0}
  BY Z3
<1> QED
  BY <1>1, <1>2

\* The tables of a page are pairs of numbers, and there are two of them.
LEMMA TablesType ==
    ASSUME NEW d \in Int, d >= -2
    PROVE  TablesOf(d) \subseteq Nat \X Nat /\ IsFiniteSet(TablesOf(d))
<1>0. PTES \in Nat \ {0}
  BY KernelAssumption
<1>1. d + 2 \in Nat /\ PTES \in Nat \ {0}
  BY <1>0
<1>2. (d + 2) \div PTES \in Nat /\ PTES * PTES \in Nat \ {0}
  BY <1>1, DivNat
<1> DEFINE c == PTES * PTES
<1> HIDE DEF c
<1>3. (d + 2) \div c \in Nat
  BY <1>1, <1>2, DivNat DEF c
<1> DEFINE x == <<0, (d + 2) \div PTES>>
           y == <<1, (d + 2) \div c>>
<1>4. x \in Nat \X Nat /\ y \in Nat \X Nat
  BY <1>2, <1>3
<1>5. TablesOf(d) = {x} \cup {y}
  BY DEF TablesOf, c
<1> HIDE DEF x, y
<1>6. IsFiniteSet({x} \cup {y})
  BY FS_Singleton, FS_AddElement
<1> QED
  BY <1>4, <1>5, <1>6

\* walk adds finitely many tables.
LEMMA NewTablesType ==
    ASSUME NEW p, NEW top \in Nat, NEW j \in Int
    PROVE  /\ NewTables(p, top, j) \subseteq Nat \X Nat
           /\ Cardinality(NewTables(p, top, j)) \in Nat
<1> DEFINE D == top..(top + j)
           T == {TablesOf(d) : d \in D}
           f == [d \in D |-> TablesOf(d)]
<1>1. \A d \in D : d \in Int /\ d >= -2
  OBVIOUS
<1>7. NewTables(p, top, j) = (UNION T) \ tables[p].ids
  BY DEF NewTables
<1>2. \A d \in D : TablesOf(d) \subseteq Nat \X Nat /\ IsFiniteSet(TablesOf(d))
  BY <1>1, TablesType
<1>3. IsFiniteSet(D)
  BY FS_Interval
<1> HIDE DEF D
<1>4. f \in Surjection(D, T)
  BY DEF Surjection
<1> HIDE DEF f
<1>5. IsFiniteSet(T)
  BY <1>3, <1>4, FS_Surjection
<1>6. \A S \in T : IsFiniteSet(S) /\ S \subseteq Nat \X Nat
  BY <1>2
<1> HIDE DEF T
<1>8. IsFiniteSet(UNION T) /\ UNION T \subseteq Nat \X Nat
  BY <1>5, <1>6, FS_UNION
<1>9. IsFiniteSet((UNION T) \ tables[p].ids)
  BY <1>8, FS_Subset
<1> QED
  BY <1>7, <1>8, <1>9, FS_CardinalityType

\* A new page table has the tables of the trampoline and the trapframe.
LEMMA NoTablesType == NoTables \in TableRecs /\ NoTables.pages = {}
<1>1. TablesOf(-2) \subseteq Nat \X Nat /\ TablesOf(-1) \subseteq Nat \X Nat
  BY TablesType
<1> QED
  BY <1>1 DEF NoTables, TableRecs

-----------------------------------------------------------------------------
\* The constants' types, free of the rest of the assumption.
LEMMA Sizes == RINGBUF_SIZE \in Nat \ {0} /\ MAX_RINGBUFS \in Nat \ {0} /\ PPages \in Nat /\ VPages \in Nat
  BY KernelAssumption

\* The entry of a name, when there is one, has that name.
LEMMA SlotFound ==
    ASSUME NEW name
    PROVE  /\ SlotOf(name) # -1 => SlotOf(name) \in Slots /\ ringbufs[SlotOf(name)].name = name
           /\ SlotOf(name) = -1 => \A s \in Slots : ringbufs[s].name # name
<1> DEFINE S == {s \in Slots : ringbufs[s].name = name}
<1>1. S \subseteq Nat
  BY Sizes DEF Slots
<1>2. SlotOf(name) = IF S = {} THEN -1 ELSE Min(S)
  BY DEF SlotOf
<1>3. S # {} => Min(S) \in S
  BY <1>1, MinIn
<1>4. -1 \notin S
  BY <1>1
<1> QED
  BY <1>2, <1>3, <1>4

\* The number of named entries is a number.
LEMMA IndexIsNat == get_ringbuf_index \in Nat
<1>1. IsFiniteSet(Slots)
  BY Sizes, FS_Interval DEF Slots
<1> QED
  BY <1>1, FS_Subset, FS_CardinalityType DEF get_ringbuf_index

\* The entry that create_ringbuf fills exists, when the registry is not full.
LEMMA IndexIsSlot == get_ringbuf_index < MAX_RINGBUFS => get_ringbuf_index \in Slots
  BY Sizes, IndexIsNat DEF Slots

\* The free list is finite.
LEMMA FreeIsNat == Owned => Cardinality(freelist) \in Nat
<1>1. IsFiniteSet(1..PPages)
  BY Sizes, FS_Interval
<1> QED
  BY <1>1, FS_Subset, FS_CardinalityType DEF Owned

\* What kalloc hands out was free.
LEMMA TakenIsFree ==
    ASSUME Owned, NEW n \in Nat, n =< Cardinality(freelist)
    PROVE  Taken(n) \subseteq freelist /\ \A i \in 0..(n - 1) : KallocPage(i) \in freelist
<1>1. freelist \subseteq 0..PPages
  BY Sizes DEF Owned
<1>2. ASSUME NEW i \in 0..(n - 1) PROVE KallocPage(i) \in freelist
  <2>1. i \in Nat /\ i < Cardinality(freelist)
    BY FreeIsNat
  <2>2. \E x \in freelist : Cardinality(Smaller(freelist, x)) = i
    BY <1>1, <2>1, Sizes, Ranked
  <2> QED
    BY <2>2 DEF KallocPage, Smaller
<1> QED
  BY <1>2 DEF Taken

\* More calls of kalloc take more pages.
LEMMA TakenGrows ==
    ASSUME NEW m \in Nat, NEW n \in Nat, m =< n
    PROVE  Taken(m) \subseteq Taken(n)
<1>1. 0..(m - 1) \subseteq 0..(n - 1)
  OBVIOUS
<1> QED
  BY <1>1, Zenon DEF Taken

\* What a ring has after n calls of kalloc: pages that were free, and its own.
LEMMA BackedType ==
    ASSUME Owned, NEW rb \in Rings, NEW n \in 0..(RINGBUF_SIZE + 1), n =< Cardinality(freelist)
    PROVE  /\ Backed(rb, n) \in Rings
           /\ Backed(rb, n).refcount = rb.refcount /\ Backed(rb, n).name = rb.name
           /\ \A x \in RingPages(Backed(rb, n)) :
                  x \in Taken(n) \/ (n # RINGBUF_SIZE + 1 /\ x \in RingPages(rb))
<1>0. n \in Nat /\ RINGBUF_SIZE \in Nat
  BY Sizes
<1>1. \A i \in 0..(n - 1) : KallocPage(i) \in freelist /\ KallocPage(i) \in Taken(n)
  BY <1>0, TakenIsFree DEF Taken
<1>2. \A x \in freelist : x \in Int
  BY DEF Owned
<1> DEFINE b == [i \in 0..(RINGBUF_SIZE - 1) |-> IF i < n THEN KallocPage(i) ELSE rb.buf[i]]
           k == IF RINGBUF_SIZE < n THEN KallocPage(RINGBUF_SIZE) ELSE rb.book
<1>3. rb.buf \in [0..(RINGBUF_SIZE - 1) -> Int] /\ rb.book \in Int /\ rb.refcount \in Int /\ rb.name \in AnyName
  BY DEF Rings
<1>4. \A i \in 0..(RINGBUF_SIZE - 1) :
          /\ i < n => i \in 0..(n - 1)
          /\ ~(i < n) => n # RINGBUF_SIZE + 1
  BY <1>0
<1>5. RINGBUF_SIZE < n => RINGBUF_SIZE \in 0..(n - 1)
  BY <1>0
<1>6. ~(RINGBUF_SIZE < n) => n # RINGBUF_SIZE + 1
  BY <1>0
<1>7. b \in [0..(RINGBUF_SIZE - 1) -> Int]
  BY <1>1, <1>2, <1>3, <1>4
<1>8. k \in Int
  BY <1>1, <1>2, <1>3, <1>5
<1>9. Backed(rb, n) = [refcount |-> rb.refcount, name |-> rb.name, buf |-> b, book |-> k]
  <2>1. rb = [refcount |-> rb.refcount, name |-> rb.name, buf |-> rb.buf, book |-> rb.book]
    BY DEF Rings
  <2> DEFINE r == [rb EXCEPT !.buf = b]
  <2> HIDE DEF b, k
  <2>2. r = [refcount |-> rb.refcount, name |-> rb.name, buf |-> b, book |-> rb.book]
    BY <2>1
  <2>3. Backed(rb, n) = [r EXCEPT !.book = k]
    BY <2>1 DEF Backed, b, k
  <2> HIDE DEF r
  <2> QED
    BY <2>2, <2>3
<1>10. \A i \in 0..(RINGBUF_SIZE - 1) :
           b[i] \in Taken(n) \/ (n # RINGBUF_SIZE + 1 /\ b[i] = rb.buf[i])
  BY <1>1, <1>4
<1>11. k \in Taken(n) \/ (n # RINGBUF_SIZE + 1 /\ k = rb.book)
  BY <1>1, <1>5, <1>6
<1> HIDE DEF b, k
<1>12. Backed(rb, n) \in Rings
  BY <1>3, <1>7, <1>8, <1>9 DEF Rings
<1>13. RingPages(Backed(rb, n)) = {k} \cup {b[i] : i \in 0..(RINGBUF_SIZE - 1)}
  BY <1>9 DEF RingPages
<1>14. \A x \in RingPages(Backed(rb, n)) :
                  x \in Taken(n) \/ (n # RINGBUF_SIZE + 1 /\ x \in RingPages(rb))
  BY <1>10, <1>11, <1>13 DEF RingPages
<1> QED
  BY <1>9, <1>12, <1>14

\* How many pages a ring asks for.
LEMMA NewPagesType ==
    ASSUME NEW rb \in Rings, NEW j \in -1..(2 * RINGBUF_SIZE)
    PROVE  /\ NewPages(rb, j) \in 0..(RINGBUF_SIZE + 1)
           /\ rb.refcount # 0 => NewPages(rb, j) = 0
           /\ rb.refcount = 0 /\ j = 2 * RINGBUF_SIZE => NewPages(rb, j) = RINGBUF_SIZE + 1
           /\ j >= 0 => NewPages(rb, j - 1) =< NewPages(rb, j)
<1>1. RINGBUF_SIZE \in Nat \ {0}
  BY Sizes
<1>2. CASE rb.refcount # 0
  BY <1>1, <1>2 DEF NewPages
<1>3. CASE rb.refcount = 0
  <2>1. \A i \in Int : i < RINGBUF_SIZE => NewPages(rb, i) = i + 1
    BY <1>1, <1>3 DEF NewPages
  <2>2. \A i \in Int : i \in RINGBUF_SIZE..(2 * RINGBUF_SIZE - 1) => NewPages(rb, i) = RINGBUF_SIZE
    BY <1>1, <1>3 DEF NewPages
  <2>3. NewPages(rb, 2 * RINGBUF_SIZE) = RINGBUF_SIZE + 1
    BY <1>1, <1>3 DEF NewPages
  <2>4. NewPages(rb, -1) = 0
    BY <1>1, <2>1
  <2> QED
    BY <1>1, <1>3, <2>1, <2>2, <2>3, <2>4
<1> QED
  BY <1>2, <1>3

\* All that an open asks for, in numbers.
LEMMA AskedType ==
    ASSUME NEW p, NEW rb \in Rings, NEW top \in Nat, NEW j \in -1..(2 * RINGBUF_SIZE)
    PROVE  Asked(p, rb, top, j) \in Nat /\ NewPages(rb, j) =< Asked(p, rb, top, j)
<1>1. Cardinality(NewTables(p, top, j)) \in Nat
  BY NewTablesType, Sizes
<1>2. NewPages(rb, j) \in Nat
  BY NewPagesType, Sizes
<1> QED
  BY <1>1, <1>2 DEF Asked

\* Before the page where the mapping stops there was memory for everything.
LEMMA StopsType ==
    ASSUME Owned, NEW p, NEW rb \in Rings, NEW top \in Nat
    PROVE  /\ StopsAt(p, rb, top) \in 0..(2 * RINGBUF_SIZE + 1)
           /\ \A j \in 0..(2 * RINGBUF_SIZE) :
                 j < StopsAt(p, rb, top) => Asked(p, rb, top, j) =< Cardinality(freelist)
<1> DEFINE S == {j \in 0..(2 * RINGBUF_SIZE) : \/ Asked(p, rb, top, j) > Cardinality(freelist)
                                               \/ pagetable[p][top + j] # 0}
           T == {2 * RINGBUF_SIZE + 1} \cup S
<1>1. T \subseteq 0..(2 * RINGBUF_SIZE + 1) /\ T # {}
  BY Sizes
<1>2. StopsAt(p, rb, top) = Min(T)
  BY DEF StopsAt
<1>3. \A j \in 0..(2 * RINGBUF_SIZE) : j \notin T => ~(Asked(p, rb, top, j) > Cardinality(freelist))
  OBVIOUS
<1> HIDE DEF T
<1>4. T \subseteq Nat
  BY <1>1, Sizes
<1>5. Min(T) \in T /\ \A y \in T : Min(T) =< y
  BY <1>1, <1>4, MinIn
<1>6. Min(T) \in 0..(2 * RINGBUF_SIZE + 1)
  BY <1>1, <1>5
<1>7. ASSUME NEW j \in 0..(2 * RINGBUF_SIZE), j < Min(T)
      PROVE  Asked(p, rb, top, j) =< Cardinality(freelist)
  <2>1. j \notin T
    BY <1>5, <1>6, <1>7, Sizes
  <2>2. Asked(p, rb, top, j) \in Nat
    BY AskedType, Sizes
  <2> QED
    BY <1>3, <2>1, <2>2, FreeIsNat
<1> QED
  BY <1>2, <1>6, <1>7

\* Which ring is mapped into which entry: the entry itself, or a new ring of a
\* name that the entry does not have.
Fits(t, rb) == \/ rb = ringbufs[t] /\ rb.refcount >= 0
               \/ rb.refcount = 0 /\ rb.name # ringbufs[t].name

\* An entry with holders is in use, and its pages are its own.
LEMMA FitsInUse ==
    ASSUME Owned, NEW t \in Slots, NEW rb \in Rings, Fits(t, rb), rb.refcount # 0
    PROVE  t \in InUse /\ RingPages(rb) = PagesOf(t)
<1>1. rb = ringbufs[t] /\ rb.refcount > 0
  BY DEF Fits, Rings
<1> QED
  BY <1>1 DEF InUse, RingPages, PagesOf

\* The whole ring is mapped.
LEMMA MapDoneKeeps ==
    ASSUME Owned, NEW p \in Procs, NEW t \in Slots, NEW rb \in Rings, NEW top \in Nat,
           Fits(t, rb), NEW last \in Int, last = 2 * RINGBUF_SIZE,
           Asked(p, rb, top, last) =< Cardinality(freelist),
           NEW ring, ring = Backed(rb, NewPages(rb, last)),
           ringbufs' = [ringbufs EXCEPT ![t] = OneMore(ring)],
           tables' = [tables EXCEPT ![p] =
                  [ids |-> @.ids \cup NewTables(p, top, last),
                   pages |-> @.pages \cup (Taken(Asked(p, rb, top, last))
                                            \ Taken(NewPages(rb, last)))]],
           freelist' = freelist \ Taken(Asked(p, rb, top, last))
    PROVE  Owned'
<1> DEFINE n == NewPages(rb, last)
           m == Asked(p, rb, top, last)
           A == Taken(n)
           B == Taken(m) \ Taken(n)
<1>0. last \in -1..(2 * RINGBUF_SIZE) /\ last \in Int
  BY Sizes
<1>1. n \in 0..(RINGBUF_SIZE + 1) /\ n \in Nat /\ m \in Nat /\ n =< m /\ m =< Cardinality(freelist) /\ n =< Cardinality(freelist)
  BY <1>0, NewPagesType, AskedType, FreeIsNat, Sizes
<1>2. rb.refcount # 0 \/ n = RINGBUF_SIZE + 1
  BY <1>0, NewPagesType
<1>3. NewTables(p, top, last) \subseteq Nat \X Nat
  BY <1>0, NewTablesType
<1> HIDE DEF n, m
<1>4. Taken(m) \subseteq freelist /\ Taken(n) \subseteq Taken(m)
  BY <1>1, TakenIsFree, TakenGrows
<1>5. /\ ring \in Rings
      /\ \A x \in RingPages(ring) : x \in A \/ (n # RINGBUF_SIZE + 1 /\ x \in RingPages(rb))
  BY <1>1, BackedType DEF n
<1>6. OneMore(ring) \in Rings /\ RingPages(OneMore(ring)) = RingPages(ring)
  BY <1>5 DEF OneMore, Rings, RingPages
<1>7. /\ ringbufs' \in [Slots -> Rings]
      /\ ringbufs'[t] = OneMore(ring) /\ \A s \in Slots : s # t => ringbufs'[s] = ringbufs[s]
  BY <1>6 DEF Owned
<1>8. \A s \in InUse' : s # t => s \in InUse /\ PagesOf(s)' = PagesOf(s)
  BY <1>7 DEF InUse, PagesOf
<1>9. PagesOf(t)' = RingPages(ring)
  BY <1>6, <1>7 DEF PagesOf, RingPages
<1>10. \A x \in PagesOf(t)' : x \in A \/ (t \in InUse /\ x \in PagesOf(t))
  BY <1>2, <1>5, <1>9, FitsInUse
<1> DEFINE new == [ids |-> tables[p].ids \cup NewTables(p, top, last), pages |-> tables[p].pages \cup B]
<1>11. tables' = [tables EXCEPT ![p] = new]
  BY DEF n, m
<1>12. tables[p] \in TableRecs /\ B \subseteq 1..PPages
  BY <1>4 DEF Owned
<1>13. new \in TableRecs
  BY <1>3, <1>12 DEF TableRecs
<1>14. new.pages = tables[p].pages \cup B
  OBVIOUS
<1> HIDE DEF new
<1>15. tables' \in [Procs -> TableRecs] /\ tables'[p] = new /\ \A q \in Procs : q # p => tables'[q] = tables[q]
  BY <1>11, <1>13 DEF Owned
<1>16. freelist' \subseteq freelist \ (A \cup B)
  BY <1>4 DEF m
<1>17. A \subseteq freelist /\ B \subseteq freelist /\ A \cap B = {}
  BY <1>4
<1> HIDE DEF A, B
<1>18. /\ \A q \in Procs : q # p => tables'[q].pages = tables[q].pages
       /\ tables'[p].pages \subseteq tables[p].pages \cup B
  BY <1>14, <1>15
<1>19. ringbufs' \in [Slots -> Rings] /\ tables' \in [Procs -> TableRecs]
  BY <1>7, <1>15
<1>20. t \in InUse' => \A x \in PagesOf(t)' : x \in A \/ (t \in InUse /\ x \in PagesOf(t))
  BY <1>10
<1>21. PICK a, b : a = A /\ b = B
  OBVIOUS
<1>22. /\ a \subseteq freelist /\ b \subseteq freelist /\ a \cap b = {}
       /\ freelist' \subseteq freelist \ (a \cup b)
       /\ t \in InUse' => \A x \in PagesOf(t)' : x \in a \/ (t \in InUse /\ x \in PagesOf(t))
       /\ p \in Procs => tables'[p].pages \subseteq tables[p].pages \cup b
  BY <1>16, <1>17, <1>18, <1>20, <1>21
<1> QED
  BY <1>8, <1>18, <1>19, <1>22, MoveKeeps, ZenonT(60)

\* The open stops at page at, in a panic, and has not freed a page of a ring.
LEMMA MapStopsKeeps ==
    ASSUME Owned, NEW p \in Procs, NEW t \in Slots, NEW rb \in Rings, NEW top \in Nat,
           Fits(t, rb), NEW at \in Int, at = StopsAt(p, rb, top), at =< 2 * RINGBUF_SIZE,
           MapStops(p, t, rb, top, at), panic' # "append_no_table"
    PROVE  Owned'
<1> DEFINE have == Cardinality(freelist)
           append == ringbufs[t].name = rb.name
           noPage == NewPages(rb, at) + Cardinality(NewTables(p, top, at - 1)) > have
           noTable == ~noPage /\ Asked(p, rb, top, at) > have
           j == IF noPage \/ at = 2 * RINGBUF_SIZE THEN at - 1 ELSE at
           n == NewPages(rb, j)
<1>1. at \in 0..(2 * RINGBUF_SIZE) /\ j \in -1..(2 * RINGBUF_SIZE) /\ at - 1 \in -1..(2 * RINGBUF_SIZE)
  BY StopsType, Sizes
<1>2. have \in Nat /\ Asked(p, rb, top, at) \in Nat /\ n \in 0..(RINGBUF_SIZE + 1) /\ n \in Nat
  BY <1>1, FreeIsNat, AskedType, NewPagesType, Sizes
<1>3. at = 0 => NewPages(rb, at - 1) = 0
  BY Sizes DEF NewPages, Rings
<1>4. NewPages(rb, at - 1) =< have
  <2>1. CASE at = 0
    BY <1>2, <1>3, <2>1
  <2>2. CASE at # 0
    <3>1. at - 1 \in 0..(2 * RINGBUF_SIZE) /\ at - 1 < at
      BY <1>1, <2>2, Sizes
    <3>2. Asked(p, rb, top, at - 1) =< have
      BY <3>1, StopsType
    <3>3. NewPages(rb, at - 1) \in Nat /\ Asked(p, rb, top, at - 1) \in Nat
      BY <1>1, AskedType, NewPagesType, Sizes
    <3> QED
      BY <1>1, <1>2, <3>2, <3>3, AskedType
  <2> QED
    BY <2>1, <2>2
<1>5. ~noPage /\ ~noTable => Asked(p, rb, top, at) =< have
  BY <1>2
<1>6. n =< Asked(p, rb, top, at)  \/ noPage
  <2>1. NewPages(rb, at) =< Asked(p, rb, top, at) /\ NewPages(rb, at - 1) =< NewPages(rb, at)
    BY <1>1, AskedType, NewPagesType
  <2>2. NewPages(rb, at) \in Nat /\ NewPages(rb, at - 1) \in Nat
    BY <1>1, NewPagesType, Sizes
  <2> QED
    BY <1>2, <2>1, <2>2
<1>7. /\ freelist' = (CASE noPage  -> {}
                       [] noTable -> {PageAt(rb, at)}
                       [] OTHER   -> freelist \ Taken(Asked(p, rb, top, at)))
      /\ ringbufs' = IF append THEN [ringbufs EXCEPT ![t] = Backed(rb, n)] ELSE ringbufs
      /\ tables' = tables
  BY DEF MapStops
<1>8. ~(noTable /\ append)
  BY DEF MapStops
<1>9. CASE noTable
  <2>1. rb.refcount = 0
    BY <1>8, <1>9 DEF Fits
  <2>2. ringbufs' = ringbufs /\ freelist' = {PageAt(rb, at)}
    BY <1>7, <1>8, <1>9
  <2> DEFINE k == NewPages(rb, at)
             ring == Backed(rb, k)
  <2>3. k \in 0..(RINGBUF_SIZE + 1) /\ k \in Nat /\ Cardinality(NewTables(p, top, at - 1)) \in Nat
    <3>1. k \in 0..(RINGBUF_SIZE + 1)
      BY <1>1, NewPagesType, Sizes
    <3>2. at - 1 \in Int
      OBVIOUS
    <3>3. Cardinality(NewTables(p, top, at - 1)) \in Nat
      BY <3>2, NewTablesType
    <3> HIDE DEF k
    <3> QED
      BY <3>1, <3>3, Sizes
  <2>4. k =< have
    BY <1>2, <1>9, <2>3
  <2>5. PageAt(rb, at) \in Taken(k)
    <3>0. RINGBUF_SIZE \in Nat \ {0}
      BY Sizes
    <3>1. CASE at = 2 * RINGBUF_SIZE
      <4>1. k = RINGBUF_SIZE + 1
        BY <1>1, <2>1, <3>1, NewPagesType
      <4>2. ring.book = KallocPage(RINGBUF_SIZE)
        <5>1. RINGBUF_SIZE < k
          BY <3>0, <4>1
        <5> HIDE DEF k
        <5> QED
          BY <5>1 DEF Backed, Rings
      <4>3. RINGBUF_SIZE \in 0..(k - 1)
        BY <3>0, <4>1
      <4> QED
        BY <3>1, <4>2, <4>3 DEF PageAt, Taken
    <3>2. CASE at # 2 * RINGBUF_SIZE
      <4> DEFINE i == at % RINGBUF_SIZE
      <4>1. i \in 0..(RINGBUF_SIZE - 1) /\ i < k
        <5>1. CASE at < RINGBUF_SIZE
          <6>1. k = at + 1
            BY <1>1, <2>1, <3>0, <5>1 DEF NewPages
          <6>2. at % RINGBUF_SIZE = at
            BY <1>1, <3>0, <5>1
          <6> QED
            BY <1>1, <3>0, <5>1, <6>1, <6>2
        <5>2. CASE ~(at < RINGBUF_SIZE)
          <6>1. k = RINGBUF_SIZE
            BY <1>1, <2>1, <3>0, <3>2, <5>2 DEF NewPages
          <6>2. at % RINGBUF_SIZE \in 0..(RINGBUF_SIZE - 1)
            BY <1>1, <3>0
          <6> QED
            BY <3>0, <6>1, <6>2
        <5> QED
          BY <5>1, <5>2
      <4> HIDE DEF i, k
      <4>2. ring.buf[i] = KallocPage(i)
        BY <4>1 DEF Backed, Rings
      <4>3. i \in 0..(k - 1)
        BY <2>3, <4>1, <3>0
      <4>4. PageAt(rb, at) = ring.buf[i]
        BY <3>2 DEF PageAt, BufferPage, i, k
      <4> QED
        BY <4>2, <4>3, <4>4 DEF Taken
    <3> QED
      BY <3>1, <3>2
  <2>6. freelist' \subseteq freelist
    BY <2>2, <2>3, <2>4, <2>5, TakenIsFree
  <2>7. InUse' = InUse /\ \A s \in InUse : PagesOf(s)' = PagesOf(s)
    BY <2>2 DEF InUse, PagesOf
  <2> QED
    BY <1>7, <2>2, <2>6, <2>7 DEF Owned
<1>10. CASE ~noTable
  <2>1. n =< have /\ freelist' \subseteq freelist \ Taken(n)
    <3>1. CASE noPage
      BY <1>4, <1>7, <3>1
    <3>2. CASE ~noPage
      <4>1. freelist' = freelist \ Taken(Asked(p, rb, top, at))
        BY <1>7, <1>10, <3>2
      <4>2. n =< Asked(p, rb, top, at) /\ Asked(p, rb, top, at) =< have
        BY <1>5, <1>6, <1>10, <3>2
      <4>3. Taken(n) \subseteq Taken(Asked(p, rb, top, at))
        BY <1>2, <4>2, TakenGrows
      <4> HIDE DEF n, have
      <4> QED
        BY <1>2, <4>1, <4>2, <4>3
    <3> QED
      BY <3>1, <3>2
  <2>2. Taken(n) \subseteq freelist
    BY <1>2, <2>1, TakenIsFree
  <2>3. /\ Backed(rb, n) \in Rings
        /\ Backed(rb, n).refcount = rb.refcount /\ Backed(rb, n).name = rb.name
        /\ \A x \in RingPages(Backed(rb, n)) : x \in Taken(n) \/ x \in RingPages(rb)
    BY <1>2, <2>1, BackedType
  <2> DEFINE ring == Backed(rb, n)
  <2> HIDE DEF n, ring, have
  <2>4. CASE append
    <3>1. rb = ringbufs[t]
      BY <2>4 DEF Fits
    <3>2. /\ ringbufs' \in [Slots -> Rings]
          /\ ringbufs'[t] = ring /\ \A s \in Slots : s # t => ringbufs'[s] = ringbufs[s]
      BY <1>7, <2>3, <2>4 DEF Owned, ring
    <3>3. \A s \in InUse' : s \in InUse /\ (s # t => PagesOf(s)' = PagesOf(s))
      BY <2>3, <3>1, <3>2 DEF InUse, PagesOf, ring
    <3>4. PagesOf(t)' = RingPages(ring) /\ PagesOf(t) = RingPages(rb)
      BY <3>1, <3>2 DEF PagesOf, RingPages
    <3>5. t \in InUse' => \A x \in PagesOf(t)' : x \in Taken(n) \/ (t \in InUse /\ x \in PagesOf(t))
      BY <2>3, <3>3, <3>4 DEF ring
    <3>6. tables' \in [Procs -> TableRecs]
      BY <1>7 DEF Owned
    <3> DEFINE A == Taken(n)
               B == {}
    <3>7. A \subseteq freelist /\ B \subseteq freelist /\ A \cap B = {} /\ freelist' \subseteq freelist \ (A \cup B)
      BY <2>1, <2>2
    <3>8. \A q \in Procs : tables'[q].pages \subseteq tables[q].pages \cup B /\ tables'[q].pages = tables[q].pages
      BY <1>7
    <3> HIDE DEF A, B
    <3> QED
      BY <3>2, <3>3, <3>5, <3>6, <3>7, <3>8, MoveKeeps DEF A
  <2>5. CASE ~append
    <3>1. InUse' = InUse /\ \A s \in InUse : PagesOf(s)' = PagesOf(s)
      BY <1>7, <2>5 DEF InUse, PagesOf
    <3>2. freelist' \subseteq freelist
      BY <2>1
    <3> QED
      BY <1>7, <2>5, <3>1, <3>2 DEF Owned
  <2> QED
    BY <2>4, <2>5
<1> QED
  BY <1>9, <1>10

\* Mapping a ring: a new one takes its pages from the free list, one that has
\* holders keeps its own.
LEMMA MapKeeps ==
    ASSUME Owned, NEW p \in Procs, NEW t \in Slots, NEW rb \in Rings, NEW top \in Nat,
           Fits(t, rb), MapAndRecord(p, t, rb, top), panic' # "append_no_table"
    PROVE  Owned'
<1> DEFINE at == StopsAt(p, rb, top)
           last == 2 * RINGBUF_SIZE
           ring == Backed(rb, NewPages(rb, last))
<1>1. at \in Int /\ last \in Int /\ last \in 0..(2 * RINGBUF_SIZE)
  BY StopsType, Sizes
<1>2. CASE at =< last /\ MapStops(p, t, rb, top, at)
  BY <1>1, <1>2, MapStopsKeeps
<1>3. CASE /\ at > last
           /\ ringbufs' = [ringbufs EXCEPT ![t] = OneMore(ring)]
           /\ tables' = [tables EXCEPT ![p] =
                  [ids |-> @.ids \cup NewTables(p, top, last),
                   pages |-> @.pages \cup (Taken(Asked(p, rb, top, last))
                                            \ Taken(NewPages(rb, last)))]]
           /\ freelist' = freelist \ Taken(Asked(p, rb, top, last))
  <2>1. Asked(p, rb, top, last) =< Cardinality(freelist)
    BY <1>1, <1>3, StopsType
  <2> HIDE DEF at, ring
  <2> QED
    BY <1>1, <1>3, <2>1, MapDoneKeeps DEF ring
<1> QED
  BY <1>2, <1>3 DEF MapAndRecord

\* Where an open puts the ring is a page.
LEMMA OpenedAtType ==
    ASSUME NEW p, NEW name, OpenedAt(p, name) # -1
    PROVE  OpenedAt(p, name) \in Nat
<1> DEFINE pt == pagetable[p]
           starts == {d \in 0..(VPages - NumContiguous) :
                      \A i \in d..(d + NumContiguous - 1) : pt[i] = 0}
           base == find_contiguous_pages(pt)
<1>1. starts \subseteq Nat
  OBVIOUS
<1>2. base = (CASE starts = {} -> -1 [] 0 \in starts -> 0 [] OTHER -> Min(starts) - 1)
  BY DEF find_contiguous_pages
<1> HIDE DEF starts
<1>3. starts # {} => Min(starts) \in starts
  BY <1>1, MinIn
<1>4. base = -1 \/ base \in Nat
  <2>1. CASE starts # {} /\ 0 \notin starts
    <3>1. Min(starts) \in Nat /\ Min(starts) # 0
      BY <1>1, <1>3, <2>1
    <3>2. base = Min(starts) - 1
      BY <1>2, <2>1
    <3> HIDE DEF base
    <3> QED
      BY <3>1, <3>2
  <2> QED
    BY <1>2, <2>1
<1> HIDE DEF base
<1>5. OpenedAt(p, name) = -1 \/ (base # -1 /\ OpenedAt(p, name) = base + 1) \/ (base # -1 /\ OpenedAt(p, name) = base + 2)
  BY DEF OpenedAt, base
<1> QED
  BY <1>4, <1>5

\* ringbuf(name, 1, addr), whichever entry it ends up with.
LEMMA OpenKeeps ==
    ASSUME Owned, NEW p \in Procs, NEW name \in Names \cup LongNames, KernelOpen(p, name),
           panic' # "append_no_table"
    PROVE  Owned'
<1> DEFINE s == SlotOf(name)
           top == OpenedAt(p, name)
           rb == RingToMap(name)
           t == IF s = -1 THEN get_ringbuf_index ELSE s
<1>1. CASE top = -1
  <2>1. UNCHANGED <<ringbufs, pagetable, tables, freelist, panic>> \/ top # -1
    BY <1>1, Zenon DEF KernelOpen
  <2>2. UNCHANGED <<ringbufs, tables, freelist>>
    BY <1>1, <2>1
  <2>3. InUse' = InUse
    BY <2>2 DEF InUse
  <2> QED
    BY <2>2, <2>3, QuietKeeps DEF Owned
<1>2. CASE top # -1
  <2>1. MapAndRecord(p, t, rb, top)
    BY <1>2, Zenon DEF KernelOpen
  <2>2. get_ringbuf_index < MAX_RINGBUFS /\ (s # -1 => ~(ringbufs[s].refcount < 0))
    <3>1. ~(get_ringbuf_index >= MAX_RINGBUFS) /\ ~(s # -1 /\ ringbufs[s].refcount < 0)
      BY <1>2 DEF OpenedAt
    <3>2. MAX_RINGBUFS \in Nat
      BY Sizes
    <3>3. get_ringbuf_index \in Int
      BY IndexIsNat
    <3> QED
      BY <3>1, <3>2, <3>3
  <2>3. t \in Slots
    BY <2>2, IndexIsSlot, SlotFound
  <2>4. rb \in Rings /\ Fits(t, rb)
    <3>1. CASE s = -1
      <4>1. rb = [refcount |-> 0, name |-> name,
                  buf |-> [i \in 0..(RINGBUF_SIZE - 1) |-> 0], book |-> 0]
        BY <3>1 DEF EmptySlot, RingToMap
      <4> HIDE DEF rb
      <4>2. rb \in Rings
        <5>1. name \in AnyName
          BY DEF AnyName
        <5>2. [i \in 0..(RINGBUF_SIZE - 1) |-> 0] \in [0..(RINGBUF_SIZE - 1) -> Int]
          OBVIOUS
        <5> QED
          BY <4>1, <5>1, <5>2 DEF Rings
      <4>3. rb.refcount = 0 /\ rb.name = name
        BY <4>1
      <4>4. ringbufs[t].name # name
        BY <2>3, <3>1, SlotFound
      <4> QED
        BY <4>2, <4>3, <4>4 DEF Fits
    <3>2. CASE s # -1
      <4>1. rb = ringbufs[s] /\ t = s /\ s \in Slots
        BY <3>2, SlotFound DEF RingToMap
      <4>2. rb \in Rings
        BY <4>1 DEF Owned
      <4>3. rb.refcount \in Int
        BY <4>2 DEF Rings
      <4>4. rb.refcount >= 0
        BY <2>2, <3>2, <4>1, <4>3
      <4> QED
        BY <4>1, <4>2, <4>4 DEF Fits
    <3> QED
      BY <3>1, <3>2
  <2>5. top \in Nat
    BY <1>2, OpenedAtType
  <2> HIDE DEF rb, t, top, s
  <2> QED
    BY <2>1, <2>3, <2>4, <2>5, MapKeeps
<1> QED
  BY <1>1, <1>2

\* ringbuf(name, 0, addr), with every address and in every state of the count.
LEMMA CloseKeeps ==
    ASSUME Owned, NEW p \in Procs, NEW name \in Names \cup LongNames, NEW top, KernelClose(p, name, top)
    PROVE  Owned'
<1>0. tables' = tables
  BY Zenon DEF KernelClose
<1>1. CASE UNCHANGED <<ringbufs, freelist>>
  <2>1. InUse' = InUse
    BY <1>1 DEF InUse
  <2> QED
    BY <1>0, <1>1, <2>1, QuietKeeps DEF Owned
<1>2. CASE SlotOf(name) # -1
  <2>1. PICK s \in Slots : s = SlotOf(name)
    BY <1>2, SlotFound
  <2>2. ringbufs[s] \in Rings /\ ringbufs[s].refcount \in Int
    BY DEF Owned, Rings
  <2> DEFINE rb == [ringbufs[s] EXCEPT !.refcount = @ - 1]
             counted == [ringbufs EXCEPT ![s] = rb]
  <2>3. /\ rb \in Rings /\ rb.name = ringbufs[s].name /\ rb.buf = ringbufs[s].buf /\ rb.book = ringbufs[s].book
        /\ rb.refcount = ringbufs[s].refcount - 1
    BY <2>2 DEF Rings
  <2>4. counted = [ringbufs EXCEPT ![s].refcount = @ - 1]
    BY <2>2 DEF Owned, Rings
  <2>5. \/ UNCHANGED <<ringbufs, freelist>>
        \/ ringbufs' = counted /\ freelist' = freelist
        \/ UnmapRing(p, s, counted, top)
    <3> HIDE DEF counted
    <3> QED
      BY <2>1, <2>4 DEF KernelClose
  <2> HIDE DEF rb
  <2>6. counted \in [Slots -> Rings] /\ counted[s] = rb /\ \A x \in Slots \ {s} : counted[x] = ringbufs[x]
    BY <2>3 DEF Owned
  <2> HIDE DEF counted
  <2>7. CASE ringbufs' = counted /\ freelist' = freelist
    <3>1. \A x \in Slots : x \in InUse' => x \in InUse
      <4>1. ringbufs'[s] = rb /\ \A x \in Slots \ {s} : ringbufs'[x] = ringbufs[x]
        BY <2>6, <2>7
      <4>2. rb.refcount > 0 => ringbufs[s].refcount > 0
        BY <2>2, <2>3
      <4> QED
        BY <2>3, <4>1, <4>2, Zenon DEF InUse
    <3> QED
      BY <1>0, <2>3, <2>6, <2>7, <3>1, QuietKeeps
  <2>8. CASE /\ ringbufs' = [counted EXCEPT ![s] = Deleted(@)] /\ freelist' = freelist \cup PagesOf(s)
             /\ IsLast(counted[s])
    <3>1. Deleted(rb) \in Rings /\ Deleted(rb).name = "" /\ Deleted(rb).refcount = rb.refcount
      BY <2>3 DEF Deleted, Rings, AnyName
    <3>2. /\ ringbufs' \in [Slots -> Rings] /\ ringbufs'[s] = Deleted(rb)
          /\ \A x \in Slots \ {s} : ringbufs'[x] = ringbufs[x]
      BY <2>6, <2>8, <3>1
    <3>3. rb.refcount = 0 /\ ringbufs[s].refcount > 0
      BY <2>2, <2>3, <2>6, <2>8 DEF IsLast
    <3>4. s \in InUse /\ s \notin InUse'
      <4>0. ringbufs'[s].refcount = 0 /\ ringbufs'[s].name = ""
        BY <3>1, <3>2, <3>3
      <4>1. ~(ringbufs'[s].refcount > 0) /\ ringbufs'[s].name = ""
        <5>1. ~(0 > 0)
          OBVIOUS
        <5> QED
          BY <4>0, <5>1, Zenon
      <4> QED
        BY <3>3, <4>1, Zenon DEF InUse
    <3> QED
      BY <1>0, <2>8, <3>2, <3>4, FreeKeeps
  <2>9. UnmapRing(p, s, counted, top) =>
            \/ ringbufs' = counted /\ freelist' = freelist
            \/ /\ ringbufs' = [counted EXCEPT ![s] = Deleted(@)] /\ freelist' = freelist \cup PagesOf(s)
               /\ IsLast(counted[s])
    BY DEF UnmapRing
  <2> QED
    BY <1>1, <2>5, <2>7, <2>8, <2>9
<1>3. SlotOf(name) # -1 \/ UNCHANGED <<ringbufs, freelist>>
  BY DEF KernelClose, CloseReturns0
<1> QED
  BY <1>1, <1>2, <1>3

-----------------------------------------------------------------------------
\* The registry is empty when the kernel starts.
LEMMA OwnInit == KernelInit => OwnInv
<1> SUFFICES ASSUME KernelInit PROVE Owned
  BY DEF OwnInv
<1>1. ringbufs = [s \in Slots |-> EmptySlot] /\ freelist = 1..PPages /\ tables = [p \in Procs |-> NoTables]
  BY DEF KernelInit
<1>2. EmptySlot \in Rings /\ EmptySlot.name = "" /\ EmptySlot.refcount = 0
  BY DEF EmptySlot, Rings, AnyName
<1>3. ringbufs \in [Slots -> Rings]
  BY <1>1, <1>2
<1>4. InUse = {}
  <2>1. \A s \in Slots : ringbufs[s].name = "" /\ ~(ringbufs[s].refcount > 0)
    <3>1. \A s \in Slots : ringbufs[s].name = "" /\ ringbufs[s].refcount = 0
      BY <1>1, <1>2
    <3>2. ~(0 > 0)
      OBVIOUS
    <3> QED
      BY <3>1, <3>2, Zenon
  <2> QED
    BY <2>1, Zenon DEF InUse
<1>5. tables \in [Procs -> TableRecs] /\ \A p \in Procs : tables[p].pages = {}
  BY <1>1, NoTablesType
<1> QED
  BY <1>1, <1>3, <1>4, <1>5 DEF Owned

\* Every step of the kernel and of its clients keeps the invariant.
LEMMA OwnStep == OwnInv /\ [KernelNext]_vars => OwnInv'
<1> SUFFICES ASSUME OwnInv, [KernelNext]_vars PROVE OwnInv'
  OBVIOUS
<1>1. CASE UNCHANGED vars
  <2>1. UNCHANGED <<ringbufs, tables, freelist, panic>>
    BY <1>1 DEF vars
  <2>2. InUse' = InUse /\ \A s \in Slots : PagesOf(s)' = PagesOf(s)
    BY <2>1 DEF InUse, PagesOf
  <2>3. InUse \subseteq Slots
    BY DEF InUse
  <2> QED
    BY <2>1, <2>2, <2>3 DEF OwnInv, Owned
<1>2. CASE KernelNext
  <2>1. panic = ""
    BY <1>2, Zenon DEF KernelNext, ringbuf_open, ringbuf_close, fork, spawn, exit, wait, exec, Running
  <2>2. Owned
    BY <2>1 DEF OwnInv
  <2> SUFFICES ASSUME panic' # "append_no_table" PROVE Owned'
    BY DEF OwnInv
  <2>3. CASE UNCHANGED <<ringbufs, tables, freelist>>
    <3>1. InUse' = InUse
      BY <2>3 DEF InUse
    <3> QED
      BY <2>2, <2>3, <3>1, QuietKeeps DEF Owned
  <2>4. ASSUME NEW p \in Procs, NEW name \in Names \cup LongNames, ringbuf_open(p, name)
        PROVE  Owned'
    <3>1. KernelOpen(p, name) \/ UNCHANGED vars
      BY <2>4, Zenon DEF ringbuf_open
    <3> QED
      BY <2>2, <2>3, <3>1, OpenKeeps DEF vars
  <2>5. ASSUME NEW p \in Procs, NEW rd \in Descriptors, NEW name \in Names \cup LongNames, ringbuf_close(p, rd, name)
        PROVE  Owned'
    <3>1. KernelClose(p, name, user_ring_bufs[p][rd].top) \/ UNCHANGED vars
      BY <2>5, Zenon DEF ringbuf_close
    <3> QED
      BY <2>2, <2>3, <3>1, CloseKeeps DEF vars
  <2>6. ASSUME NEW p \in Procs, NEW c \in Procs, fork(p, c) PROVE Owned'
    <3>1. UNCHANGED <<ringbufs, tables, freelist>>
      BY <2>6 DEF fork
    <3> QED
      BY <2>3, <3>1
  <2>7. ASSUME NEW p \in Procs, spawn(p) \/ exit(p) PROVE Owned'
    <3>1. UNCHANGED <<ringbufs, tables, freelist>>
      BY <2>7 DEF spawn, exit
    <3> QED
      BY <2>3, <3>1
  <2>8. ASSUME NEW p \in Procs, wait(p) \/ exec(p) PROVE Owned'
    <3>1. ringbufs' = ringbufs
      BY <2>8 DEF wait, exec
    <3>2. \/ UNCHANGED <<tables, freelist>>
          \/ freelist' = freelist \cup tables[p].pages /\ tables' = [tables EXCEPT ![p] = NoTables]
      BY <2>8, Zenon DEF wait, exec, FreePagetable
    <3> QED
      BY <2>2, <2>3, <3>1, <3>2, TablesKeep, NoTablesType
  <2> QED
    BY <1>2, <2>4, <2>5, <2>6, <2>7, <2>8 DEF KernelNext
<1> QED
  BY <1>1, <1>2

\* Whatever sequence of calls the clients make, with wrong and empty names,
\* stale addresses, repeated closes, failed opens and crashes of clients
\* included, and for every size of the registry, of the rings and of memory:
\* kalloc never hands out a page of a ring in use and no two rings share one,
\* until an append that finds no memory for a page table frees such a page on
\* its way to a panic.
THEOREM KernelRingsOwnTheirPages == KernelSpec => []RingsOwnTheirPages
<1>1. OwnInv => RingsOwnTheirPages
  BY DEF OwnInv, Owned, RingsOwnTheirPages, RingPagesAreTheirs
<1> QED
  BY <1>1, OwnInit, OwnStep, PTL DEF KernelSpec
=============================================================================
