--------------------------- MODULE RingbufKernel ---------------------------
(***************************************************************************)
(* The ringbuf system call (kernel/ringbuf.c), the descriptor table of the *)
(* user library (user/ringbuf.c) and what fork, exit, wait and exec do to  *)
(* a process that has ring buffers mapped.                                 *)
(*                                                                         *)
(* ringbuf() runs under ringbuf_lock from entry to return and touches only *)
(* the caller's page table, so a call is one action.  A virtual page is    *)
(* its distance below MAXVA - 3 * PGSIZE, where find_contiguous_pages      *)
(* starts; a physical page is a positive number, 0 is "not mapped".  Only  *)
(* the ring area of a page table is kept: fork's uvmcopy does not copy it  *)
(* and uvmfree does not unmap it.  The page-table pages that walk adds for *)
(* that area come from kalloc like the rings' pages and go with the page   *)
(* table.  A kernel panic ends a behaviour: the state it leaves shows what *)
(* the panicking call had done to the registry and to the free list.       *)
(*                                                                         *)
(* Rules names the restrictions the clients keep to; with Rules = {} every *)
(* call is allowed in every state.                                         *)
(***************************************************************************)
EXTENDS Integers, FiniteSets, FiniteSetsExt

CONSTANTS Procs,            \* process slots
          Names,            \* ring names that fit the kernel's 16 bytes; the
                            \* empty one is accepted too
          LongNames,        \* names of 16 characters or more
          MAX_RINGBUFS,     \* slots of the registry (10)
          RINGBUF_SIZE,     \* buffer pages of a ring (16)
          MAX_USR_RINGBUF,  \* descriptors of a process (10)
          PTES,             \* entries of a page-table page (512)
          VPages,           \* pages find_contiguous_pages may look at
          PPages,           \* physical pages
          RefcountDebt,     \* bound on how far failed closes lower a refcount
          MaxRefcount,      \* bound on a refcount
          Rules

RuleNames == {"own_descriptors", "matching_name", "close_before_exit",
              "stack_order", "below_max", "one_name", "enough_memory",
              "free_descriptor"}

ASSUME KernelAssumption ==
    /\ MAX_RINGBUFS \in Nat \ {0} /\ RINGBUF_SIZE \in Nat \ {0}
    /\ MAX_USR_RINGBUF \in Nat \ {0} /\ VPages \in Nat /\ PPages \in Nat
    /\ PTES \in Nat \ {0} /\ RefcountDebt \in Nat /\ MaxRefcount \in Nat
    /\ Rules \subseteq RuleNames
    /\ Procs # {} /\ "" \notin LongNames

VARIABLES
    ringbufs,        \* the registry
    pagetable,       \* per process: the ring area
    tables,          \* per process: the page-table pages that serve the ring
                     \* area, by place (ids), and the memory they took (pages)
    freelist,        \* kalloc's free pages
    user_ring_bufs,  \* per process: the library's descriptors; besides the
                     \* library's fields, the name each was opened with and
                     \* whether this process opened it (or inherited it)
    pstate,          \* "UNUSED", "RUNNING", "ZOMBIE"
    panic            \* "" or the panic that was reached

vars == <<ringbufs, pagetable, tables, freelist, user_ring_bufs, pstate, panic>>

Slots == 0..(MAX_RINGBUFS - 1)
Descriptors == 0..(MAX_USR_RINGBUF - 1)
Pages == 0..VPages
NumContiguous == 1 + 2 * RINGBUF_SIZE + 1

\* The page tables on the way to page d, which has the trampoline and the
\* trapframe above it: a leaf table and the one above it.
TablesOf(d) == {<<0, (d + 2) \div PTES>>, <<1, (d + 2) \div (PTES * PTES)>>}

\* What proc_pagetable makes: the tables of the trampoline and trapframe.
NoTables == [ids |-> TablesOf(-2) \cup TablesOf(-1), pages |-> {}]

NoMappings == [d \in Pages |-> 0]
ClosedDescriptor == [exists |-> 0, top |-> 0, name |-> "", own |-> FALSE]
EmptySlot == [refcount |-> 0, name |-> "",
              buf |-> [i \in 0..(RINGBUF_SIZE - 1) |-> 0], book |-> 0]

KernelInit ==
    /\ ringbufs = [s \in Slots |-> EmptySlot]
    /\ pagetable = [p \in Procs |-> NoMappings]
    /\ tables = [p \in Procs |-> NoTables]
    /\ freelist = 1..PPages
    /\ user_ring_bufs = [p \in Procs |-> [rd \in Descriptors |-> ClosedDescriptor]]
    /\ pstate = [p \in Procs |-> "UNUSED"]
    /\ panic = ""

-----------------------------------------------------------------------------
(* kernel/ringbuf.c *)

\* The number of named entries, which create_ringbuf also uses as the index
\* of the entry it fills.
get_ringbuf_index == Cardinality({s \in Slots : ringbufs[s].name # ""})

\* The first entry of that name, or -1.
SlotOf(name) ==
    LET S == {s \in Slots : ringbufs[s].name = name}
    IN  IF S = {} THEN -1 ELSE Min(S)

\* base_va: where the first run of enough unmapped pages begins; past a
\* mapped page the code leaves base_va at that page.  -1 when there is none.
find_contiguous_pages(pt) ==
    LET starts == {d \in 0..(VPages - NumContiguous) :
                      \A i \in d..(d + NumContiguous - 1) : pt[i] = 0}
    IN  CASE starts = {} -> -1
          [] 0 \in starts -> 0
          [] OTHER       -> Min(starts) - 1

\* The pages kalloc hands out.
KallocPage(i) ==
    CHOOSE x \in freelist : Cardinality({y \in freelist : y < x}) = i

Taken(n) == {KallocPage(i) : i \in 0..(n - 1)}

\* The ring with its first n pages from kalloc: the buffer, then the book.
Backed(rb, n) ==
    [rb EXCEPT !.buf = [i \in 0..(RINGBUF_SIZE - 1) |->
                            IF i < n THEN KallocPage(i) ELSE rb.buf[i]],
               !.book = IF RINGBUF_SIZE < n THEN KallocPage(RINGBUF_SIZE) ELSE @]

\* (mutant) The second mapping runs backwards.
MirroredPage(rb, i) == rb.buf[IF i < RINGBUF_SIZE THEN i ELSE 2 * RINGBUF_SIZE - 1 - i]

\* The physical page behind the i-th mapped buffer page.
BufferPage(rb, i) == rb.buf[i % RINGBUF_SIZE]

\* The ring area of a page table once rb is mapped from page top downwards:
\* every buffer page twice, then the book.
MapRing(pt, rb, top) ==
    [d \in Pages |->
        CASE d \in top..(top + 2 * RINGBUF_SIZE - 1) -> BufferPage(rb, d - top)
          [] d = top + 2 * RINGBUF_SIZE -> rb.book
          [] OTHER -> pt[d]]

\* The physical pages of an entry.
PagesOf(s) == {ringbufs[s].book} \cup
              {ringbufs[s].buf[i] : i \in 0..(RINGBUF_SIZE - 1)}

\* (mutant) One page more than the ring has.
LongArea(top) == top..(top + 2 * RINGBUF_SIZE + 1)

\* The pages a ring occupies below its guard page, the book last.
RingArea(top) == top..(top + 2 * RINGBUF_SIZE)

\* (mutant) Only the creator is counted.
CreatorOnly(rb) == [rb EXCEPT !.refcount = IF @ = 0 THEN 1 ELSE @]

\* The entry with one holder more.
OneMore(rb) == [rb EXCEPT !.refcount = @ + 1]

\* The pages a ring has asked kalloc for once its j-th page is being mapped: a
\* ring with refcount 0 takes a page for each buffer page of the first mapping
\* and, at the end, one for the book.
NewPages(rb, j) ==
    CASE rb.refcount # 0       -> 0
      [] rb.refcount = 0 /\ j < RINGBUF_SIZE -> j + 1
      [] rb.refcount = 0 /\ j \in RINGBUF_SIZE..(2 * RINGBUF_SIZE - 1) -> RINGBUF_SIZE
      [] OTHER -> RINGBUF_SIZE + 1

\* The page tables walk has to add for the ring's pages up to the j-th.
NewTables(p, top, j) == (UNION {TablesOf(d) : d \in top..(top + j)}) \ tables[p].ids

\* All that mapping the ring's pages up to the j-th asks of kalloc.
Asked(p, rb, top, j) == NewPages(rb, j) + Cardinality(NewTables(p, top, j))

\* The first page that cannot be mapped, 2 * RINGBUF_SIZE + 1 for none: kalloc
\* has no page left for it or for a page table, or something is mapped there.
StopsAt(p, rb, top) ==
    Min({2 * RINGBUF_SIZE + 1} \cup
        {j \in 0..(2 * RINGBUF_SIZE) : \/ Asked(p, rb, top, j) > Cardinality(freelist)
                                      \/ pagetable[p][top + j] # 0})

\* The page of memory that goes to the ring's j-th page.
PageAt(rb, j) == LET ring == Backed(rb, NewPages(rb, j))
                 IN  IF j = 2 * RINGBUF_SIZE THEN ring.book ELSE BufferPage(ring, j)

\* Mapping stops at page at.  mappages panics on a page that is mapped.  When
\* kalloc fails, for the page itself or for a page table inside mappages,
\* uvmdealloc(va, PGSIZE) unmaps from page 1 upwards and panics at the first
\* hole; when mappages failed, the page that was to be mapped is freed first,
\* in append_ringbuf one that other holders have mapped.  append_ringbuf has
\* changed the entry itself, create_ringbuf a copy; the page table of the
\* caller, which never runs again, is not followed.
MapStops(p, s, rb, top, at) ==
    LET have == Cardinality(freelist)
        append == ringbufs[s].name = rb.name
        noPage == NewPages(rb, at) + Cardinality(NewTables(p, top, at - 1)) > have
        noTable == ~noPage /\ Asked(p, rb, top, at) > have
    IN  /\ panic' = CASE noPage             -> "no_page"
                      [] noTable /\ append  -> "append_no_table"
                      [] noTable /\ ~append -> "create_no_table"
                      [] OTHER              -> "mappages: remap"
        /\ freelist' = CASE noPage  -> {}
                         [] noTable -> {PageAt(rb, at)}
                         [] OTHER   -> freelist \ Taken(Asked(p, rb, top, at))
        /\ ringbufs' = IF append
                       THEN [ringbufs EXCEPT ![s] =
                                Backed(rb, NewPages(rb, IF noPage \/ at = 2 * RINGBUF_SIZE
                                                        THEN at - 1 ELSE at))]
                       ELSE ringbufs
        /\ UNCHANGED <<pagetable, tables>>

\* mappages_to_proc, mappage_to_book and the entry's update.
MapAndRecord(p, s, rb, top) ==
    LET at == StopsAt(p, rb, top)
        last == 2 * RINGBUF_SIZE
        ring == Backed(rb, NewPages(rb, last))
    IN  \/ at <= last /\ MapStops(p, s, rb, top, at)
        \/ /\ at > last
           /\ ringbufs' = [ringbufs EXCEPT ![s] = OneMore(ring)]
           /\ pagetable' = [pagetable EXCEPT ![p] = MapRing(pagetable[p], ring, top)]
           /\ tables' = [tables EXCEPT ![p] =
                  [ids |-> @.ids \cup NewTables(p, top, last),
                   pages |-> @.pages \cup (Taken(Asked(p, rb, top, last))
                                            \ Taken(NewPages(rb, last)))]]
           /\ freelist' = freelist \ Taken(Asked(p, rb, top, last))
           /\ UNCHANGED panic

\* The top page an open hands to the user, -1 for an error: create_ringbuf
\* keeps base_va as the guard page, append_ringbuf takes the next one.
OpenedAt(p, name) ==
    LET s == SlotOf(name)
        base == find_contiguous_pages(pagetable[p])
    IN  IF \/ get_ringbuf_index >= MAX_RINGBUFS
           \/ base = -1
           \/ s # -1 /\ ringbufs[s].refcount < 0
        THEN -1
        ELSE IF s = -1 THEN base + 1 ELSE base + 2

\* The ring an open maps: the entry append_ringbuf found, or the new_ringbuf of
\* create_ringbuf.  The empty name finds the first entry without a name.
RingToMap(name) == IF SlotOf(name) = -1 THEN [EmptySlot EXCEPT !.name = name]
                                        ELSE ringbufs[SlotOf(name)]

\* ringbuf(name, 1, addr): create_ringbuf fills the entry at the index
\* get_ringbuf_index returns, append_ringbuf adds to the one it found.
KernelOpen(p, name) ==
    LET s == SlotOf(name)
        top == OpenedAt(p, name)
    IN  \/ /\ top = -1
           /\ UNCHANGED <<ringbufs, pagetable, tables, freelist, panic>>
        \/ /\ top # -1
           /\ MapAndRecord(p, IF s = -1 THEN get_ringbuf_index ELSE s,
                           RingToMap(name), top)

\* Whether ringbuf(name, 0, addr) returns 0: not when the registry is full,
\* the name unknown or the top page the user passes not mapped.
CloseReturns0(p, name, top) ==
    /\ get_ringbuf_index < MAX_RINGBUFS
    /\ SlotOf(name) # -1
    /\ pagetable[p][top] # 0

\* (mutant) The pages go while there is another holder.
EarlyLast(rb) == rb.refcount <= 1

\* Whether the close was that of the last holder.
IsLast(rb) == rb.refcount = 0

\* (mutant) The deleted entry keeps its name.
StillNamed(rb) == rb

\* The entry unmap_ringbuf_pmem leaves.
Deleted(rb) == [rb EXCEPT !.name = ""]

\* Both uvmunmap calls, which leave the page tables, and unmap_ringbuf_pmem for
\* the last holder.
UnmapRing(p, s, counted, top) ==
    IF \E d \in RingArea(top) : pagetable[p][d] = 0
    THEN /\ panic' = "uvmunmap: not mapped"
         /\ ringbufs' = counted
         /\ UNCHANGED <<pagetable, freelist>>
    ELSE /\ pagetable' = [pagetable EXCEPT ![p] =
                [d \in Pages |-> IF d \in RingArea(top) THEN 0 ELSE pagetable[p][d]]]
         /\ IF IsLast(counted[s])
            THEN /\ ringbufs' = [counted EXCEPT ![s] = Deleted(@)]
                 /\ freelist' = freelist \cup PagesOf(s)
            ELSE ringbufs' = counted /\ UNCHANGED freelist
         /\ UNCHANGED panic

\* ringbuf(name, 0, addr): unmap_ringbuf.  The count drops before the address
\* is validated.
KernelClose(p, name, top) ==
    LET s == SlotOf(name)
        counted == [ringbufs EXCEPT ![s].refcount = @ - 1]
    IN  /\ \/ /\ get_ringbuf_index >= MAX_RINGBUFS \/ s = -1
              /\ UNCHANGED <<ringbufs, pagetable, freelist, panic>>
           \/ /\ get_ringbuf_index < MAX_RINGBUFS /\ s # -1
              /\ pagetable[p][top] = 0
              /\ ringbufs' = counted
              /\ UNCHANGED <<pagetable, freelist, panic>>
           \/ /\ CloseReturns0(p, name, top)
              /\ UnmapRing(p, s, counted, top)
        /\ UNCHANGED tables

-----------------------------------------------------------------------------
(* user/ringbuf.c, called by running processes *)

Running(p) == panic = "" /\ pstate[p] = "RUNNING"
Held(p) == {rd \in Descriptors : user_ring_bufs[p][rd].exists = 1
                                 /\ user_ring_bufs[p][rd].own}

\* What the rules ask of a client before it opens, closes or goes away.
OpenRules(p, name) ==
    LET s == SlotOf(name)
        top == OpenedAt(p, name)
    IN  /\ "below_max" \in Rules => s # -1 \/ get_ringbuf_index + 1 < MAX_RINGBUFS
        /\ "enough_memory" \in Rules =>
              \/ top = -1
              \/ Asked(p, RingToMap(name), top, 2 * RINGBUF_SIZE) <= Cardinality(freelist)
        /\ "one_name" \in Rules =>
              \A rd \in Held(p) : user_ring_bufs[p][rd].name = name
        /\ "free_descriptor" \in Rules =>
              \E rd \in Descriptors : user_ring_bufs[p][rd].exists = 0

CloseRules(p, rd, name) ==
    LET s == SlotOf(name)
    IN  /\ "matching_name" \in Rules => user_ring_bufs[p][rd].name = name
        /\ "own_descriptors" \in Rules => user_ring_bufs[p][rd].own
        /\ "stack_order" \in Rules =>
              (s # -1 /\ ringbufs[s].refcount = 1
                  => \A t \in Slots : t > s => ringbufs[t].name = "")

LeaveRules(p) == "close_before_exit" \in Rules => pagetable[p] = NoMappings

\* sys_ringbuf ignores argstr's failure on a name of 16 characters or more:
\* strlen then runs past the 16-byte buffer, and finds such a name too long
\* or takes its first 16 characters.
Verdicts(name) == IF name \in LongNames THEN BOOLEAN ELSE {TRUE}

\* ringbuf_open: with no descriptor left it fails with the ring mapped.
ringbuf_open(p, name) ==
    /\ Running(p)
    /\ OpenRules(p, name)
    /\ \A s \in Slots : ringbufs[s].refcount < MaxRefcount
    /\ \E accepted \in Verdicts(name) :
          IF ~accepted
          THEN UNCHANGED vars
          ELSE /\ KernelOpen(p, name)
               /\ LET unused == {rd \in Descriptors : user_ring_bufs[p][rd].exists # 1}
                      top == OpenedAt(p, name)
                  IN  user_ring_bufs' =
                        IF top = -1 \/ unused = {} THEN user_ring_bufs
                        ELSE [user_ring_bufs EXCEPT ![p][Min(unused)] =
                                 [exists |-> 1, top |-> top, name |-> name, own |-> TRUE]]
               /\ UNCHANGED pstate

\* What ringbuf_close leaves of a descriptor.
Reset(u) == [u EXCEPT !.exists = 0, !.top = 0, !.name = "", !.own = FALSE]

\* ringbuf_close of an existing descriptor; the client passes the name again.
ringbuf_close(p, rd, name) ==
    LET top == user_ring_bufs[p][rd].top
    IN  /\ Running(p)
        /\ user_ring_bufs[p][rd].exists = 1
        /\ CloseRules(p, rd, name)
        /\ \A s \in Slots : ringbufs[s].refcount > -RefcountDebt
        /\ \E accepted \in Verdicts(name) :
              IF ~accepted
              THEN UNCHANGED vars
              ELSE /\ KernelClose(p, name, top)
                   /\ user_ring_bufs' =
                        IF CloseReturns0(p, name, top)
                        THEN [user_ring_bufs EXCEPT ![p][rd] = Reset(@)]
                        ELSE user_ring_bufs
                   /\ UNCHANGED pstate

-----------------------------------------------------------------------------
(* Processes *)

\* The shell starts a program: its fork, then exec in the child, from a
\* process without rings.
spawn(c) ==
    /\ panic = "" /\ pstate[c] = "UNUSED"
    /\ pstate' = [pstate EXCEPT ![c] = "RUNNING"]
    /\ UNCHANGED <<ringbufs, pagetable, tables, freelist, user_ring_bufs, panic>>

\* fork copies the data segment, the descriptors with it, but not the pages
\* above the heap.
fork(p, c) ==
    /\ Running(p)
    /\ pstate[c] = "UNUSED"
    /\ pstate' = [pstate EXCEPT ![c] = "RUNNING"]
    /\ pagetable' = [pagetable EXCEPT ![c] = NoMappings]
    /\ user_ring_bufs' = [user_ring_bufs EXCEPT ![c] =
          [rd \in Descriptors |-> [user_ring_bufs[p][rd] EXCEPT !.own = FALSE]]]
    /\ UNCHANGED <<ringbufs, tables, freelist, panic>>

\* exit, or a fault or kill that ends in exit: the page table stays for wait.
exit(p) ==
    /\ Running(p)
    /\ LeaveRules(p)
    /\ pstate' = [pstate EXCEPT ![p] = "ZOMBIE"]
    /\ UNCHANGED <<ringbufs, pagetable, tables, freelist, user_ring_bufs, panic>>

\* freewalk, at the end of proc_freepagetable: a mapping outside the heap is
\* a leaf it does not expect.  Otherwise the page tables are freed; the slot's
\* next one has only those of proc_pagetable.
FreePagetable(p, then) ==
    IF pagetable[p] = NoMappings
    THEN /\ then
         /\ freelist' = freelist \cup tables[p].pages
         /\ tables' = [tables EXCEPT ![p] = NoTables]
         /\ UNCHANGED panic
    ELSE /\ panic' = "freewalk: leaf"
         /\ UNCHANGED <<tables, freelist, user_ring_bufs, pstate>>

\* wait reaps a zombie: freeproc.
wait(c) ==
    /\ panic = "" /\ pstate[c] = "ZOMBIE"
    /\ FreePagetable(c,
          /\ pstate' = [pstate EXCEPT ![c] = "UNUSED"]
          /\ user_ring_bufs' = [user_ring_bufs EXCEPT
                 ![c] = [rd \in Descriptors |-> ClosedDescriptor]])
    /\ UNCHANGED <<ringbufs, pagetable>>

\* exec replaces the image: a fresh data segment, the old page table freed.
exec(p) ==
    /\ Running(p)
    /\ LeaveRules(p)
    /\ FreePagetable(p,
          /\ user_ring_bufs' = [user_ring_bufs EXCEPT
                 ![p] = [rd \in Descriptors |-> ClosedDescriptor]]
          /\ UNCHANGED pstate)
    /\ UNCHANGED <<ringbufs, pagetable>>

KernelNext ==
    \/ \E p \in Procs, name \in Names \cup LongNames : ringbuf_open(p, name)
    \/ \E p \in Procs, rd \in Descriptors, name \in Names \cup LongNames :
           ringbuf_close(p, rd, name)
    \/ \E p, c \in Procs : fork(p, c)
    \/ \E p \in Procs : spawn(p) \/ exit(p) \/ wait(p) \/ exec(p)

KernelSpec == KernelInit /\ [][KernelNext]_vars

-----------------------------------------------------------------------------
(* Properties *)

Live == {s \in Slots : ringbufs[s].name # ""}

\* The entries that hold a ring: those with a name, and those without one that
\* were opened by the empty name.
InUse == {s \in Slots : ringbufs[s].name # "" \/ ringbufs[s].refcount > 0}

\* Types of the registry, page tables, descriptors and process states; a
\* descriptor that does not exist is zeroed.
TypeOK ==
    /\ ringbufs \in [Slots -> [refcount : Int, name : Names \cup LongNames \cup {""},
                               buf : [0..(RINGBUF_SIZE - 1) -> 0..PPages],
                               book : 0..PPages]]
    /\ pagetable \in [Procs -> [Pages -> 0..PPages]]
    /\ \A p \in Procs : tables[p].ids \subseteq Nat \X Nat
    /\ freelist \subseteq 1..PPages
    /\ user_ring_bufs \in [Procs -> [Descriptors ->
           [exists : {0, 1}, top : Pages, name : Names \cup LongNames \cup {""},
            own : BOOLEAN]]]
    /\ \A p \in Procs, rd \in Descriptors :
           user_ring_bufs[p][rd].exists = 0 => user_ring_bufs[p][rd] = ClosedDescriptor
    /\ pstate \in [Procs -> {"UNUSED", "RUNNING", "ZOMBIE"}]
    /\ panic \in {"", "mappages: remap", "no_page",
                  "append_no_table", "create_no_table",
                  "uvmunmap: not mapped", "freewalk: leaf"}

\* No sequence of calls panics the kernel.
NoPanic == panic = ""

\* An entry's refcount is the number of times its book page is mapped, over
\* all processes and all of their opens.
RefcountExact ==
    \A s \in Live :
        ringbufs[s].refcount =
            Cardinality({m \in Procs \X Pages :
                            pagetable[m[1]][m[2]] = ringbufs[s].book})

\* The last close frees a ring's pages exactly when nothing maps them any
\* more: no page table refers to a free page.
NoDanglingMapping ==
    \A p \in Procs, d \in Pages : pagetable[p][d] \notin freelist

\* Of a ring that is in use no page is free, another ring's or a page table.
RingPagesAreTheirs ==
    /\ \A s \in InUse : PagesOf(s) \cap freelist = {}
    /\ \A s, t \in InUse : s # t => PagesOf(s) \cap PagesOf(t) = {}
    /\ \A s \in InUse, p \in Procs : PagesOf(s) \cap tables[p].pages = {}

\* Whatever the clients do, kalloc never hands out a page of a ring in use: no
\* ring is freed twice or shares a page with another or with a page table.
\* The one exception ends in a panic: append_ringbuf, when there is no memory
\* for a page table, frees the page it was about to map.
RingsOwnTheirPages == panic # "append_no_table" => RingPagesAreTheirs

\* Every physical page is free, a page table or belongs to exactly one ring:
\* unmap_ringbuf neither loses pages nor frees them twice, create_ringbuf
\* shares none.
PagesAccounted ==
    /\ freelist \cup UNION {PagesOf(s) : s \in Live}
               \cup UNION {tables[p].pages : p \in Procs} = 1..PPages
    /\ RingPagesAreTheirs
    /\ \A p \in Procs : tables[p].pages \cap freelist = {}
    /\ \A s \in Live : Cardinality(PagesOf(s)) = RINGBUF_SIZE + 1

\* Whoever holds a name open sees that ring's pages, the buffer twice in a
\* row with the same order of pages, and its book below: all holders share.
SharedBacking ==
    panic = "" =>
    \A p \in Procs : pstate[p] = "RUNNING" => \A rd \in Held(p) :
        LET u == user_ring_bufs[p][rd]
            s == SlotOf(u.name)
        IN  /\ s # -1
            /\ \A i \in 0..(2 * RINGBUF_SIZE - 1) :
                  pagetable[p][u.top + i] = ringbufs[s].buf[i % RINGBUF_SIZE]
            /\ pagetable[p][u.top + 2 * RINGBUF_SIZE] = ringbufs[s].book

\* "refcount; // 0 for empty slot": no step gives an entry that is in use to
\* another name.
LiveSlotNotReused ==
    [][\A s \in Slots : ringbufs[s].refcount > 0 /\ ringbufs'[s].refcount > 0
                        => ringbufs'[s].name = ringbufs[s].name]_vars

\* "Delete/Unmap the ringbuf from the user": a process that holds a ring can
\* always close it.
HeldCanBeClosed ==
    panic = "" =>
    \A p \in Procs : pstate[p] = "RUNNING" => \A rd \in Held(p) :
        CloseReturns0(p, user_ring_bufs[p][rd].name, user_ring_bufs[p][rd].top)

\* freewalk: "All leaf mappings must already have been removed."
NoLeafLeft == panic # "freewalk: leaf"
=============================================================================
