--------------------------------- MODULE Vm ---------------------------------
(***************************************************************************)
(* User memory: the page allocator (kernel/kalloc.c), page tables          *)
(* (kernel/vm.c), and the calls that build, grow, copy, replace and free   *)
(* address spaces: allocproc, freeproc, fork and growproc (kernel/proc.c), *)
(* exec (kernel/exec.c) and sys_exec (kernel/sysfile.c).                   *)
(*                                                                         *)
(* A page table is private to its process and kalloc is one critical       *)
(* section, so a call is one action; a call that runs out of memory does   *)
(* so at whatever point the free pages are used up.  Functions of vm.c     *)
(* take the memory m and return the memory they leave, with ok = FALSE for *)
(* the code's error return.  A table has two entries instead of 512.       *)
(***************************************************************************)
EXTENDS Integers, Sequences, FiniteSets, FiniteSetsExt

CONSTANTS Procs,      \* entries of the process table; the calls come from any
          NPages,     \* physical pages
          Execs,      \* the calls of exec: image, where path and arguments are, whether
                      \* they fit the new stack
          Sbrks,      \* the arguments of sbrk
          MaxSz,      \* bound: bytes of a process
          MaxOther    \* bound: pages that pipes and other kernel objects take

PGSIZE == 2
WordMod == 256        \* sizes are uint64
TRAMPOLINE == 7       \* virtual page numbers; MAXVA is 8 pages
TRAPFRAME == 6
MAXVA == 8
MAXARG == 3

ASSUME VmAssumption ==
    /\ NPages \in Nat /\ MaxSz \in Nat /\ MaxOther \in Nat
    /\ MaxSz < TRAPFRAME * PGSIZE
    /\ Sbrks \subseteq Int

VARIABLES
    m,       \* free: the free list; pt, data: what is in the pages; panic
    proc,    \* state, sz, pagetable, trapframe
    other,   \* pages of other parts of the kernel
    ret      \* what the last call returned: 0 or -1

vars == <<m, proc, other, ret>>

PhysPages == 1..NPages
TrampolineCode == 0                 \* the page of trampoline.S, in the kernel
NoPte == [pa |-> -1, flags |-> {}]
EmptyTable == [i \in 0..1 |-> NoPte]

PGROUNDUP(sz) == ((sz + PGSIZE - 1) \div PGSIZE) * PGSIZE
PageOf(va) == va \div PGSIZE
PX(level, page) == (page \div 2^level) % 2
Panicked(mm) == [mm EXCEPT !.panic = TRUE]

-----------------------------------------------------------------------------
(* kernel/kalloc.c *)

HasPage(mm) == mm.free # {}
kallocPage(mm) == Min(mm.free)

\* The page leaves the free list, filled with junk.
kalloc(mm) == [mm EXCEPT !.free = @ \ {kallocPage(mm)}, !.data[kallocPage(mm)] = "junk"]

kfree(mm, pa) == [mm EXCEPT !.free = @ \cup {pa}, !.data[pa] = "junk",
                            !.pt[pa] = EmptyTable,
                            !.panic = @ \/ pa \notin PhysPages]

-----------------------------------------------------------------------------
(* kernel/vm.c *)

\* The entry for a page: its table and index; ok = FALSE when a table is
\* missing and cannot be made.
RECURSIVE walk(_, _, _, _, _)
walk(mm, table, page, level, alloc) ==
    LET i == PX(level, page)
    IN  IF level = 0 THEN [m |-> mm, table |-> table, i |-> i, ok |-> TRUE]
        ELSE IF mm.pt[table][i] # NoPte
             THEN walk(mm, mm.pt[table][i].pa, page, level - 1, alloc)
             ELSE IF ~alloc \/ ~HasPage(mm)
                  THEN [m |-> mm, table |-> table, i |-> i, ok |-> FALSE]
                  ELSE LET new == kallocPage(mm)
                           linked == [kalloc(mm) EXCEPT
                                         !.pt[new] = EmptyTable,
                                         !.pt[table][i] = [pa |-> new, flags |-> {}]]
                       IN  walk(linked, new, page, level - 1, alloc)

Lookup(mm, root, page) == walk(mm, root, page, 2, FALSE)
PteAt(mm, w) == IF w.ok THEN mm.pt[w.table][w.i] ELSE NoPte
PteOf(mm, root, page) == PteAt(mm, Lookup(mm, root, page))

\* The physical page of a user page, or -1.
UserPage(pte) == IF "U" \in pte.flags THEN pte.pa ELSE -1
walkaddr(mm, root, page) == IF page >= MAXVA THEN -1 ELSE UserPage(PteOf(mm, root, page))

\* Copies between the kernel and user addresses go page by page: copyin needs every
\* page, copyinstr those up to the end of a string of len bytes (its 0 included), and
\* copyout stops at the first page that is missing, with the earlier ones written.
copyin(mm, root, srcva, len) ==
    \A a \in srcva..(srcva + len - 1) : walkaddr(mm, root, PageOf(a)) # -1
copyinstr(mm, root, srcva, len, max) == len <= max /\ copyin(mm, root, srcva, len)

RECURSIVE copyout(_, _, _, _, _)
copyout(mm, root, dstva, src, len) ==
    LET n == Min({PGSIZE - (dstva % PGSIZE), len})
        pa == walkaddr(mm, root, PageOf(dstva))
    IN  IF len = 0 THEN [m |-> mm, ok |-> TRUE]
        ELSE IF pa = -1 THEN [m |-> mm, ok |-> FALSE]
        ELSE copyout([mm EXCEPT !.data[pa] = src], root, dstva + n, src, len - n)

\* mappages of one page, at the entry w that walk found.
SetPte(w, pte) ==
    IF ~w.ok THEN [m |-> w.m, ok |-> FALSE]
    ELSE IF w.m.pt[w.table][w.i] # NoPte THEN [m |-> Panicked(w.m), ok |-> FALSE]
    ELSE [m |-> [w.m EXCEPT !.pt[w.table][w.i] = pte], ok |-> TRUE]
mappages(mm, root, page, pa, flags) ==
    SetPte(walk(mm, root, page, 2, TRUE), [pa |-> pa, flags |-> flags])

\* One mapping goes, and its page; it must exist.
Unmapped(mm, w, pte, do_free) ==
    IF ~w.ok \/ pte = NoPte \/ pte.flags = {} THEN Panicked(mm)
    ELSE [IF do_free THEN kfree(mm, pte.pa) ELSE mm EXCEPT !.pt[w.table][w.i] = NoPte]

\* n mappings from a page on.
RECURSIVE uvmunmap(_, _, _, _, _)
uvmunmap(mm, root, page, n, do_free) ==
    IF n <= 0 \/ mm.panic THEN mm
    ELSE uvmunmap(Unmapped(mm, Lookup(mm, root, page), PteOf(mm, root, page), do_free),
                  root, page + 1, n - 1, do_free)

uvmdealloc(mm, root, oldsz, newsz) ==
    IF newsz >= oldsz \/ PGROUNDUP(newsz) >= PGROUNDUP(oldsz) THEN mm
    ELSE uvmunmap(mm, root, PageOf(PGROUNDUP(newsz)),
                  PageOf(PGROUNDUP(oldsz) - PGROUNDUP(newsz)), TRUE)
DeallocSz(oldsz, newsz) == IF newsz >= oldsz THEN oldsz ELSE newsz

\* (mutant) The page that could not be mapped is not given back.
KeepUnmapped(mm, mem) == mm

\* kfree(mem) when its mapping fails.
FreeUnmapped(mm, mem) == kfree(mm, mem)

\* (mutant) The page is mapped as kalloc left it.
NotCleared(mm, mem) == mm

\* memset(mem, 0, PGSIZE).
Cleared(mm, mem) == [mm EXCEPT !.data[mem] = "zero"]

\* The loop of uvmalloc, at a; start is where it began.  r: mem was mapped, or not.
RECURSIVE AllocLoop(_, _, _, _, _, _), Allocated(_, _, _, _, _, _, _)
AllocLoop(mm, root, a, start, newsz, flags) ==
    IF a >= newsz THEN [m |-> mm, sz |-> newsz, ok |-> newsz # 0]
    ELSE IF ~HasPage(mm) THEN [m |-> uvmdealloc(mm, root, a, start), sz |-> 0, ok |-> FALSE]
    ELSE Allocated(mappages(Cleared(kalloc(mm), kallocPage(mm)), root, PageOf(a), kallocPage(mm), flags),
                   kallocPage(mm), root, a, start, newsz, flags)
Allocated(r, mem, root, a, start, newsz, flags) ==
    IF r.ok THEN AllocLoop(r.m, root, a + PGSIZE, start, newsz, flags)
    ELSE [m |-> uvmdealloc(FreeUnmapped(r.m, mem), root, a, start), sz |-> 0, ok |-> FALSE]

\* Grow from oldsz to newsz; sz is the new size, and 0 is the error return.
uvmalloc(mm, root, oldsz, newsz, xperm) ==
    IF newsz < oldsz THEN [m |-> mm, sz |-> oldsz, ok |-> TRUE]
    ELSE AllocLoop(mm, root, PGROUNDUP(oldsz), PGROUNDUP(oldsz), newsz, {"R", "U"} \cup xperm)

\* Every table below and with this one; a leaf is a panic.
RECURSIVE freewalk(_, _)
freewalk(mm, table) ==
    LET Entry(mm1, i) ==
            LET pte == mm1.pt[table][i]
            IN  IF pte = NoPte THEN mm1
                ELSE IF pte.flags = {} THEN freewalk(mm1, pte.pa) ELSE Panicked(mm1)
    IN  kfree(Entry(Entry(mm, 0), 1), table)

uvmfree(mm, root, sz) ==
    freewalk(uvmunmap(mm, root, 0, PageOf(PGROUNDUP(sz)), TRUE), root)

\* The loop of uvmcopy at page i; on an error what was copied goes.  r: the copy mem was
\* mapped, or not.
RECURSIVE uvmcopy(_, _, _, _, _), Copied(_, _, _, _, _, _)
uvmcopy(mm, old, new, i, sz) ==
    IF i * PGSIZE >= sz THEN [m |-> mm, ok |-> TRUE]
    ELSE IF PteOf(mm, old, i) = NoPte THEN [m |-> Panicked(mm), ok |-> FALSE]
    ELSE IF ~HasPage(mm) THEN [m |-> uvmunmap(mm, new, 0, i, TRUE), ok |-> FALSE]
    ELSE Copied(mappages([kalloc(mm) EXCEPT !.data[kallocPage(mm)] = mm.data[PteOf(mm, old, i).pa]],
                         new, i, kallocPage(mm), PteOf(mm, old, i).flags),
                kallocPage(mm), old, new, i, sz)
Copied(r, mem, old, new, i, sz) ==
    IF r.ok THEN uvmcopy(r.m, old, new, i + 1, sz)
    ELSE [m |-> uvmunmap(kfree(r.m, mem), new, 0, i, TRUE), ok |-> FALSE]

NotForUser(mm, w) ==
    IF w.ok THEN [mm EXCEPT !.pt[w.table][w.i].flags = @ \ {"U"}] ELSE Panicked(mm)
uvmclear(mm, root, page) == NotForUser(mm, Lookup(mm, root, page))

\* The page of the first process, with its code.
uvmfirst(mm, root) ==
    mappages([kalloc(mm) EXCEPT !.data[kallocPage(mm)] = "text"], root, 0, kallocPage(mm),
             {"R", "W", "X", "U"}).m

-----------------------------------------------------------------------------
(* kernel/proc.c *)

\* A table with the trampoline and the trapframe only; root is -1 without memory.
\* t: the trampoline was mapped, or not; f: then the trapframe.
TrapframeIn(f, root) ==
    IF f.ok THEN [m |-> f.m, root |-> root]
    ELSE [m |-> uvmfree(uvmunmap(f.m, root, TRAMPOLINE, 1, FALSE), root, 0), root |-> -1]
TrampolineIn(t, root, trapframe) ==
    IF t.ok THEN TrapframeIn(mappages(t.m, root, TRAPFRAME, trapframe, {"R", "W"}), root)
    ELSE [m |-> uvmfree(t.m, root, 0), root |-> -1]
proc_pagetable(mm, trapframe) ==
    IF ~HasPage(mm) THEN [m |-> mm, root |-> -1]
    ELSE TrampolineIn(mappages([kalloc(mm) EXCEPT !.pt[kallocPage(mm)] = EmptyTable],
                               kallocPage(mm), TRAMPOLINE, TrampolineCode, {"R", "X"}),
                      kallocPage(mm), trapframe)

proc_freepagetable(mm, root, sz) ==
    uvmfree(uvmunmap(uvmunmap(mm, root, TRAMPOLINE, 1, FALSE), root, TRAPFRAME, 1, FALSE), root, sz)

Unused == [state |-> "UNUSED", sz |-> 0, pagetable |-> -1, trapframe |-> -1]

\* freeproc: what is left of the memory.
freeproc(mm, p) ==
    LET t == IF p.trapframe = -1 THEN mm ELSE kfree(mm, p.trapframe)
    IN  IF p.pagetable = -1 THEN t ELSE proc_freepagetable(t, p.pagetable, p.sz)

\* allocproc: an entry with a trapframe and a page table, r.
PagetableIn(r, p) ==
    IF r.root = -1 THEN [m |-> freeproc(r.m, p), p |-> Unused, ok |-> FALSE]
    ELSE [m |-> r.m, p |-> [p EXCEPT !.pagetable = r.root], ok |-> TRUE]
allocproc(mm) ==
    IF ~HasPage(mm) THEN [m |-> mm, p |-> Unused, ok |-> FALSE]
    ELSE PagetableIn(proc_pagetable(kalloc(mm), kallocPage(mm)),
                     [Unused EXCEPT !.state = "USED", !.trapframe = kallocPage(mm)])

-----------------------------------------------------------------------------
(* The calls *)

Live(p) == ~m.panic /\ proc[p].state = "USED"

\* userinit: the first process has one page.
VmInit ==
    /\ \E p \in Procs :
         \E a \in {allocproc([free |-> PhysPages, pt |-> [x \in PhysPages |-> EmptyTable],
                             data |-> [x \in PhysPages |-> "junk"], panic |-> FALSE])} :
           /\ m = uvmfirst(a.m, a.p.pagetable)
           /\ proc = [q \in Procs |-> IF q = p THEN [a.p EXCEPT !.sz = PGSIZE] ELSE Unused]
    /\ other = {}
    /\ ret = 0

\* fork's memory: a new entry a with a copy c of the caller's pages.
fork(p, np) ==
    /\ Live(p) /\ proc[np].state = "UNUSED"
    /\ \E a \in {allocproc(m)} :
          IF ~a.ok THEN m' = a.m /\ ret' = -1 /\ UNCHANGED proc
          ELSE \E c \in {uvmcopy(a.m, proc[p].pagetable, a.p.pagetable, 0, proc[p].sz)} :
                  IF ~c.ok THEN m' = freeproc(c.m, a.p) /\ ret' = -1 /\ UNCHANGED proc
                  ELSE /\ m' = c.m /\ ret' = 0
                       /\ proc' = [proc EXCEPT ![np] = [a.p EXCEPT !.sz = proc[p].sz]]
    /\ UNCHANGED other

\* exit and the parent's wait, which frees the memory; one process stays.
exit(p) ==
    /\ Live(p) /\ \E q \in Procs \ {p} : proc[q].state = "USED"
    /\ m' = freeproc(m, proc[p])
    /\ proc' = [proc EXCEPT ![p] = Unused]
    /\ ret' = 0
    /\ UNCHANGED other

\* sz + n in 64 bits.
NewSize(sz, n) == (sz + n) % WordMod

\* sbrk: growproc(n).
growproc(p, n) ==
    /\ Live(p) /\ proc[p].sz + n <= MaxSz
    /\ LET sz == proc[p].sz
       IN  \/ /\ n > 0
              /\ \E r \in {uvmalloc(m, proc[p].pagetable, sz, NewSize(sz, n), {"W"})} :
                    /\ m' = r.m
                    /\ ret' = IF r.ok THEN 0 ELSE -1
                    /\ proc' = IF r.ok THEN [proc EXCEPT ![p].sz = r.sz] ELSE proc
           \/ /\ n <= 0
              /\ m' = uvmdealloc(m, proc[p].pagetable, sz, NewSize(sz, n))
              /\ ret' = 0
              /\ proc' = [proc EXCEPT ![p].sz = DeallocSz(sz, NewSize(sz, n))]
    /\ UNCHANGED other

-----------------------------------------------------------------------------
(* kernel/exec.c and sys_exec *)

\* loadseg: the pages from va on get the file's bytes; a short file fails.
RECURSIVE loadseg(_, _, _, _, _)
loadseg(mm, root, va, size, short) ==
    IF size <= 0 THEN [m |-> mm, ok |-> TRUE]
    ELSE LET pa == walkaddr(mm, root, PageOf(va))
         IN  IF pa = -1 THEN [m |-> Panicked(mm), ok |-> FALSE]
             ELSE IF short /\ size <= PGSIZE THEN [m |-> mm, ok |-> FALSE]
             ELSE loadseg([mm EXCEPT !.data[pa] = "text"], root, va + PGSIZE, size - PGSIZE, short)

\* The program headers from the i-th on; sz is kept for the error path.  a: the memory
\* of the i-th was made, or not; l: then its bytes were read, or not.
RECURSIVE LoadSegments(_, _, _, _, _), Grown(_, _, _, _, _), Loaded(_, _, _, _, _)
LoadSegments(mm, root, image, i, sz) ==
    IF i > Len(image.segs) THEN [m |-> mm, sz |-> sz, ok |-> TRUE]
    ELSE LET ph == image.segs[i]
             end == (ph.vaddr + ph.memsz) % WordMod
         IN  IF ~ph.load THEN LoadSegments(mm, root, image, i + 1, sz)
             ELSE IF ph.memsz < ph.filesz \/ end < ph.vaddr \/ ph.vaddr % PGSIZE # 0
             THEN [m |-> mm, sz |-> sz, ok |-> FALSE]
             ELSE Grown(uvmalloc(mm, root, sz, end, ph.perm), root, image, i, sz)
Grown(a, root, image, i, sz) ==
    IF ~a.ok THEN [m |-> a.m, sz |-> sz, ok |-> FALSE]
    ELSE Loaded(loadseg(a.m, root, image.segs[i].vaddr, image.segs[i].filesz, image.short),
                root, image, i, a.sz)
Loaded(l, root, image, i, sz) ==
    IF ~l.ok THEN [m |-> l.m, sz |-> sz, ok |-> FALSE]
    ELSE LoadSegments(l.m, root, image, i + 1, sz)

\* The arguments on the page of the stack, r: copied there, or not.
Pushed(r, sz) == [m |-> r.m, sz |-> sz, ok |-> r.ok]
Guarded(mm, root, sz, fits) ==
    IF ~fits THEN [m |-> mm, sz |-> sz, ok |-> FALSE]
    ELSE Pushed(copyout(mm, root, sz - PGSIZE, "args", PGSIZE), sz)

\* The guard page and the stack above the segments l; s: they were made, or not.
StackIn(s, root, base, fits) ==
    IF ~s.ok THEN [m |-> s.m, sz |-> base, ok |-> FALSE]
    ELSE Guarded(uvmclear(s.m, root, PageOf(s.sz - 2 * PGSIZE)), root, s.sz, fits)
SegmentsIn(l, root, fits) ==
    IF ~l.ok THEN l
    ELSE StackIn(uvmalloc(l.m, root, PGROUNDUP(l.sz), PGROUNDUP(l.sz) + 2 * PGSIZE, {"W"}),
                 root, PGROUNDUP(l.sz), fits)

\* The new image r replaces the old one, or goes.
Commit(r, p, root) ==
    IF ~r.ok
    THEN [m |-> proc_freepagetable(r.m, root, r.sz), p |-> proc[p], ret |-> -1]
    ELSE [m |-> proc_freepagetable(r.m, proc[p].pagetable, proc[p].sz),
          p |-> [proc[p] EXCEPT !.pagetable = root, !.sz = r.sz], ret |-> 0]

\* exec, with its new page table.
WithTable(new, p, image, fits) ==
    IF new.root = -1 THEN [m |-> new.m, p |-> proc[p], ret |-> -1]
    ELSE Commit(SegmentsIn(LoadSegments(new.m, new.root, image, 1, 0), new.root, fits), p, new.root)
execMemory(mm, p, image, fits) ==
    IF ~image.elf THEN [m |-> mm, p |-> proc[p], ret |-> -1]
    ELSE WithTable(proc_pagetable(mm, proc[p].trapframe), p, image, fits)

\* The word at addr of the caller p can be read; so can the string str.  A word has
\* the size 1.
fetchaddr(mm, p, addr) ==
    /\ addr < p.sz /\ (addr + 1) % WordMod <= p.sz
    /\ copyin(mm, p.pagetable, addr, 1)
fetchstr(mm, p, str) == copyinstr(mm, p.pagetable, str.va, str.len, PGSIZE)

\* The loop of sys_exec at its i-th turn: a page for each argument during the call.
RECURSIVE FetchArgs(_, _, _, _, _)
FetchArgs(mm, p, e, i, pages) ==
    IF i >= MAXARG \/ ~fetchaddr(mm, p, e.uargv + i) THEN [m |-> mm, pages |-> pages, ok |-> FALSE]
    ELSE IF i = Len(e.args) THEN [m |-> mm, pages |-> pages, ok |-> TRUE]
    ELSE IF ~HasPage(mm) THEN [m |-> mm, pages |-> pages, ok |-> FALSE]
    ELSE IF ~fetchstr(mm, p, e.args[i + 1])
         THEN [m |-> kalloc(mm), pages |-> pages \cup {kallocPage(mm)}, ok |-> FALSE]
    ELSE FetchArgs(kalloc(mm), p, e, i + 1, pages \cup {kallocPage(mm)})

\* (mutant) The pages of the arguments are given back only on success.
FreeOnSuccess(mm, pages, ok) ==
    IF ok THEN FoldSet(LAMBDA pg, acc : kfree(acc, pg), mm, pages) ELSE mm

\* The arguments' pages are given back on both ways out.
FreeArgs(mm, pages, ok) == FoldSet(LAMBDA pg, acc : kfree(acc, pg), mm, pages)

sys_exec(p, e) ==
    /\ Live(p)
    /\ IF ~fetchstr(m, proc[p], e.path) THEN ret' = -1 /\ UNCHANGED <<m, proc>>
       ELSE \E a \in {FetchArgs(m, proc[p], e, 0, {})} :
          IF ~a.ok
          THEN m' = FreeArgs(a.m, a.pages, FALSE) /\ ret' = -1 /\ UNCHANGED proc
          ELSE \E x \in {execMemory(a.m, p, e.image, e.fits)} :
                  /\ m' = FreeArgs(x.m, a.pages, x.ret = 0)
                  /\ proc' = [proc EXCEPT ![p] = x.p]
                  /\ ret' = x.ret
    /\ UNCHANGED other

-----------------------------------------------------------------------------
\* Pipes and other objects of the kernel take pages and give them back.
OtherAlloc ==
    /\ ~m.panic /\ HasPage(m) /\ Cardinality(other) < MaxOther
    /\ other' = other \cup {kallocPage(m)}
    /\ m' = kalloc(m)
    /\ ret' = 0 /\ UNCHANGED proc

OtherFree ==
    /\ ~m.panic /\ other # {}
    /\ LET pg == Max(other) IN m' = kfree(m, pg) /\ other' = other \ {pg}
    /\ ret' = 0 /\ UNCHANGED proc

VmNext ==
    \/ \E p, np \in Procs : fork(p, np)
    \/ \E p \in Procs : exit(p)
    \/ \E p \in Procs, n \in Sbrks : growproc(p, n)
    \/ \E p \in Procs, e \in Execs : sys_exec(p, e)
    \/ OtherAlloc \/ OtherFree

VmSpec == VmInit /\ [][VmNext]_vars

-----------------------------------------------------------------------------
(* Properties *)

Used == {p \in Procs : proc[p].state = "USED"}

\* The page-table pages of a process, and its user pages with their addresses.
RECURSIVE Tables(_, _)
Tables(table, level) ==
    {table} \cup (IF level = 0 THEN {}
                  ELSE UNION {Tables(m.pt[table][i].pa, level - 1) :
                                 i \in {j \in 0..1 : m.pt[table][j] # NoPte}})
TablesOf(p) == Tables(proc[p].pagetable, 2)
Mapped(p) == {v \in 0..(TRAPFRAME - 1) : PteOf(m, proc[p].pagetable, v) # NoPte}
PhysOf(p, v) == PteOf(m, proc[p].pagetable, v).pa

\* The address space as the program sees it.
Space(p) == [v \in Mapped(p) |-> [data |-> m.data[PhysOf(p, v)],
                                  flags |-> PteOf(m, proc[p].pagetable, v).flags]]

\* Types.
TypeOK ==
    /\ m.free \subseteq PhysPages /\ m.panic \in BOOLEAN
    /\ \A x \in PhysPages : /\ m.data[x] \in {"junk", "zero", "text", "args"}
                            /\ \A i \in 0..1 : m.pt[x][i].pa \in -1..NPages
    /\ \A p \in Procs : proc[p].sz \in 0..MaxSz
    /\ other \subseteq PhysPages
    /\ ret \in {0, -1}

\* No call runs into a panic of vm.c, kalloc.c or exec.c, whatever failed before: no page
\* is mapped twice, none that must be mapped is missing, and no leaf is left when the
\* tables go.  And every physical page is free or has exactly one owner: a table of one
\* process, one user address of one process, a trapframe, or another object.
PagesAccounted ==
    LET owned == {<<"table", 0, 0, x>> : x \in UNION {TablesOf(p) : p \in Used}}
                   \cup {<<"trapframe", p, 0, proc[p].trapframe>> : p \in Used}
                   \cup {<<"other", 0, 0, x>> : x \in other}
                   \cup UNION {{<<"user", p, v, PhysOf(p, v)>> : v \in Mapped(p)} : p \in Used}
                   \cup {<<"free", 0, 0, x>> : x \in m.free}
    IN  /\ ~m.panic
        /\ {o[4] : o \in owned} = PhysPages
        /\ Cardinality(owned) = NPages
        /\ \A p, q \in Used : p # q => TablesOf(p) \cap TablesOf(q) = {}

\* A process has exactly the pages below its size, and neither sees junk nor
\* has its trapframe or the trampoline where it could use them.
AddressSpace ==
    ~m.panic => \A p \in Used :
        /\ Mapped(p) = {v \in 0..(TRAPFRAME - 1) : v * PGSIZE < proc[p].sz}
        /\ \A v \in Mapped(p) : Space(p)[v].data # "junk"
        /\ PhysOf(p, TRAPFRAME) = proc[p].trapframe /\ PhysOf(p, TRAMPOLINE) = TrampolineCode
        /\ \A v \in {TRAPFRAME, TRAMPOLINE} :
               "U" \notin PteOf(m, proc[p].pagetable, v).flags

\* A call that fails leaves every address space as it was, and takes no page
\* but tables that a later growth will use.
FailureIsClean ==
    [][ret' = -1 =>
          /\ \A p \in Used : Space(p)' = Space(p) /\ proc'[p] = proc[p]
          /\ Used' = Used
          /\ Cardinality(m.free) - Cardinality(m'.free) =
                 Cardinality(UNION {TablesOf(p)' : p \in Used})
                   - Cardinality(UNION {TablesOf(p) : p \in Used})]_vars

\* A call changes the memory of no process but its caller; a child starts
\* with the contents of its parent.
Isolation ==
    [][/\ \A p \in Used : (proc'[p] = proc[p]) /\ ~m'.panic => Space(p)' = Space(p)
       /\ \A np \in Used' \ Used : \E p \in Used : Space(np)' = Space(p)]_vars

\* What of a state the properties can tell apart: not which physical pages
\* were used, as long as they are different ones.
View == <<[p \in Used |-> <<proc[p].sz, Space(p), Cardinality(TablesOf(p))>>],
          Cardinality(UNION {TablesOf(p) \cup {PhysOf(p, v) : v \in Mapped(p)} : p \in Used}),
          Cardinality(m.free), Cardinality(other), m.panic>>
=============================================================================
