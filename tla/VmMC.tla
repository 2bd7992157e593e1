------------------------------- MODULE VmMC -------------------------------
(* Programs: one segment, after a header that is not to be loaded; two with a *)
(* hole between; a file that is too short; a segment that is not aligned; one *)
(* whose end wraps around; and no program at all.                             *)
EXTENDS Vm, TLC

Seg(vaddr, memsz, filesz, perm) ==
    [load |-> TRUE, vaddr |-> vaddr, memsz |-> memsz, filesz |-> filesz, perm |-> perm]
Note == [Seg(0, 4, 4, {}) EXCEPT !.load = FALSE]

Small == [elf |-> TRUE, short |-> FALSE, segs |-> <<Note, Seg(0, 1, 1, {"X"})>>]
Holes == [elf |-> TRUE, short |-> FALSE, segs |-> <<Seg(2, 1, 1, {"X"}), Seg(2, 2, 1, {"W"})>>]
Short == [elf |-> TRUE, short |-> TRUE, segs |-> <<Seg(0, 3, 3, {"X"})>>]
Crooked == [elf |-> TRUE, short |-> FALSE, segs |-> <<Seg(0, 2, 1, {"X"}), Seg(3, 2, 1, {"W"})>>]
Wraps == [elf |-> TRUE, short |-> FALSE, segs |-> <<Seg(0, 2, 1, {"X"}), Seg(2, WordMod - 1, 1, {"W"})>>]
Script == [elf |-> FALSE, short |-> FALSE, segs |-> <<>>]

Str(va, len) == [va |-> va, len |-> len]
A == Str(0, 1)

\* Calls whose path and argv are at the start of the memory.
Exec(image, args, fits) == [image |-> image, path |-> A, uargv |-> 0, args |-> args, fits |-> fits]

\* The last five: a string that crosses a page, in the guard page of some programs; one
\* in the trapframe; one without an end; too many; and a path beyond the memory.
MCExecs == {Exec(Small, <<A>>, TRUE), Exec(Holes, <<>>, TRUE), Exec(Small, <<A>>, FALSE),
            Exec(Short, <<A>>, TRUE), Exec(Crooked, <<>>, TRUE), Exec(Wraps, <<>>, TRUE),
            Exec(Script, <<A>>, TRUE),
            Exec(Small, <<A, Str(1, 2)>>, TRUE), Exec(Small, <<Str(TRAPFRAME * PGSIZE, 1)>>, TRUE),
            Exec(Small, <<Str(0, PGSIZE + 1)>>, TRUE), Exec(Small, <<A, A, A>>, TRUE),
            [Exec(Small, <<A>>, TRUE) EXCEPT !.path = Str(9, 1)]}
MCSbrks == {3, -1, -2, -20}
Symmetry == Permutations(Procs)
=============================================================================
