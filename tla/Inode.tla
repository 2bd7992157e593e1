------------------------------- MODULE Inode -------------------------------
(***************************************************************************)
(* The file system's data (kernel/fs.c): block and inode allocation, the   *)
(* in-memory inode table, file contents and directories.                   *)
(*                                                                         *)
(* Every function is an operator on the whole of that data, s, and returns *)
(* what it leaves; module File says when they run.  A block has BSIZE      *)
(* cells; a cell holds a directory entry, a unit of file data, or the      *)
(* number of a block in an indirect block.                                 *)
(***************************************************************************)
EXTENDS Integers, Sequences, FiniteSets, FiniteSetsExt, SequencesExt

CONSTANTS NInodes,     \* inodes on disk, numbered from 1; 1 is the root
          NBlocks,     \* data blocks on disk
          NINODE,      \* entries of the inode table
          NDIRECT, NINDIRECT, BSIZE

ASSUME InodeAssumption ==
    /\ {NInodes, NBlocks, NINODE, NDIRECT, NINDIRECT, BSIZE} \subseteq Nat \ {0}
    /\ NINDIRECT <= BSIZE /\ BSIZE > 2

Inums == 1..NInodes
Blocks == 1..NBlocks
Slots == 1..NINODE
ROOTINO == 1
MAXFILE == NDIRECT + NINDIRECT

Cell(name, n) == [name |-> name, n |-> n]
NoCell == Cell("", 0)
ZeroBlock == [j \in 0..(BSIZE - 1) |-> NoCell]
NoAddrs == [j \in 0..NDIRECT |-> 0]
FreeInode == [type |-> "none", nlink |-> 0, size |-> 0, addrs |-> NoAddrs]
FreeSlot == [inum |-> 0, ref |-> 0, valid |-> FALSE, node |-> FreeInode]

\* The image mkfs makes: a root directory with . and .. in its first block, its size
\* rounded up to whole blocks.
RootBlock == [j \in 0..(BSIZE - 1) |-> CASE j = 0 -> Cell(".", ROOTINO)
                                          [] j = 1 -> Cell("..", ROOTINO)
                                          [] OTHER -> NoCell]
Image ==
    [dinode |-> [i \in Inums |-> IF i = ROOTINO
                                 THEN [type |-> "dir", nlink |-> 1, size |-> (2 \div BSIZE + 1) * BSIZE,
                                       addrs |-> [NoAddrs EXCEPT ![0] = 1]]
                                 ELSE FreeInode],
     used |-> {1},
     blk |-> [b \in Blocks |-> IF b = 1 THEN RootBlock ELSE ZeroBlock],
     itable |-> [i \in Slots |-> FreeSlot],
     panic |-> ""]

Panic(s, why) == [s EXCEPT !.panic = IF @ = "" THEN why ELSE @]
Node(s, i) == s.itable[i].node

-----------------------------------------------------------------------------
(* Blocks *)

\* A zeroed block, or b = 0 when the disk is full.
balloc(s) ==
    LET free == Blocks \ s.used
    IN  IF free = {} THEN [s |-> s, b |-> 0]
        ELSE [s |-> [s EXCEPT !.used = @ \cup {Min(free)}, !.blk[Min(free)] = ZeroBlock],
              b |-> Min(free)]

bfree(s, b) ==
    IF b \in s.used THEN [s EXCEPT !.used = @ \ {b}] ELSE Panic(s, "freeing free block")

-----------------------------------------------------------------------------
(* Inodes *)

iupdate(s, i) == [s EXCEPT !.dinode[s.itable[i].inum] = Node(s, i)]

\* The entries that hold an inode.
EntriesOf(s, inum) == {i \in Slots : s.itable[i].ref > 0 /\ s.itable[i].inum = inum}

\* The entry of an inode, with one reference more.
iget(s, inum) ==
    LET found == EntriesOf(s, inum)
        empty == {i \in Slots : s.itable[i].ref = 0}
    IN  IF found # {}
        THEN [s |-> [s EXCEPT !.itable[Min(found)].ref = @ + 1], i |-> Min(found)]
        ELSE IF empty = {} THEN [s |-> Panic(s, "iget: no inodes"), i |-> 1]
        ELSE [s |-> [s EXCEPT !.itable[Min(empty)] = [FreeSlot EXCEPT !.inum = inum, !.ref = 1]],
              i |-> Min(empty)]

idup(s, i) == [s EXCEPT !.itable[i].ref = @ + 1]

\* A free inode gets its type on disk; i = 0 when there is none.
ialloc(s, type) ==
    LET free == {n \in Inums : s.dinode[n].type = "none"}
    IN  IF free = {} THEN [s |-> s, i |-> 0]
        ELSE iget([s EXCEPT !.dinode[Min(free)] = [FreeInode EXCEPT !.type = type]], Min(free))

\* What ilock does once it has the lock.
ilock(s, i) ==
    LET disk == s.dinode[s.itable[i].inum]
        read == [s EXCEPT !.itable[i].valid = TRUE, !.itable[i].node = disk]
    IN  IF s.itable[i].ref < 1 THEN Panic(s, "ilock")
        ELSE IF s.itable[i].valid THEN s
        ELSE IF disk.type = "none" THEN Panic(read, "ilock: no type") ELSE read

\* Whether iput has to free the inode.
LastUse(s, i) == s.itable[i].ref = 1 /\ s.itable[i].valid /\ Node(s, i).nlink = 0

iref_dec(s, i) == [s EXCEPT !.itable[i].ref = @ - 1]

-----------------------------------------------------------------------------
(* Inode content *)

\* The block of the bn-th part of a file, or 0.
AddrOf(s, node, bn) ==
    IF bn < NDIRECT THEN node.addrs[bn]
    ELSE IF node.addrs[NDIRECT] = 0 THEN 0
    ELSE s.blk[node.addrs[NDIRECT]][bn - NDIRECT].n

\* The blocks in the order itrunc meets them: direct, listed by the indirect one, and that
\* one itself, part MAXFILE.
PartOf(s, node, bn) == IF bn < MAXFILE THEN AddrOf(s, node, bn) ELSE node.addrs[NDIRECT]

\* (mutant) The blocks an indirect block lists are forgotten.
DirectOnly(s, i) == SelectSeq([j \in 1..(NDIRECT + 1) |-> Node(s, i).addrs[j - 1]], LAMBDA b : b # 0)

BlocksOf(s, i) ==
    SelectSeq([j \in 1..(MAXFILE + 1) |-> PartOf(s, Node(s, i), j - 1)], LAMBDA b : b # 0)

\* bmap, which allocates what is missing: new is the block for address a of the inode,
\* leaf the one that the indirect block ind gets for part bn.
AddrIn(new, i, a) == [new EXCEPT !.s.itable[i].node.addrs[a] = new.b]
LeafIn(leaf, ind, bn) ==
    IF leaf.b = 0 THEN leaf
    ELSE [leaf EXCEPT !.s.blk[ind][bn - NDIRECT] = Cell("addr", leaf.b)]
Below(ind, bn) == IF ind.b = 0 THEN ind ELSE LeafIn(balloc(ind.s), ind.b, bn)
Indirect(s, i) ==
    IF Node(s, i).addrs[NDIRECT] # 0 THEN [s |-> s, b |-> Node(s, i).addrs[NDIRECT]]
    ELSE AddrIn(balloc(s), i, NDIRECT)

bmap(s, i, bn) ==
    CASE bn >= MAXFILE -> [s |-> Panic(s, "bmap: out of range"), b |-> 0]
      [] bn < MAXFILE /\ AddrOf(s, Node(s, i), bn) # 0 -> [s |-> s, b |-> AddrOf(s, Node(s, i), bn)]
      [] bn < NDIRECT /\ Node(s, i).addrs[bn] = 0 -> AddrIn(balloc(s), i, bn)
      [] OTHER -> Below(Indirect(s, i), bn)

itrunc(s, i) ==
    LET freed == FoldLeft(bfree, s, BlocksOf(s, i))
    IN  iupdate([freed EXCEPT !.itable[i].node.addrs = NoAddrs, !.itable[i].node.size = 0], i)

\* Cell off of a file.
CellAt(s, i, off) == s.blk[AddrOf(s, Node(s, i), off \div BSIZE)][off % BSIZE]

\* The end of writei.
UpdateSize(s, i, off) ==
    iupdate([s EXCEPT !.itable[i].node.size = IF off > @ THEN off ELSE @], i)

\* The loop of writei, a cell at a time, into the block m.b; tot counts the cells written.
RECURSIVE WriteCells(_, _, _, _, _), WriteCell(_, _, _, _, _)
WriteCells(s, i, off, cells, tot) ==
    IF cells = <<>> THEN [s |-> UpdateSize(s, i, off), tot |-> tot]
    ELSE WriteCell(bmap(s, i, off \div BSIZE), i, off, cells, tot)
WriteCell(m, i, off, cells, tot) ==
    IF m.b = 0 THEN [s |-> UpdateSize(m.s, i, off), tot |-> tot]
    ELSE WriteCells([m.s EXCEPT !.blk[m.b][off % BSIZE] = Head(cells)],
                    i, off + 1, Tail(cells), tot + 1)

\* writei; tot = -1 outside the file or beyond the largest one.
writei(s, i, off, cells) ==
    IF off > Node(s, i).size \/ off + Len(cells) > MAXFILE * BSIZE
    THEN [s |-> s, tot |-> -1] ELSE WriteCells(s, i, off, cells, 0)

-----------------------------------------------------------------------------
(* Directories *)

Offsets(s, i) == 0..(Node(s, i).size - 1)

\* The offset of a name, or -1.
dirlookup(s, i, name) ==
    LET at == {off \in Offsets(s, i) : CellAt(s, i, off).n # 0 /\ CellAt(s, i, off).name = name}
    IN  IF at = {} THEN -1 ELSE Min(at)

\* dirlink of a name that is not there: the first free entry, or a new one.
EntryWritten(w) == [s |-> w.s, ok |-> w.tot = 1]
dirlink(s, i, name, inum) ==
    LET free == {off \in Offsets(s, i) : CellAt(s, i, off).n = 0}
    IN  EntryWritten(writei(s, i, IF free = {} THEN Node(s, i).size ELSE Min(free),
                            <<Cell(name, inum)>>))

isdirempty(s, i) == \A off \in Offsets(s, i) : off >= 2 => CellAt(s, i, off).n = 0
=============================================================================
