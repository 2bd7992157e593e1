-------------------------------- MODULE File --------------------------------
(***************************************************************************)
(* The file system calls (kernel/sysfile.c, kernel/file.c and the path     *)
(* walk and iput of kernel/fs.c) of several processes on the data of       *)
(* module Inode.                                                           *)
(*                                                                         *)
(* A process runs its calls in order.  A call is a list k of steps still   *)
(* to do, cut where a lock of an inode is taken, and where iput gives up   *)
(* the lock of the inode table; what lies between is done with locks held  *)
(* and is one step.  A reference a call owns is in ip, dp or src, or       *)
(* belongs to an iput of its list.                                         *)
(***************************************************************************)
EXTENDS Inode

CONSTANTS Procs, First,
          Programs,    \* the calls the processes may make: functions of Procs
          NFILE, NOFILE,
          MaxWrite     \* cells one transaction of filewrite writes

ASSUME FileAssumption == First \in Procs /\ {NFILE, NOFILE, MaxWrite} \subseteq Nat \ {0}

VARIABLES fs,      \* the data of module Inode
          lock,    \* holder of each inode's sleep-lock; None if it is free
          ftable,  \* the open files
          pr,      \* the processes
          past     \* history: the inodes whose last reference iput dropped unfreed (lost),
                   \* and those named in a directory that had been removed (late)
vars == <<fs, lock, ftable, pr, past>>

None == "none"
Files == 1..NFILE
Fds == 1..NOFILE
NoFile == [ref |-> 0, ip |-> 0, off |-> 0, device |-> FALSE, readable |-> FALSE, writable |-> FALSE]

\* The first process runs, in the root directory; it forks the others.
FileInit ==
    \E prog \in Programs :
        /\ fs = iget(Image, ROOTINO).s
        /\ lock = [i \in Slots |-> None]
        /\ past = [lost |-> {}, late |-> {}]
        /\ ftable = [f \in Files |-> NoFile]
        /\ pr = [p \in Procs |-> [todo |-> prog[p], k |-> <<>>, ip |-> 0, dp |-> 0, src |-> 0,
                                  name |-> "", off |-> 0, ofile |-> [d \in Fds |-> 0],
                                  cwd |-> IF p = First THEN 1 ELSE 0]]

-----------------------------------------------------------------------------
(* Steps *)

Op(op) == [op |-> op]
Walk(path, parent) == [op |-> "walk", path |-> path, parent |-> parent]
Create(type) == [op |-> "create", type |-> type]
Iput(i) == [op |-> "iput", i |-> i]

At(p, op) == pr[p].k # <<>> /\ Head(pr[p].k).op = op
Arg(p) == Head(pr[p].k)
Rest(p) == Tail(pr[p].k)
Free(i) == lock[i] = None

\* (mutant) A directory put away stays locked.
StayLocked(i) == lock

iunlock(i) == [lock EXCEPT ![i] = None]

\* The process continues with k, its registers as in r.
Go(p, r, k) == pr' = [pr EXCEPT ![p] = [r EXCEPT !.k = k]]

\* What begins a call: begin_op, and the first inode of a path.
StartOf(p, path) == IF path[1] = "/" THEN iget(fs, ROOTINO)
                    ELSE [s |-> idup(fs, pr[p].cwd), i |-> pr[p].cwd]
Names(path) == IF path[1] = "/" THEN Tail(path) ELSE path

OpenMode(op, c) == [op |-> op, mode |-> c.mode, trunc |-> c.trunc]

\* The steps of the calls that begin with a path.
sys_open(c) ==
    IF c.create THEN <<Walk(Names(c.path), TRUE), Create("file"), OpenMode("open_new", c)>>
    ELSE <<Walk(Names(c.path), FALSE), OpenMode("open_old", c)>>
sys_mkdir(c) == <<Walk(Names(c.path), TRUE), Create("dir"), Op("put_new")>>
sys_mknod(c) == <<Walk(Names(c.path), TRUE), Create("device"), Op("put_new")>>
sys_link(c) == <<Walk(Names(c.path), FALSE), [op |-> "link_inc", new |-> c.new]>>
sys_unlink(c) == <<Walk(Names(c.path), TRUE), Op("unlink_dp")>>
chdir_path(c) == <<Walk(Names(c.path), FALSE), Op("chdir")>>

Steps(c) == CASE c.call = "open" -> sys_open(c)
              [] c.call = "mkdir" -> sys_mkdir(c)
              [] c.call = "mknod" -> sys_mknod(c)
              [] c.call = "link" -> sys_link(c)
              [] c.call = "unlink" -> sys_unlink(c)
              [] c.call = "chdir" -> chdir_path(c)

PathCalls == {"open", "mkdir", "mknod", "link", "unlink", "chdir"}

Call(p) == Head(pr[p].todo)
Ready(p, calls) ==
    /\ pr[p].cwd # 0 /\ pr[p].k = <<>> /\ pr[p].todo # <<>>
    /\ Call(p).call \in calls
Next1(p) == [pr[p] EXCEPT !.todo = Tail(@)]

path_call(p) ==
    /\ Ready(p, PathCalls)
    /\ LET start == StartOf(p, Call(p).path)
       IN  /\ fs' = start.s
           /\ Go(p, [Next1(p) EXCEPT !.ip = start.i], Steps(Call(p)))
    /\ UNCHANGED <<lock, ftable>>

\* An iteration of namex: the inode is locked, searched and unlocked.
namex(p) ==
    /\ At(p, "walk") /\ Free(pr[p].ip)
    /\ LET ip == pr[p].ip
           a == Arg(p)
           s == ilock(fs, ip)
           off == dirlookup(s, ip, a.path[1])
           next == iget(s, CellAt(s, ip, off).n)
           \* nameiparent stops one level early
           stop == a.parent /\ Len(a.path) = 1
       IN  \/ /\ Node(s, ip).type # "dir" \/ (~stop /\ off = -1)
              /\ fs' = s
              /\ Go(p, [pr[p] EXCEPT !.ip = 0], <<Iput(ip)>> \o Rest(p))
           \/ /\ Node(s, ip).type = "dir" /\ stop
              /\ fs' = s
              /\ Go(p, [pr[p] EXCEPT !.name = a.path[1]], Rest(p))
           \/ /\ Node(s, ip).type = "dir" /\ ~stop /\ off # -1
              /\ fs' = next.s
              /\ Go(p, [pr[p] EXCEPT !.ip = next.i],
                    <<Iput(ip)>> \o (IF Len(a.path) = 1 THEN <<>> ELSE <<Walk(Tail(a.path), a.parent)>>)
                        \o Rest(p))
    /\ UNCHANGED <<lock, ftable>>

-----------------------------------------------------------------------------
(* iput *)


\* (mutant) iput only counts.
NeverFree(s, i) == FALSE

\* The test of iput, under the lock of the inode table.
MustFree(s, i) == LastUse(s, i)

iput(p) ==
    /\ At(p, "iput")
    /\ LET i == Arg(p).i
       IN  \/ /\ MustFree(fs, i) /\ Free(i)
              /\ lock' = [lock EXCEPT ![i] = p]
              /\ Go(p, pr[p], <<[Arg(p) EXCEPT !.op = "ifree"]>> \o Rest(p))
              /\ UNCHANGED fs
           \/ /\ ~MustFree(fs, i)
              /\ fs' = iref_dec(fs, i)
              /\ Go(p, pr[p], Rest(p))
              /\ UNCHANGED lock
    /\ UNCHANGED ftable

\* The inode's blocks and the inode itself are freed, with its lock held only.
Freed(s, i) ==
    [iupdate([itrunc(s, i) EXCEPT !.itable[i].node.type = "none"], i) EXCEPT !.itable[i].valid = FALSE]

iput_free(p) ==
    /\ At(p, "ifree")
    /\ LET i == Arg(p).i
       IN  /\ fs' = Freed(fs, i)
           /\ lock' = iunlock(i)
           /\ past' = [past EXCEPT !.late = @ \ {fs.itable[i].inum}]
           /\ Go(p, pr[p], <<[Arg(p) EXCEPT !.op = "idec"]>> \o Rest(p))
    /\ UNCHANGED ftable

iput_dec(p) ==
    /\ At(p, "idec")
    /\ fs' = iref_dec(fs, Arg(p).i)
    /\ past' = [past EXCEPT !.lost = @ \cup {n \in {fs.itable[Arg(p).i].inum} : LastUse(fs, Arg(p).i)}]
    /\ Go(p, pr[p], Rest(p))
    /\ UNCHANGED <<lock, ftable>>

-----------------------------------------------------------------------------
(* create *)

\* A call whose path leads nowhere.
no_path(p) ==
    /\ \E op \in {"create", "open_old", "open_new", "put_new", "link_inc", "unlink_dp", "chdir"} : At(p, op)
    /\ pr[p].ip = 0
    /\ Go(p, pr[p], <<>>)
    /\ UNCHANGED <<fs, lock, ftable>>

\* The parent is locked and searched; a new inode is allocated with it locked.
create(p) ==
    /\ At(p, "create") /\ pr[p].ip # 0 /\ Free(pr[p].ip)
    /\ LET dp == pr[p].ip
           s == ilock(fs, dp)
           off == dirlookup(s, dp, pr[p].name)
           old == iget(s, CellAt(s, dp, off).n)
           new == ialloc(s, Arg(p).type)
       IN  \/ /\ off # -1
              /\ fs' = old.s
              /\ Go(p, [pr[p] EXCEPT !.ip = old.i],
                    <<Iput(dp), [Arg(p) EXCEPT !.op = "create_old"]>> \o Rest(p))
              /\ UNCHANGED lock
           \/ /\ off = -1 /\ new.i = 0
              /\ fs' = s
              /\ Go(p, [pr[p] EXCEPT !.ip = 0], <<Iput(dp)>> \o Rest(p))
              /\ UNCHANGED lock
           \/ /\ off = -1 /\ new.i # 0
              /\ fs' = new.s
              /\ lock' = [lock EXCEPT ![dp] = p]
              /\ Go(p, [pr[p] EXCEPT !.ip = new.i, !.dp = dp],
                    <<[Arg(p) EXCEPT !.op = "create_new"]>> \o Rest(p))
    /\ UNCHANGED ftable

\* The name exists: only opening a file or device may have it.
create_old(p) ==
    /\ At(p, "create_old") /\ Free(pr[p].ip)
    /\ LET ip == pr[p].ip
           s == ilock(fs, ip)
       IN  /\ fs' = s
           /\ IF Arg(p).type = "file" /\ Node(s, ip).type \in {"file", "device"}
              THEN /\ lock' = [lock EXCEPT ![ip] = p]
                   /\ Go(p, pr[p], Rest(p))
              ELSE /\ Go(p, [pr[p] EXCEPT !.ip = 0], <<Iput(ip)>> \o Rest(p))
                   /\ UNCHANGED lock
    /\ UNCHANGED ftable

\* The new inode linked into its parent dp: ok when every entry was written.
ThenLink(r, i, name, inum) == IF r.ok THEN dirlink(r.s, i, name, inum) ELSE r
ThenCount(r, dp, type) ==
    IF r.ok /\ type = "dir"
    THEN [r EXCEPT !.s = iupdate([@ EXCEPT !.itable[dp].node.nlink = @ + 1], dp)] ELSE r
Linked(s, ip, dp, name, type) ==
    LET inum == s.itable[ip].inum
        one == [s |-> iupdate([s EXCEPT !.itable[ip].node.nlink = 1], ip), ok |-> TRUE]
        made == IF type # "dir" THEN one
                ELSE ThenLink(ThenLink(one, ip, ".", inum), ip, "..", s.itable[dp].inum)
    IN  ThenCount(ThenLink(made, dp, name, inum), dp, type)

\* What create does when an entry could not be written.
Undone(s, ip) == iupdate([s EXCEPT !.itable[ip].node.nlink = 0], ip)

\* The history of a name given to entry ip in the directory dp.
Named(dp, ip) ==
    past' = [past EXCEPT !.late = @ \cup {n \in {fs.itable[ip].inum} : Node(fs, dp).nlink = 0}]

create_new(p) ==
    /\ At(p, "create_new") /\ Free(pr[p].ip)
    /\ LET ip == pr[p].ip
           dp == pr[p].dp
       IN  \E l \in {Linked(ilock(fs, ip), ip, dp, pr[p].name, Arg(p).type)} :
             \/ /\ l.ok
                /\ fs' = l.s
                /\ Named(dp, ip)
                /\ lock' = [iunlock(dp) EXCEPT ![ip] = p]
                /\ Go(p, [pr[p] EXCEPT !.dp = 0], <<Iput(dp)>> \o Rest(p))
             \/ /\ ~l.ok
                /\ fs' = Undone(l.s, ip)
                /\ UNCHANGED <<lock, past>>
                /\ Go(p, [pr[p] EXCEPT !.ip = 0], <<Iput(ip), Op("put_dp")>> \o Rest(p))
    /\ UNCHANGED ftable

\* mkdir and mknod drop what create gave them.
put_new(p) ==
    /\ At(p, "put_new") /\ pr[p].ip # 0
    /\ lock' = iunlock(pr[p].ip)
    /\ Go(p, [pr[p] EXCEPT !.ip = 0], <<Iput(pr[p].ip)>>)
    /\ UNCHANGED <<fs, ftable>>

\* iunlockput of the parent directory, after what had to be done before it.
put_dp(p) ==
    /\ At(p, "put_dp")
    /\ lock' = iunlock(pr[p].dp)
    /\ Go(p, [pr[p] EXCEPT !.dp = 0], <<Iput(pr[p].dp)>> \o Rest(p))
    /\ UNCHANGED <<fs, ftable>>

-----------------------------------------------------------------------------
(* Open files *)

\* The entries of the file table and the descriptors that are free.
filealloc == {f \in Files : ftable[f].ref = 0}
fdalloc(p) == {d \in Fds : pr[p].ofile[d] = 0}

\* The end of sys_open with ip locked: an open file, or the inode put.
OpenFile(p, s, ip, c) ==
    LET f == filealloc
        d == fdalloc(p)
    IN  /\ lock' = iunlock(ip)
        /\ \/ \* nothing free, or a device whose major number there is not
              /\ f = {} \/ d = {} \/ Node(s, ip).type = "device"
              /\ fs' = s
              /\ Go(p, [pr[p] EXCEPT !.ip = 0], <<Iput(ip)>>)
              /\ UNCHANGED ftable
           \/ /\ f # {} /\ d # {}
              /\ fs' = IF c.trunc /\ Node(s, ip).type = "file" THEN itrunc(s, ip) ELSE s
              /\ ftable' = [ftable EXCEPT ![Min(f)] =
                    [ref |-> 1, ip |-> ip, off |-> 0, device |-> Node(s, ip).type = "device",
                     readable |-> c.mode # "w", writable |-> c.mode # "r"]]
              /\ Go(p, [pr[p] EXCEPT !.ip = 0, !.ofile[Min(d)] = Min(f)], <<>>)

open_new(p) ==
    /\ At(p, "open_new") /\ pr[p].ip # 0
    /\ OpenFile(p, fs, pr[p].ip, Arg(p))

\* A directory can only be opened for reading.
open_old(p) ==
    /\ At(p, "open_old") /\ pr[p].ip # 0 /\ Free(pr[p].ip)
    /\ LET ip == pr[p].ip
           s == ilock(fs, ip)
       IN  IF Node(s, ip).type = "dir" /\ Arg(p).mode # "r"
           THEN /\ fs' = s
                /\ Go(p, [pr[p] EXCEPT !.ip = 0], <<Iput(ip)>>)
                /\ UNCHANGED <<lock, ftable>>
           ELSE OpenFile(p, s, ip, Arg(p))

\* The open file of a call's descriptor; 0 if it is closed.
FileOf(p) == pr[p].ofile[Call(p).fd]

\* A call that changes nothing here: on a closed descriptor, on a device (module
\* Console) or on a pipe, which has no inode (module Pipe).
Returns(p) == Go(p, Next1(p), <<>>) /\ UNCHANGED <<fs, lock, ftable>>

\* fstat: the inode is locked, and so read from disk, and copied out.
filestat(p, f) ==
    IF ftable[f].ip = 0 THEN Returns(p)
    ELSE /\ Free(ftable[f].ip)
         /\ fs' = ilock(fs, ftable[f].ip)
         /\ Go(p, Next1(p), <<>>)
         /\ UNCHANGED <<lock, ftable>>
sys_fstat(p) == Ready(p, {"fstat"}) /\ IF FileOf(p) = 0 THEN Returns(p) ELSE filestat(p, FileOf(p))

\* read() of a file.
fileread(p, f) ==
    LET ip == ftable[f].ip
        s == ilock(fs, ip)
        left == Node(s, ip).size - ftable[f].off
    IN  IF ~ftable[f].readable \/ ftable[f].device \/ ip = 0 THEN Returns(p)
        ELSE /\ Free(ip)
             /\ fs' = s
             /\ ftable' = [ftable EXCEPT ![f].off = @ + Max({0, Min({left, Call(p).n})})]
             /\ Go(p, Next1(p), <<>>)
             /\ UNCHANGED lock
sys_read(p) == Ready(p, {"read"}) /\ IF FileOf(p) = 0 THEN Returns(p) ELSE fileread(p, FileOf(p))

\* A transaction of filewrite; the rest of the call goes on after it.
filewrite(p, f) ==
    LET ip == ftable[f].ip
        n1 == Min({Call(p).n, MaxWrite})
    IN  IF ~ftable[f].writable \/ ftable[f].device \/ ip = 0 THEN Returns(p)
        ELSE /\ Free(ip)
             /\ \E w \in {writei(ilock(fs, ip), ip, ftable[f].off, [j \in 1..n1 |-> Cell("data", 1)])} :
                   /\ fs' = w.s
                   /\ ftable' = [ftable EXCEPT ![f].off = @ + Max({0, w.tot})]
                   /\ IF w.tot = n1 /\ n1 < Call(p).n
                      THEN Go(p, [pr[p] EXCEPT !.todo[1].n = @ - n1], <<>>)
                      ELSE Go(p, Next1(p), <<>>)
             /\ UNCHANGED lock
sys_write(p) == Ready(p, {"write"}) /\ IF FileOf(p) = 0 THEN Returns(p) ELSE filewrite(p, FileOf(p))

sys_dup(p) ==
    /\ Ready(p, {"dup"})
    /\ LET f == FileOf(p)
           d == fdalloc(p)
       IN  IF f = 0 \/ d = {} THEN UNCHANGED ftable /\ Go(p, Next1(p), <<>>)
           ELSE /\ ftable' = [ftable EXCEPT ![f].ref = @ + 1]
                /\ Go(p, [Next1(p) EXCEPT !.ofile[Min(d)] = f], <<>>)
    /\ UNCHANGED <<fs, lock>>

\* Descriptor d is closed; the last one gives up the file's inode.
fileclose(p, d, r, k) ==
    LET f == r.ofile[d]
        last == ftable[f].ref = 1
    IN  /\ IF f = 0 THEN UNCHANGED ftable
           ELSE ftable' = [ftable EXCEPT ![f] = IF last THEN NoFile ELSE [@ EXCEPT !.ref = @ - 1]]
        /\ Go(p, [r EXCEPT !.ofile[d] = 0], (IF f # 0 /\ last /\ ftable[f].ip # 0 THEN <<Iput(ftable[f].ip)>> ELSE <<>>) \o k)
        /\ UNCHANGED <<fs, lock>>

sys_close(p) == Ready(p, {"close"}) /\ fileclose(p, Call(p).fd, Next1(p), <<>>)

-----------------------------------------------------------------------------
(* pipe(): two open files, the page of the pipe, two descriptors.  A step holds the *)
(* files that have no descriptor yet.                                               *)

PipeEnd(readable) == [NoFile EXCEPT !.ref = 1, !.readable = readable, !.writable = ~readable]
Drop(f) == [op |-> "pipe_drop", files |-> <<f>>]

\* pipealloc's first filealloc.
sys_pipe(p) ==
    /\ Ready(p, {"pipe"})
    /\ IF filealloc = {} THEN Returns(p)
       ELSE /\ ftable' = [ftable EXCEPT ![Min(filealloc)] = PipeEnd(TRUE)]
            /\ Go(p, Next1(p), <<[op |-> "pipe_alloc", files |-> <<Min(filealloc)>>]>>)
            /\ UNCHANGED <<fs, lock>>

\* Its second, and kalloc.
pipe_alloc(p) ==
    /\ At(p, "pipe_alloc")
    /\ LET rf == Arg(p).files[1]
           wf == Min(filealloc)
       IN  IF filealloc = {} THEN Go(p, pr[p], <<Drop(rf)>>) /\ UNCHANGED ftable
           ELSE /\ ftable' = [ftable EXCEPT ![wf] = PipeEnd(FALSE)]
                /\ \/ Go(p, pr[p], <<[op |-> "pipe_fds", files |-> <<rf, wf>>]>>)
                   \/ Go(p, pr[p], <<Drop(rf), Drop(wf)>>)
    /\ UNCHANGED <<fs, lock>>

\* The descriptors, which are copied out to the caller, or not.
pipe_fds(p) ==
    /\ At(p, "pipe_fds")
    /\ LET rf == Arg(p).files[1]
           wf == Arg(p).files[2]
           d == fdalloc(p)
           fd0 == Min(d)
           fd1 == Min(d \ {fd0})
       IN  \/ Go(p, pr[p], <<Drop(rf), Drop(wf)>>)
           \/ /\ Cardinality(d) >= 2
              /\ Go(p, [pr[p] EXCEPT !.ofile[fd0] = rf, !.ofile[fd1] = wf], <<>>)
    /\ UNCHANGED <<fs, lock, ftable>>

\* fileclose of an end without a descriptor.
pipe_drop(p) ==
    /\ At(p, "pipe_drop")
    /\ ftable' = [ftable EXCEPT ![Arg(p).files[1]] = NoFile]
    /\ Go(p, pr[p], Rest(p))
    /\ UNCHANGED <<fs, lock>>

-----------------------------------------------------------------------------
(* Names *)

\* The link count goes up first, under the inode's lock only.
link_inc(p) ==
    /\ At(p, "link_inc") /\ pr[p].ip # 0 /\ Free(pr[p].ip)
    /\ LET ip == pr[p].ip
           s == ilock(fs, ip)
           up == iupdate([s EXCEPT !.itable[ip].node.nlink = @ + 1], ip)
       IN  IF Node(s, ip).type = "dir"
           THEN fs' = s /\ Go(p, [pr[p] EXCEPT !.ip = 0], <<Iput(ip)>>)
           ELSE /\ fs' = up
                /\ Go(p, [pr[p] EXCEPT !.ip = 0, !.src = ip], <<[Arg(p) EXCEPT !.op = "link_path"]>>)
    /\ UNCHANGED <<lock, ftable>>

link_path(p) ==
    /\ At(p, "link_path")
    /\ LET start == StartOf(p, Arg(p).new)
       IN  /\ fs' = start.s
           /\ Go(p, [pr[p] EXCEPT !.ip = start.i], <<Walk(Names(Arg(p).new), TRUE), Op("link_add")>>)
    /\ UNCHANGED <<lock, ftable>>

link_add(p) ==
    /\ At(p, "link_add")
    /\ LET dp == pr[p].ip
           s == ilock(fs, dp)
           off == dirlookup(s, dp, pr[p].name)
           old == iget(s, CellAt(s, dp, off).n)
       IN  \/ /\ dp = 0
              /\ Go(p, pr[p], <<Op("link_undo")>>)
              /\ UNCHANGED <<fs, lock, past>>
           \/ /\ dp # 0 /\ Free(dp) /\ off # -1
              /\ fs' = old.s
              /\ lock' = [lock EXCEPT ![dp] = p]
              /\ Go(p, [pr[p] EXCEPT !.ip = 0, !.dp = dp], <<Iput(old.i), Op("put_dp"), Op("link_undo")>>)
              /\ UNCHANGED past
           \/ /\ dp # 0 /\ Free(dp) /\ off = -1
              /\ \E l \in {dirlink(s, dp, pr[p].name, s.itable[pr[p].src].inum)} :
                    /\ fs' = l.s
                    /\ IF l.ok
                       THEN /\ Named(dp, pr[p].src)
                            /\ Go(p, [pr[p] EXCEPT !.ip = 0, !.src = 0], <<Iput(dp), Iput(pr[p].src)>>)
                       ELSE /\ Go(p, [pr[p] EXCEPT !.ip = 0], <<Iput(dp), Op("link_undo")>>)
                            /\ UNCHANGED past
              /\ UNCHANGED lock
    /\ UNCHANGED ftable

\* One link less, on disk too.
Unlinked(s, i) == iupdate([s EXCEPT !.itable[i].node.nlink = @ - 1], i)

link_undo(p) ==
    /\ At(p, "link_undo") /\ Free(pr[p].src)
    /\ fs' = Unlinked(ilock(fs, pr[p].src), pr[p].src)
    /\ Go(p, [pr[p] EXCEPT !.src = 0], <<Iput(pr[p].src)>>)
    /\ UNCHANGED <<lock, ftable>>

unlink_dp(p) ==
    /\ At(p, "unlink_dp") /\ pr[p].ip # 0 /\ Free(pr[p].ip)
    /\ LET dp == pr[p].ip
           s == ilock(fs, dp)
           off == dirlookup(s, dp, pr[p].name)
           ip == iget(s, CellAt(s, dp, off).n)
       IN  IF pr[p].name \in {".", ".."} \/ off = -1
           THEN /\ fs' = s
                /\ Go(p, [pr[p] EXCEPT !.ip = 0], <<Iput(dp)>>)
                /\ UNCHANGED lock
           ELSE /\ fs' = ip.s
                /\ lock' = [lock EXCEPT ![dp] = p]
                /\ Go(p, [pr[p] EXCEPT !.ip = ip.i, !.dp = dp, !.off = off], <<Op("unlink_ip")>>)
    /\ UNCHANGED ftable

\* (mutant) A directory is removed whatever it holds.
AlwaysEmpty(s, i) == TRUE

\* What unlink may remove.
Removable(s, i) == Node(s, i).type # "dir" \/ isdirempty(s, i)

\* The entry was overwritten with w; a directory's ".." counts no more.
Cleared(w, dp, type) ==
    IF w.tot # 1 THEN Panic(w.s, "unlink: writei")
    ELSE IF type = "dir" THEN Unlinked(w.s, dp) ELSE w.s

\* What unlink finds must have a link.
HasLink(s, i) == IF Node(s, i).nlink < 1 THEN Panic(s, "unlink: nlink < 1") ELSE s

\* With the directory locked, the inode is locked, and its entry cleared.
unlink_ip(p) ==
    /\ At(p, "unlink_ip") /\ Free(pr[p].ip)
    /\ LET ip == pr[p].ip
           dp == pr[p].dp
       IN  \E s \in {HasLink(ilock(fs, ip), ip)} :
             IF Removable(s, ip)
             THEN /\ fs' = Cleared(writei(s, dp, pr[p].off, <<NoCell>>), dp, Node(s, ip).type)
                  /\ lock' = [iunlock(dp) EXCEPT ![ip] = p]
                  /\ Go(p, [pr[p] EXCEPT !.dp = 0], <<Iput(dp), Op("unlink_dec")>>)
             ELSE /\ fs' = s
                  /\ Go(p, [pr[p] EXCEPT !.ip = 0], <<Iput(ip), Op("put_dp")>>)
                  /\ UNCHANGED lock
    /\ UNCHANGED ftable

unlink_dec(p) ==
    /\ At(p, "unlink_dec")
    /\ fs' = Unlinked(fs, pr[p].ip)
    /\ lock' = iunlock(pr[p].ip)
    /\ Go(p, [pr[p] EXCEPT !.ip = 0], <<Iput(pr[p].ip)>>)
    /\ UNCHANGED ftable

-----------------------------------------------------------------------------
(* Processes *)

sys_chdir(p) ==
    /\ At(p, "chdir") /\ pr[p].ip # 0 /\ Free(pr[p].ip)
    /\ LET ip == pr[p].ip
           s == ilock(fs, ip)
       IN  /\ fs' = s
           /\ IF Node(s, ip).type # "dir" THEN Go(p, [pr[p] EXCEPT !.ip = 0], <<Iput(ip)>>)
              ELSE Go(p, [pr[p] EXCEPT !.cwd = ip, !.ip = 0], <<Iput(pr[p].cwd)>>)
    /\ UNCHANGED <<lock, ftable>>

\* (mutant) The child's descriptors are not counted.
NotCounted(p, f) == 0

\* filedup for each descriptor of a forking process.
Dups(p, f) == Cardinality({d \in Fds : pr[p].ofile[d] = f})

\* fork shares the open files and the directory.
fork(p) ==
    /\ Ready(p, {"fork"})
    /\ LET c == Call(p).child
       IN  /\ fs' = idup(fs, pr[p].cwd)
           /\ ftable' = [f \in Files |-> [ftable[f] EXCEPT !.ref = @ + Dups(p, f)]]
           /\ pr' = [pr EXCEPT ![p] = Next1(p), ![c].ofile = pr[p].ofile, ![c].cwd = pr[p].cwd]
    /\ UNCHANGED lock

\* exit closes the files one by one, then gives up the directory.
exit(p) ==
    /\ Ready(p, {"exit"})
    /\ Go(p, Next1(p), [d \in Fds |-> [op |-> "exit_close", fd |-> d]] \o <<Op("exit_cwd")>>)
    /\ UNCHANGED <<fs, lock, ftable>>

exit_close(p) == At(p, "exit_close") /\ fileclose(p, Arg(p).fd, pr[p], Rest(p))

exit_cwd(p) ==
    /\ At(p, "exit_cwd")
    /\ Go(p, [pr[p] EXCEPT !.cwd = 0], <<Iput(pr[p].cwd)>>)
    /\ UNCHANGED <<fs, lock, ftable>>

Step(p) ==
    \/ iput_free(p) \/ iput_dec(p) \/ create_new(p) \/ link_add(p)
    \/ /\ \/ path_call(p) \/ namex(p) \/ iput(p) \/ no_path(p)
          \/ create(p) \/ create_old(p) \/ put_new(p) \/ put_dp(p)
          \/ open_new(p) \/ open_old(p) \/ sys_fstat(p) \/ sys_read(p) \/ sys_write(p) \/ sys_dup(p) \/ sys_close(p)
          \/ sys_pipe(p) \/ pipe_alloc(p) \/ pipe_fds(p) \/ pipe_drop(p)
          \/ link_inc(p) \/ link_path(p) \/ link_undo(p)
          \/ unlink_dp(p) \/ unlink_ip(p) \/ unlink_dec(p)
          \/ sys_chdir(p) \/ fork(p) \/ exit(p) \/ exit_close(p) \/ exit_cwd(p)
       /\ UNCHANGED past

AtRest == \A p \in Procs : pr[p].k = <<>> /\ pr[p].todo = <<>>

\* The inode whose lock the next step of a process takes, or 0.
LocksIp == {"walk", "create", "create_old", "create_new", "open_old", "link_inc", "link_add",
            "unlink_dp", "unlink_ip", "chdir"}
Wants(p) ==
    CASE pr[p].k # <<>> /\ Arg(p).op \in LocksIp -> pr[p].ip
      [] At(p, "link_undo") -> pr[p].src
      [] At(p, "iput") /\ MustFree(fs, Arg(p).i) -> Arg(p).i
      [] \/ Ready(p, {"fstat"}) /\ FileOf(p) # 0
         \/ Ready(p, {"read"}) /\ FileOf(p) # 0 /\ ftable[FileOf(p)].readable /\ ~ftable[FileOf(p)].device
         \/ Ready(p, {"write"}) /\ FileOf(p) # 0 /\ ftable[FileOf(p)].writable /\ ~ftable[FileOf(p)].device -> ftable[FileOf(p)].ip
      [] OTHER -> 0

\* Whether a process can take a step: ENABLED (FileNext /\ Step(p)).
CanStep(p) ==
    /\ fs.panic = ""
    /\ pr[p].k # <<>> \/ (pr[p].cwd # 0 /\ pr[p].todo # <<>>)
    /\ Wants(p) = 0 \/ Free(Wants(p))

\* Weak fairness of Step(p), which always changes pr[p], with its enabling condition
\* written out.
Fair(p) == []<>(~CanStep(p)) \/ []<><<pr'[p] # pr[p]>>_vars

\* A panic is the end.
FileNext == fs.panic = "" /\ \E p \in Procs : Step(p)
FileSpec == FileInit /\ [][FileNext]_vars /\ \A p \in Procs : Fair(p)

-----------------------------------------------------------------------------
(* Properties *)

InodeType == [type : {"none", "file", "dir", "device"}, nlink : 0..(NInodes + Cardinality(Procs)),
              size : 0..(MAXFILE * BSIZE), addrs : [0..NDIRECT -> 0..NBlocks]]

\* Counts and sizes stay in range: no link count or reference count drops below zero
\* (both are unsigned or short in the code), and no file outgrows MAXFILE.
TypeOK ==
    /\ \A n \in Inums : fs.dinode[n] \in InodeType
    /\ fs.used \subseteq Blocks
    /\ \A i \in Slots : fs.itable[i].ref \in Nat /\ fs.itable[i].node \in InodeType
    /\ lock \in [Slots -> Procs \cup {None}]
    /\ \A f \in Files : ftable[f].ref \in Nat /\ ftable[f].off \in 0..(MAXFILE * BSIZE)

\* The references a process holds to entry i: its directory, its registers, and the
\* iputs it has still to do.
Holds(p, i) ==
    Cardinality({x \in {"cwd", "ip", "dp", "src"} : pr[p][x] = i}) +
    Cardinality({j \in DOMAIN pr[p].k : pr[p].k[j].op \in {"iput", "ifree", "idec"} /\ pr[p].k[j].i = i})

\* The ends a pipe() call holds.
InPipe(p, f) == Cardinality({j \in DOMAIN pr[p].k : /\ pr[p].k[j].op \in {"pipe_alloc", "pipe_fds", "pipe_drop"}
                                                    /\ \E i \in DOMAIN pr[p].k[j].files : pr[p].k[j].files[i] = f})

\* The inode table holds an inode once, however iget, ialloc and iput interleave: with
\* two entries there would be two locks for the same inode.
\* Each entry's count is the number of references there are: of open files, working
\* directories and calls under way; and an open file's is the number of its
\* descriptors and of the pipe() calls that made it and are under way.  So none
\* is reused while it is in use, and none is kept for ever.
RefsExact ==
    /\ \A f \in Files :
        ftable[f].ref = Cardinality({x \in Procs \X Fds : pr[x[1]].ofile[x[2]] = f})
                        + MapThenSumSet(LAMBDA p : InPipe(p, f), Procs)
    /\ \A i \in Slots :
        fs.itable[i].ref = Cardinality({f \in Files : ftable[f].ref > 0 /\ ftable[f].ip = i})
                           + MapThenSumSet(LAMBDA p : Holds(p, i), Procs)
    /\ \A i, j \in Slots : i # j /\ fs.itable[i].ref > 0 /\ fs.itable[j].ref > 0
                            => fs.itable[i].inum # fs.itable[j].inum

\* The allocated directories, their entries, and the entries that name inode n.
Dirs == {d \in Inums : fs.dinode[d].type = "dir"}
Entry(d, off) == fs.blk[AddrOf(fs, fs.dinode[d], off \div BSIZE)][off % BSIZE]
NamesOf(n) == {e \in UNION {{d} \X (0..(fs.dinode[d].size - 1)) : d \in Dirs} :
                  Entry(e[1], e[2]).n = n /\ Entry(e[1], e[2]).name \notin {".", ".."}}
\* The directories in place whose parent is n.
Subdirs(n) == {d \in Dirs : /\ fs.dinode[d].size > 1 /\ Entry(d, 1).n = n
                            /\ d = ROOTINO \/ NamesOf(d) # {}}

\* An inode's link count is the number of directory entries that refer to it, plus the
\* links a call has counted and not yet made (sys_link) or removed and not yet
\* discounted (sys_unlink).  A name given in a directory that was removed since
\* nameiparent found it (create and link do not look) is gone once that directory is
\* freed, and the count stays too high.  It is never too low, which is what makes it
\* safe to free an inode at zero.
Links(n) ==
    Cardinality(NamesOf(n)) + Cardinality(Subdirs(n))
    + Cardinality({p \in Procs : pr[p].src # 0 /\ fs.itable[pr[p].src].inum = n})
    + Cardinality({p \in Procs : /\ \E j \in DOMAIN pr[p].k : pr[p].k[j].op = "unlink_dec"
                                 /\ fs.itable[pr[p].ip].inum = n})
LinksExact ==
    \A n \in Inums : IF n \in past.late THEN fs.dinode[n].nlink >= Links(n)
                     ELSE fs.dinode[n].nlink = Links(n)

\* Of the panics of fs.c and sysfile.c one is reached, "ilock: no type", and in one way: a
\* process is still in a directory that was removed, the parent was removed too and
\* freed, and the process follows "..".  Otherwise an inode on its way to be locked has
\* not been freed, no block is freed twice, an entry never names an inode without links,
\* and the inode table does not run out.  Nor does iput sleep for the inode's lock while
\* it holds the lock of the table (sched would panic): when it frees an inode nobody else
\* can have it locked.
NoParent(i) == \E d \in Dirs : /\ fs.dinode[d].nlink = 0 /\ fs.dinode[d].size > 1
                               /\ Entry(d, 1).n = fs.itable[i].inum

\* "If that was the last reference and the inode has no links to it, free the inode
\* (and its content) on disk" (iput): an inode without links is allocated only as long
\* as somebody has a reference to it.
Orphans == {n \in Inums : fs.dinode[n].type # "none" /\ fs.dinode[n].nlink = 0 /\ EntriesOf(fs, n) = {}}
OrphansAreHeld == Orphans = {}

\* That fails in one window only: between freeing an inode and dropping its reference
\* iput holds no lock, and an inode that is allocated again, unlinked and put in the
\* window is dropped without being freed.  Every other last iput frees.
OnlyTheWindowLoses == Orphans \subseteq past.lost

\* The places of the disk's blocks: part bn of file n, its indirect block the last.
Parts == Inums \X (0..MAXFILE)
BlockOf(x) == PartOf(fs, fs.dinode[x[1]], x[2])

\* The bitmap marks exactly the blocks the inodes use, no block is in two places, and a
\* file has a block for each part of its size, also after a write that ran out of blocks
\* half way; and an inode in memory is the one on disk, as every change is followed by
\* iupdate before the lock is given up.
BlocksExact ==
    /\ fs.used = {BlockOf(x) : x \in Parts} \ {0}
    /\ \A x, y \in Parts : x # y /\ BlockOf(x) # 0 => BlockOf(x) # BlockOf(y)
    /\ \A n \in Inums, off \in 0..(MAXFILE * BSIZE - 1) :
           off < fs.dinode[n].size => AddrOf(fs, fs.dinode[n], off \div BSIZE) # 0
    /\ \A i \in Slots : fs.panic = "" /\ fs.itable[i].ref > 0 /\ fs.itable[i].valid
                              => fs.itable[i].node = fs.dinode[fs.itable[i].inum]

\* Every call returns, but for the panic: no two calls wait for each other's inodes (a
\* directory is locked before what it names), and no inode stays locked.
CallsReturn == <>(AtRest \/ fs.panic # "")
=============================================================================
