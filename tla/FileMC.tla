------------------------------- MODULE FileMC -------------------------------
(***************************************************************************)
(* Programs for module File: two processes that meet on the same names.    *)
(***************************************************************************)
EXTENDS File

Open(path, mode) == [call |-> "open", path |-> path, create |-> FALSE, mode |-> mode, trunc |-> FALSE]
OpenTrunc(path) == [Open(path, "w") EXCEPT !.trunc = TRUE]
Creat(path) == [Open(path, "rw") EXCEPT !.create = TRUE]
Mkdir(path) == [call |-> "mkdir", path |-> path]
Mknod(path) == [call |-> "mknod", path |-> path]
Fstat(fd) == [call |-> "fstat", fd |-> fd]
Link(old, new) == [call |-> "link", path |-> old, new |-> new]
Unlink(path) == [call |-> "unlink", path |-> path]
Chdir(path) == [call |-> "chdir", path |-> path]
Read(fd, n) == [call |-> "read", fd |-> fd, n |-> n]
Write(fd, n) == [call |-> "write", fd |-> fd, n |-> n]
Dup(fd) == [call |-> "dup", fd |-> fd]
Pipe == [call |-> "pipe"]
Close(fd) == [call |-> "close", fd |-> fd]
Fork == [call |-> "fork", child |-> "p2"]
Exit == [call |-> "exit"]

Two(before, one, two) ==
    [p \in {"p1", "p2"} |-> IF p = "p1" THEN before \o <<Fork>> \o one \o <<Exit>>
                            ELSE two \o <<Exit>>]

MCPrograms == {
    \* the same file created and removed twice
    Two(<<>>, <<Creat(<<"x">>), Unlink(<<"x">>)>>, <<Creat(<<"x">>), Unlink(<<"x">>)>>),
    \* a shared open file written while its names come and go, and the disk fills
    Two(<<Creat(<<"x">>)>>, <<Write(1, 4), Unlink(<<"x">>), Close(1)>>,
        <<Link(<<"x">>, <<"/", "y">>), Write(1, 4)>>),
    \* a directory removed while another process enters it, and made again
    Two(<<Mkdir(<<"d">>)>>, <<Chdir(<<"d">>), Open(<<".">>, "r")>>,
        <<Unlink(<<"d">>), Mkdir(<<"/", "d">>)>>),
    \* names given in a directory while it is removed
    Two(<<Mkdir(<<"d">>)>>, <<Creat(<<"d", "x">>), Close(1)>>, <<Unlink(<<"d">>)>>),
    Two(<<Mkdir(<<"d">>), Creat(<<"x">>)>>, <<Link(<<"x">>, <<"d", "x">>)>>, <<Unlink(<<"d">>), Unlink(<<"x">>)>>),
    Two(<<Mkdir(<<"d">>)>>, <<Mkdir(<<"d", "e">>)>>, <<Unlink(<<"d">>)>>),
    \* ".." of a directory that is removed, and its parent with it
    Two(<<Mkdir(<<"d">>), Mkdir(<<"d", "e">>)>>, <<Chdir(<<"d", "e">>), Open(<<"..">>, "r")>>,
        <<Unlink(<<"d", "e">>), Unlink(<<"d">>), Mkdir(<<"d">>)>>),
    \* a directory emptied, removed, and searched
    Two(<<Mkdir(<<"d">>), Creat(<<"d", "x">>)>>, <<Unlink(<<"d">>), Link(<<"d", "x">>, <<"x">>)>>,
        <<Unlink(<<"d", "x">>), Unlink(<<"d">>)>>),
    \* names that exist, that do not, and that are not files or directories
    Two(<<Creat(<<"x">>), Mkdir(<<"d">>)>>,
        <<Link(<<"x">>, <<"d">>), Mkdir(<<"x">>), Creat(<<"d">>), Chdir(<<"x">>), Unlink(<<".">>)>>,
        <<Link(<<"x">>, <<"x", "y">>), Link(<<"d">>, <<"y">>), Open(<<"d">>, "w"), Unlink(<<"x">>)>>),
    \* the tables of files and descriptors run out; a file read while it is truncated
    Two(<<Creat(<<"x">>), Write(1, 2), Dup(1)>>,
        <<Dup(1), Creat(<<"y">>), Close(2), Open(<<"x">>, "r"), Read(2, 2)>>,
        <<Read(1, 1), Close(1), Fstat(2), OpenTrunc(<<"x">>), Write(1, 1)>>),
    \* inodes and blocks run out while directories are made
    Two(<<Creat(<<"x">>)>>, <<Write(1, 4), Mkdir(<<"d">>), Creat(<<"y">>)>>,
        <<Mkdir(<<"e">>), Unlink(<<"e">>)>>),
    \* a device made, opened and removed; calls on descriptors that are closed
    Two(<<Mknod(<<"c">>)>>, <<Creat(<<"c">>), Write(1, 1), Read(1, 1), Fstat(1), Unlink(<<"c">>)>>,
        <<Mknod(<<"c">>), Read(1, 1), Write(1, 1), Fstat(1), Close(1)>>),
    \* more files opened than the table of files has entries
    Two(<<>>, <<Creat(<<"x">>), Open(<<"x">>, "r")>>, <<Open(<<".">>, "r"), Open(<<"x">>, "r"), Close(1)>>),
    \* pipes that compete for files and descriptors
    Two(<<>>, <<Pipe, Fstat(1), Read(2, 1), Write(1, 1), Dup(1)>>, <<Creat(<<"x">>), Pipe, Close(1), Pipe>>),
    \* no inode left for a name, and no block for a link
    Two(<<Creat(<<"x">>), Mknod(<<"c">>)>>, <<Mkdir(<<"d">>), Unlink(<<"c">>), Close(1)>>,
        <<Mkdir(<<"e">>), Creat(<<"y">>), Unlink(<<"x">>)>>),
    Two(<<Creat(<<"x">>), Write(1, 7)>>, <<Link(<<"x">>, <<"y">>), Unlink(<<"x">>)>>,
        <<Link(<<"x">>, <<"z">>), Close(1)>>)
}
=============================================================================
