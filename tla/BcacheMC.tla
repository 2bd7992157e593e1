------------------------------ MODULE BcacheMC ------------------------------
(* Workloads for three processes, a logged block and two blocks of the log. *)
EXTENDS Bcache

CONSTANTS p1, p2, p3, sb, h, l1, l2

Do(op, blk) == [op |-> op, blk |-> blk]

\* Three blocks wanted at once, and two chains of descriptors.
Spread == (p1 :> <<Do("log", h)>>) @@ (p2 :> <<Do("write", l1)>>) @@ (p3 :> <<Do("read", l2)>>)

\* Three processes after one block, logged twice before it is installed.
Contend == (p1 :> <<Do("log", h), Do("install", h)>>) @@
           (p2 :> <<Do("log", h)>>) @@ (p3 :> <<Do("read", h)>>)

\* More blocks than buffers, while a block waits in the log.
Recycle == (p1 :> <<Do("log", h), Do("install", h)>>) @@
           (p2 :> <<Do("write", l1), Do("read", l2), Do("read", sb)>>) @@ (p3 :> <<>>)

MCWorkloads == {Spread, Contend, Recycle}
=============================================================================
