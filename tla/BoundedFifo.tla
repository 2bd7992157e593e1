---------------------------- MODULE BoundedFifo ----------------------------
(***************************************************************************)
(* What an open ring buffer promises its two users: a byte queue of at     *)
(* most Capacity bytes.  The producer publishes a chunk at once, the       *)
(* consumer takes a chunk at once, and bytes come out in the order they    *)
(* went in, none lost, none twice.  The i-th byte of the stream is the     *)
(* number i.                                                               *)
(***************************************************************************)
EXTENDS Naturals, Sequences

CONSTANTS Capacity, Total

VARIABLES queue,        \* published and not yet taken
          taken,        \* every byte the consumer has taken, in order
          published     \* how many bytes were published so far

fifoVars == <<queue, taken, published>>

FifoInit == queue = <<>> /\ taken = <<>> /\ published = 0

Publish(n) ==
    /\ Len(queue) + n <= Capacity
    /\ published + n <= Total
    /\ queue' = queue \o [i \in 1..n |-> published + i]
    /\ published' = published + n
    /\ UNCHANGED taken

Take(n) ==
    /\ n <= Len(queue)
    /\ taken' = taken \o SubSeq(queue, 1, n)
    /\ queue' = SubSeq(queue, n + 1, Len(queue))
    /\ UNCHANGED published

FifoNext == \E n \in 1..Capacity : Publish(n) \/ Take(n)

FifoSpec == FifoInit /\ [][FifoNext]_fifoVars
=============================================================================
