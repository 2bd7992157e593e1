----------------------------- MODULE RingBench -----------------------------
(***************************************************************************)
(* user/rb.c end to end: a parent forks a writer, both open the same name, *)
(* the child streams SIZE bytes through the ring, the parent reads them,   *)
(* waits for the child, closes and validates.  The streaming is that of    *)
(* module RingStream; around it are the fork, the two opens, the two       *)
(* closes, the child's exit and the parent's wait, in every order, each    *)
(* with the way it fails.                                                  *)
(*                                                                         *)
(* Of the registry (module RingbufKernel) only the entry "muteeb" matters: *)
(* an open of a name nobody holds creates a ring with a zeroed book and    *)
(* zeroed pages, and the last close deletes it.  While other programs fill *)
(* the registry the kernel refuses opens and closes alike, and a process   *)
(* that exits after a refused close still has the ring mapped.             *)
(***************************************************************************)
EXTENDS RingStream

ASSUME BenchAssumption == SIZE > MAX /\ Greedy

VARIABLES
    refcount,    \* of the entry "muteeb"; 0 when there is none
    generation,  \* how many rings of that name were created
    wring, rring,\* the generation each process has mapped, 0 for none
    cpc, ppc,    \* control of child and parent outside the streaming loops
    child_rc,    \* the child's exit status
    panicked     \* the kernel panicked in freewalk

bvars == <<refcount, generation, wring, rring, cpc, ppc, child_rc, panicked>>
benchVars == <<vars, bvars>>

BenchInit ==
    /\ StreamInit
    /\ refcount = 0 /\ generation = 0
    /\ wring = 0 /\ rring = 0
    /\ cpc = "none" /\ ppc = "fork"
    /\ child_rc = 0 /\ panicked = FALSE

\* ringbuf_open("muteeb").
OpenRing ==
    /\ refcount' = refcount + 1
    /\ IF refcount = 0
       THEN /\ generation' = generation + 1
            /\ read_done' = 0 /\ write_done' = 0
            /\ mem' = [a \in 0..(MAX - 1) |-> 0]
       ELSE UNCHANGED <<generation, read_done, write_done, mem>>
    /\ UNCHANGED <<wpc, wread, wwrite, waddr, wbytes, wcopied, total_write,
                   rpc, rread, rwrite, raddr, rbytes, rcopied, total_read,
                   read_buf>>

-----------------------------------------------------------------------------
(* The child *)

ChildOpen ==
    /\ cpc = "open"
    /\ OpenRing
    /\ wring' = generation'
    /\ cpc' = "stream"
    /\ UNCHANGED <<rring, ppc, child_rc, panicked>>

\* The kernel refuses the open, "Failed to open child ringbuf": exit(0).
ChildOpenFails ==
    /\ cpc = "open"
    /\ cpc' = "zombie"
    /\ UNCHANGED <<vars, refcount, generation, wring, rring, ppc, child_rc, panicked>>

ChildStream == cpc = "stream" /\ Writer /\ UNCHANGED bvars

\* ringbuf_close and exit(0).
ChildClose ==
    /\ cpc = "stream" /\ wpc = "done"
    /\ refcount' = refcount - 1
    /\ wring' = 0
    /\ cpc' = "zombie"
    /\ UNCHANGED <<vars, generation, rring, ppc, child_rc, panicked>>

\* The registry is full and the close refused, "Failed to close child
\* ringbuf": exit(1), with the ring still mapped.
ChildCloseFails ==
    /\ cpc = "stream" /\ wpc = "done"
    /\ cpc' = "zombie"
    /\ child_rc' = 1
    /\ UNCHANGED <<vars, refcount, generation, wring, rring, ppc, panicked>>

Child ==
    /\ ~panicked
    /\ ChildOpen \/ ChildOpenFails \/ ChildStream \/ ChildClose \/ ChildCloseFails

-----------------------------------------------------------------------------
(* The parent *)

Fork ==
    /\ ppc = "fork"
    /\ cpc' = "open" /\ ppc' = "open"
    /\ UNCHANGED <<vars, refcount, generation, wring, rring, child_rc, panicked>>

\* "Failed to fork": on to the validation of a read_buf nobody filled.
ForkFails ==
    /\ ppc = "fork"
    /\ ppc' = "validate"
    /\ UNCHANGED <<vars, refcount, generation, wring, rring, cpc, child_rc, panicked>>

ParentOpen ==
    /\ ppc = "open"
    /\ OpenRing
    /\ rring' = generation'
    /\ ppc' = "stream"
    /\ UNCHANGED <<wring, cpc, child_rc, panicked>>

ParentOpenFails ==
    /\ ppc = "open"
    /\ ppc' = "exited"
    /\ UNCHANGED <<vars, refcount, generation, wring, rring, cpc, child_rc, panicked>>

ParentStream == ppc = "stream" /\ Reader /\ UNCHANGED bvars

\* (mutant) The parent does not wait.
NoWait ==
    /\ ppc = "stream" /\ rpc = "done"
    /\ ppc' = "close"
    /\ UNCHANGED <<vars, refcount, generation, wring, rring, cpc, child_rc, panicked>>

\* wait(&child_rc).  wait frees the child's page table before it returns, and
\* freewalk panics on a ring that is still mapped; only then is child_rc
\* looked at, "Child failed to write": exit(1).
ParentWait ==
    /\ ppc = "stream" /\ rpc = "done"
    /\ cpc = "zombie"
    /\ \/ wring # 0 /\ panicked' = TRUE /\ UNCHANGED <<cpc, ppc>>
       \/ /\ wring = 0
          /\ cpc' = "reaped"
          /\ ppc' = IF child_rc # 0 THEN "child_failed" ELSE "close"
          /\ UNCHANGED panicked
    /\ UNCHANGED <<vars, refcount, generation, wring, rring, child_rc>>

ParentClose ==
    /\ ppc = "close"
    /\ refcount' = refcount - 1
    /\ rring' = 0
    /\ ppc' = "validate"
    /\ UNCHANGED <<vars, generation, wring, cpc, child_rc, panicked>>

\* The registry is full, "Failed to close parent ringbuf": exit(1).
ParentCloseFails ==
    /\ ppc = "close"
    /\ ppc' = "exited"
    /\ UNCHANGED <<vars, refcount, generation, wring, rring, cpc, child_rc, panicked>>

\* The loop at the end of main: "passed!", or the first byte that differs.
Validate ==
    /\ ppc = "validate"
    /\ ppc' = IF \A i \in 0..(SIZE - 1) : read_buf[i] = i + 1 THEN "passed" ELSE "failed"
    /\ UNCHANGED <<vars, refcount, generation, wring, rring, cpc, child_rc, panicked>>

Parent ==
    /\ ~panicked
    /\ \/ Fork \/ ForkFails \/ ParentOpen \/ ParentOpenFails \/ ParentStream
       \/ ParentWait \/ ParentClose \/ ParentCloseFails \/ Validate

\* The parent has left main, or the machine has stopped.
Over ==
    /\ panicked \/ ppc \in {"passed", "failed", "child_failed", "exited"}
    /\ UNCHANGED benchVars

BenchNext == Child \/ Parent \/ Over

\* Neither process sleeps before the wait, and wait is woken by exit, so the
\* scheduler runs both again and again.
BenchSpec == /\ BenchInit /\ [][BenchNext]_benchVars
             /\ WF_benchVars(Child) /\ WF_benchVars(Parent)

-----------------------------------------------------------------------------
(* Properties *)

\* rb.c's handoff and its validation.  Whatever the order of opens and
\* closes, the child, whose data exceeds the ring, cannot finish and delete
\* it before the parent has attached to the same one.  The validation fails
\* only if the fork did: when the parent gets past wait and close, read_buf
\* has the contents of write_buf, the child is reaped and the registry is
\* empty again.  And "Child failed to write" is never reported: the only
\* child with a status other than 0 is one whose close was refused, and
\* reaping that one panics.
Validates ==
    /\ wpc = "done" => generation = 1 /\ ppc # "open"
    /\ ppc = "failed" => cpc = "none"
    /\ ppc = "passed" => refcount = 0 /\ cpc = "reaped"
    /\ ppc # "child_failed"

\* Once both processes have their ring open the benchmark passes its
\* validation, unless a close was refused to the child (the parent's wait
\* then panics) or to the parent, which leaves with the ring mapped: neither
\* loop polls for ever on a full or an empty ring, and wait is answered.
BenchCompletes ==
    (cpc = "stream" /\ ppc = "stream")
        ~> (ppc = "passed" \/ panicked \/ (ppc = "exited" /\ rring # 0))
=============================================================================
