-------------------------- MODULE RingbufKernelMC --------------------------
(* Processes are interchangeable, and so are names other than the empty one. *)
EXTENDS RingbufKernel, TLC

Symmetry == Permutations(Procs) \cup Permutations(Names \ {""})
=============================================================================
