--------------------------- MODULE MCKernelMutex ---------------------------
(* KernelMutex for TLC: the threads are interchangeable.                   *)
EXTENDS KernelMutex, TLC

Symmetry == Permutations(Thread)
=============================================================================
