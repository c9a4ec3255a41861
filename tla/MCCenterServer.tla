--------------------------- MODULE MCCenterServer ---------------------------
(* CenterServer for TLC: the batches an agent sends, and the symmetry.     *)
EXTENDS CenterServer, TLC

CONSTANT MaxBatch

\* Every sequence of one to MaxBatch records.
Batches == UNION {[1..n -> File] : n \in 1..MaxBatch}

Symmetry == Permutations(Session) \cup Permutations(Parser) \cup Permutations(File)
=============================================================================
