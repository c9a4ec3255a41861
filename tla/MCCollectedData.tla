-------------------------- MODULE MCCollectedData --------------------------
(* CollectedData for TLC: how far a doubly created lock is followed.       *)
EXTENDS CollectedData

CONSTANT MaxRaced

\* The threads on their way to the buffer, or through with it.
Started ==
    {e \in Event : callback[e] # "none"} \cup (IF polls = 0 THEN {} ELSE {Comm})

\* A lock that two threads have created is followed with MaxRaced threads only.
Followed == Lk!CreatedOnce \/ Cardinality(Started) <= MaxRaced
=============================================================================
