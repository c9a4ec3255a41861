----------------------------- MODULE MCUserIoctl -----------------------------
(* UserIoctl for TLC: what the kernel lists.                               *)
EXTENDS UserIoctl

CONSTANT Count

\* The second one is too low for START_HOOKING.
Listed == [i \in 1..Count |-> IF i = 2 THEN 1000 ELSE 1000 + 4 * i]
=============================================================================
