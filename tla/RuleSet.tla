------------------------------- MODULE RuleSet -------------------------------
(***************************************************************************)
(* What the action rules promise their users: a set of rules in force that *)
(* grows by one rule at a time and loses none.  The promise ends when the  *)
(* driver is short of memory (short).                                      *)
(***************************************************************************)
CONSTANT Rule

VARIABLES inForce,  \* the rules in force
          short     \* an allocation has failed, or freed memory was read

Init == inForce = {} /\ short = FALSE

Enforce == /\ ~short
           /\ inForce' \in {inForce \cup {rule} : rule \in Rule \ inForce}
           /\ UNCHANGED short

RunShort == short' = TRUE /\ inForce' \subseteq Rule

Next == Enforce \/ RunShort

Spec == Init /\ [][Next]_<<inForce, short>>
=============================================================================
