---------------------------- MODULE ExclusiveUse ----------------------------
(***************************************************************************)
(* What a mutual-exclusion helper promises, with nothing of how it does    *)
(* it: a resource has no user or one user, and it never passes from one    *)
(* user to the next without having been given back.  KernelMutex is shown  *)
(* to implement this specification.                                        *)
(***************************************************************************)
CONSTANTS Thread,   \* the threads that want the resource
          NoThread  \* "nobody"

VARIABLE user       \* the thread inside its critical section, or NoThread

TypeOK == user \in Thread \cup {NoThread}

Init == user = NoThread

Take(t) == user = NoThread /\ user' = t

Give(t) == user = t /\ user' = NoThread

Next == \E t \in Thread : Take(t) \/ Give(t)

Spec == Init /\ [][Next]_user
=============================================================================
