----------------------------- MODULE KernelMutex -----------------------------
(***************************************************************************)
(* The agent's lock helper (Mutex_with_Lock_logic.c): a record             *)
(* {PKMUTEX Mutex; BOOLEAN is_Lock} that is created by its first user, and *)
(* whose release is skipped when is_Lock is not set.  Neither field is     *)
(* protected by anything, so every read and every write of one is a step.  *)
(*                                                                         *)
(* A KMUTEX object is named after the thread that allocated it: a thread   *)
(* allocates at most once, because the pointer never returns to NULL.      *)
(* KMUTEX itself (external) is recursive, and the kernel stops the machine *)
(* (bugcheck) when a thread releases a mutex that it does not own.         *)
(***************************************************************************)
EXTENDS Naturals, FiniteSets

CONSTANTS Thread,    \* the threads that share one Util_Mutex_with_Lock
          NoThread   \* the NULL pointer, and the owner of a free mutex

ASSUME NoThreadAssumption == NoThread \notin Thread

VARIABLES
    mutex,     \* Mutex_Struct->Mutex: the object pointed to, or NoThread
    isLock,    \* Mutex_Struct->is_Lock
    ready,     \* ready[o]: KeInitializeMutex has been called on object o
    owner,     \* owner[o]: the thread that owns object o
    depth,     \* depth[o]: how often its owner has acquired it
    created,   \* the objects that were ever allocated
    pc,        \* where each thread is in the two functions
    target,    \* target[t]: the object thread t passed to KeWaitForSingleObject
    bugcheck   \* the machine has stopped

objVars  == <<ready, owner, depth, created>>
lockVars == <<mutex, isLock, objVars, pc, target, bugcheck>>

Labels == {"idle", "alloc", "init", "flag", "aim", "wait", "mark", "held",
           "signal", "reset"}

\* The labels between a successful wait and the call of KeReleaseMutex.
Critical == {"mark", "held", "signal"}

TypeOK ==
    /\ mutex \in Thread \cup {NoThread}
    /\ isLock \in BOOLEAN
    /\ ready \in [Thread -> BOOLEAN]
    /\ owner \in [Thread -> Thread \cup {NoThread}]
    /\ depth \in [Thread -> Nat]
    /\ created \subseteq Thread
    /\ pc \in [Thread -> Labels]
    /\ target \in [Thread -> Thread \cup {NoThread}]
    /\ bugcheck \in BOOLEAN

-----------------------------------------------------------------------------
\* Before anybody has used the lock: { NULL, 0 }.
Init ==
    /\ mutex = NoThread
    /\ isLock = FALSE
    /\ ready = [t \in Thread |-> FALSE]
    /\ owner = [t \in Thread |-> NoThread]
    /\ depth = [t \in Thread |-> 0]
    /\ created = {}
    /\ pc = [t \in Thread |-> "idle"]
    /\ target = [t \in Thread |-> NoThread]
    /\ bugcheck = FALSE

Goto(t, from, to) ==
    /\ ~bugcheck
    /\ pc[t] = from
    /\ pc' = [pc EXCEPT ![t] = to]

-----------------------------------------------------------------------------
(* Initilize_or_Locking_PKmutex(Mutex_Struct, TRUE)                        *)

\* Line 6: is there a mutex yet?
Enter(t) ==
    /\ Goto(t, "idle", IF mutex = NoThread THEN "alloc" ELSE "aim")
    /\ UNCHANGED <<mutex, isLock, objVars, target, bugcheck>>

\* Lines 7-8: the new object replaces whatever the pointer holds by now.
Create(t) ==
    /\ Goto(t, "alloc", "init")
    /\ mutex' = t
    /\ created' = created \cup {t}
    /\ UNCHANGED <<isLock, ready, owner, depth, target, bugcheck>>

\* Lines 7-9: the pool is empty, and memset(NULL) comes before the test.
CreateFails(t) ==
    /\ Goto(t, "alloc", "alloc")
    /\ bugcheck' = TRUE
    /\ UNCHANGED <<mutex, isLock, objVars, target>>

\* Line 11: initialises the object the pointer holds now, owned or not.
Initialize(t) ==
    /\ Goto(t, "init", "flag")
    /\ ready' = [ready EXCEPT ![mutex] = TRUE]
    /\ owner' = [owner EXCEPT ![mutex] = NoThread]
    /\ depth' = [depth EXCEPT ![mutex] = 0]
    /\ UNCHANGED <<mutex, isLock, created, target, bugcheck>>

\* Line 12
ClearFlag(t) ==
    /\ Goto(t, "flag", "aim")
    /\ isLock' = FALSE
    /\ UNCHANGED <<mutex, objVars, target, bugcheck>>

\* Lines 15-16: the pointer is read and handed to KeWaitForSingleObject.
Aim(t) ==
    /\ Goto(t, "aim", "wait")
    /\ target' = [target EXCEPT ![t] = mutex]
    /\ UNCHANGED <<mutex, isLock, objVars, bugcheck>>

\* Mutant of Acquire: the wait has a timeout and its result is not looked at.
AcquireTimesOut(t) ==
    /\ Goto(t, "wait", "mark")
    /\ ready[target[t]]
    /\ owner' = [owner EXCEPT ![target[t]] = t]
    /\ depth' = [depth EXCEPT ![target[t]] = @ + 1]
    /\ UNCHANGED <<mutex, isLock, ready, created, target, bugcheck>>

\* Line 16: the wait is satisfied.
Acquire(t) ==
    /\ Goto(t, "wait", "mark")
    /\ ready[target[t]]
    /\ owner[target[t]] \in {t, NoThread}
    /\ owner' = [owner EXCEPT ![target[t]] = t]
    /\ depth' = [depth EXCEPT ![target[t]] = @ + 1]
    /\ UNCHANGED <<mutex, isLock, ready, created, target, bugcheck>>

\* Line 16 on an object that another thread has allocated but not yet
\* initialised: undefined; the kernel stops, or the thread just waits.
WaitOnRaw(t) ==
    /\ Goto(t, "wait", "wait")
    /\ ~ready[target[t]]
    /\ bugcheck' = TRUE
    /\ UNCHANGED <<mutex, isLock, objVars, target>>

\* Line 17
SetFlag(t) ==
    /\ Goto(t, "mark", "held")
    /\ isLock' = TRUE
    /\ UNCHANGED <<mutex, objVars, target, bugcheck>>

-----------------------------------------------------------------------------
(* Release_PKmutex(Mutex_Struct)                                           *)

\* Mutant of Release: is_Lock is cleared before it is tested.
ReleaseNever(t) ==
    /\ Goto(t, "held", "idle")
    /\ isLock' = FALSE
    /\ UNCHANGED <<mutex, objVars, target, bugcheck>>

\* Lines 25 and 27: nothing is released unless is_Lock is set.
Release(t) ==
    /\ Goto(t, "held", IF mutex # NoThread /\ isLock THEN "signal" ELSE "idle")
    /\ UNCHANGED <<mutex, isLock, objVars, target, bugcheck>>

\* Mutant of Signal: a mutex that gives way to any thread.
SignalUnowned(t) ==
    /\ Goto(t, "signal", "reset")
    /\ depth' = [depth EXCEPT ![mutex] = @ - 1]
    /\ owner' = [owner EXCEPT ![mutex] = IF depth[mutex] = 1 THEN NoThread ELSE @]
    /\ UNCHANGED <<mutex, isLock, ready, created, target, bugcheck>>

\* Line 28: KeReleaseMutex on the object the pointer holds now.
Signal(t) ==
    /\ Goto(t, "signal", "reset")
    /\ IF owner[mutex] = t
       THEN /\ depth' = [depth EXCEPT ![mutex] = @ - 1]
            /\ owner' = [owner EXCEPT ![mutex] = IF depth[mutex] = 1 THEN NoThread ELSE t]
            /\ UNCHANGED bugcheck
       ELSE /\ bugcheck' = TRUE
            /\ UNCHANGED <<depth, owner>>
    /\ UNCHANGED <<mutex, isLock, ready, created, target>>

\* Line 29
Reset(t) ==
    /\ Goto(t, "reset", "idle")
    /\ isLock' = FALSE
    /\ UNCHANGED <<mutex, objVars, target, bugcheck>>

-----------------------------------------------------------------------------
Lock(t) ==
    \/ Enter(t) \/ Create(t) \/ CreateFails(t) \/ Initialize(t) \/ ClearFlag(t)
    \/ Aim(t) \/ Acquire(t) \/ WaitOnRaw(t) \/ SetFlag(t)

Unlock(t) == Release(t) \/ Signal(t) \/ Reset(t)

Next == \E t \in Thread : Lock(t) \/ Unlock(t)

Spec == Init /\ [][Next]_lockVars

-----------------------------------------------------------------------------
(* Properties                                                              *)

\* No two threads are between a wait on the lock and its release at once:
\* what every caller of Initilize_or_Locking_PKmutex relies on.
MutualExclusion ==
    \A t, u \in Thread : pc[t] \in Critical /\ pc[u] \in Critical => t = u

\* The lock excludes as long as only one thread has run the creation branch
\* (lines 6-13), whatever is_Lock does and however late it is initialised.
CreatedOnce == \A o, p \in created : o = p

ExclusionUnlessCreatedTwice == CreatedOnce => MutualExclusion

\* Once the lock exists, is initialised and nobody is creating another one, the
\* helper never stops the machine: nobody waits on a raw object and nobody
\* releases a mutex of another thread, however is_Lock is cleared and set.
Settled ==
    /\ CreatedOnce
    /\ mutex # NoThread /\ ready[mutex]
    /\ \A t \in Thread : pc[t] # "alloc"

StopsOnlyWhileCreating == [][Settled => bugcheck' = bugcheck]_lockVars

\* A release is skipped (line 27) only because another thread's late line 29
\* has cleared is_Lock, and a thread that found the mutex orphaned can no
\* longer reach its line 29: at most one release per other thread is lost, so
\* the recursion depth of the KMUTEX never passes the number of threads.
OrphanDepthBounded == \A o \in Thread : depth[o] <= Cardinality(Thread)

\* The promise of ExclusiveUse, the user being the thread in its critical
\* section; the promise is given up when a second object appears.
User == IF CreatedOnce /\ \E t \in Thread : pc[t] \in Critical
        THEN CHOOSE t \in Thread : pc[t] \in Critical
        ELSE NoThread

Exclusive == INSTANCE ExclusiveUse WITH user <- User

\* A lock that was created once implements exclusive use: a thread gets in only
\* after the one before it has called KeReleaseMutex or skipped it.
ImplementsExclusiveUse == Exclusive!Spec
=============================================================================
