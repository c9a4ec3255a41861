------------------------- MODULE KernelMutexProofs -------------------------
(***************************************************************************)
(* Theorems about KernelMutex, for every set of threads.  What keeps the   *)
(* threads apart is the ownership of the one KMUTEX object the pointer     *)
(* designates, as long as there is one; is_Lock plays no part in it.       *)
(* The modules that use the lock build on ColdInv.                         *)
(***************************************************************************)
EXTENDS KernelMutex, FiniteSetTheorems, TLAPS

\* What holds as long as one object has been created: it is initialised by the
\* thread it is named after before anybody gets through, every waiter aims at
\* it, and whoever is critical owns it.
OneObject ==
    /\ \A t \in Thread : pc[t] = "init" => mutex = t /\ ~ready[mutex]
    /\ \A t \in Thread : pc[t] = "wait" => target[t] = mutex
    /\ \A t \in Thread :
        pc[t] \in Critical => ready[mutex] /\ owner[mutex] = t /\ depth[mutex] >= 1

\* The inductive invariant: who has allocated, and OneObject.
ColdInv ==
    /\ TypeOK
    /\ mutex = NoThread => created = {}
    /\ mutex # NoThread => mutex \in created
    /\ \A t \in Thread : pc[t] = "alloc" => t \notin created
    /\ \A t \in Thread : pc[t] = "init" => t \in created
    /\ \A t \in Thread : ready[t] => t \in created
    /\ \A t \in Thread : owner[t] # NoThread => depth[t] >= 1
    /\ \A t \in Thread : pc[t] = "wait" => target[t] # NoThread
    /\ \A t \in Thread : pc[t] \notin {"idle", "alloc"} => mutex # NoThread
    /\ CreatedOnce => OneObject

LEMMA ColdInvInit == Init => ColdInv
<1> SUFFICES ASSUME Init PROVE ColdInv
  OBVIOUS
<1> USE DEF Init
<1>1. TypeOK
  BY DEF TypeOK, Labels
<1> QED
  BY <1>1 DEF ColdInv, OneObject, Critical

\* The object of a lock that was created once and is being initialised is
\* nobody's yet.
LEMMA ColdInvStep == ColdInv /\ [Next]_lockVars => ColdInv'
<1> SUFFICES ASSUME ColdInv, [Next]_lockVars PROVE ColdInv'
  OBVIOUS
<1> USE NoThreadAssumption DEF ColdInv, OneObject, CreatedOnce, TypeOK, Labels, Critical, Goto, objVars
<1>1. ASSUME NEW t \in Thread, Enter(t) PROVE ColdInv'
  BY <1>1 DEF Enter
<1>2. ASSUME NEW t \in Thread, Create(t) PROVE ColdInv'
  <2>1. /\ pc[t] = "alloc" /\ pc' = [pc EXCEPT ![t] = "init"]
        /\ mutex' = t /\ created' = created \cup {t}
        /\ UNCHANGED <<isLock, ready, owner, depth, target, bugcheck>>
    BY <1>2 DEF Create
  <2>2. TypeOK'
    BY <2>1
  <2>3. ASSUME CreatedOnce' PROVE OneObject'
    <3>1. created = {}
      BY <2>1, <2>3
    <3>2. mutex = NoThread
      BY <3>1
    <3>3. \A u \in Thread : pc[u] \in {"idle", "alloc"}
      BY <3>2
    <3>4. ~ready[t]
      BY <3>1
    <3> QED
      BY <2>1, <3>3, <3>4
  <2> QED
    BY <2>1, <2>2, <2>3
<1>3. ASSUME NEW t \in Thread, CreateFails(t) PROVE ColdInv'
  BY <1>3 DEF CreateFails
<1>4. ASSUME NEW t \in Thread, Initialize(t) PROVE ColdInv'
  BY <1>4 DEF Initialize
<1>5. ASSUME NEW t \in Thread, ClearFlag(t) PROVE ColdInv'
  BY <1>5 DEF ClearFlag
<1>6. ASSUME NEW t \in Thread, Aim(t) PROVE ColdInv'
  BY <1>6 DEF Aim
<1>7. ASSUME NEW t \in Thread, Acquire(t) PROVE ColdInv'
  <2>1. /\ pc[t] = "wait" /\ pc' = [pc EXCEPT ![t] = "mark"]
        /\ ready[target[t]] /\ owner[target[t]] \in {t, NoThread} /\ target[t] \in Thread
        /\ owner' = [owner EXCEPT ![target[t]] = t]
        /\ depth' = [depth EXCEPT ![target[t]] = depth[target[t]] + 1]
        /\ UNCHANGED <<mutex, isLock, ready, created, target, bugcheck>>
    BY <1>7 DEF Acquire
  <2>2. TypeOK'
    BY <2>1
  <2>3. ASSUME CreatedOnce PROVE OneObject'
    <3>1. target[t] = mutex
      BY <2>1, <2>3
    <3>2. \A u \in Thread : pc[u] \in Critical => u = t
      BY <2>1, <2>3, <3>1
    <3> QED
      BY <2>1, <2>3, <3>1, <3>2
  <2> QED
    BY <2>1, <2>2, <2>3
<1>8. ASSUME NEW t \in Thread, WaitOnRaw(t) PROVE ColdInv'
  BY <1>8 DEF WaitOnRaw
<1>9. ASSUME NEW t \in Thread, SetFlag(t) PROVE ColdInv'
  BY <1>9 DEF SetFlag
<1>10. ASSUME NEW t \in Thread, Release(t) PROVE ColdInv'
  BY <1>10 DEF Release
<1>11. ASSUME NEW t \in Thread, Signal(t) PROVE ColdInv'
  <2>1. /\ pc[t] = "signal" /\ pc' = [pc EXCEPT ![t] = "reset"] /\ mutex \in Thread
        /\ UNCHANGED <<mutex, isLock, ready, created, target>>
    BY <1>11 DEF Signal
  <2>2. CASE owner[mutex] = t
    <3>0. depth[mutex] >= 1
      BY <2>1, <2>2
    <3>1. /\ depth' = [depth EXCEPT ![mutex] = depth[mutex] - 1]
          /\ owner' = [owner EXCEPT ![mutex] = IF depth[mutex] = 1 THEN NoThread ELSE t]
          /\ UNCHANGED bugcheck
      BY <1>11, <2>2 DEF Signal
    <3>2. TypeOK'
      BY <2>1, <2>2, <3>0, <3>1
    <3>3. CreatedOnce => \A u \in Thread : pc'[u] \notin Critical
      BY <2>1, <2>2
    <3> QED
      BY <2>1, <3>0, <3>1, <3>2, <3>3
  <2>3. CASE owner[mutex] # t
    <3>1. bugcheck' = TRUE /\ UNCHANGED <<owner, depth>>
      BY <1>11, <2>3 DEF Signal
    <3> QED
      BY <2>1, <2>3, <3>1
  <2> QED
    BY <2>2, <2>3
<1>12. ASSUME NEW t \in Thread, Reset(t) PROVE ColdInv'
  BY <1>12 DEF Reset
<1>13. CASE UNCHANGED lockVars
  BY <1>13 DEF lockVars
<1> QED
  BY <1>1, <1>2, <1>3, <1>4, <1>5, <1>6, <1>7, <1>8, <1>9, <1>10, <1>11, <1>12, <1>13
  DEF Next, Lock, Unlock

LEMMA ColdInvAlways == Spec => []ColdInv
  BY ColdInvInit, ColdInvStep, PTL DEF Spec

\* Every variable of the lock keeps its type.
THEOREM LockTypeCorrect == Spec => []TypeOK
<1>1. ColdInv => TypeOK
  BY DEF ColdInv
<1> QED
  BY <1>1, ColdInvAlways, PTL

\* The critical sections of Send_or_Save and of the list functions never
\* overlap, in spite of the unprotected is_Lock and of the late initialisation,
\* unless two threads have run the creation branch.
LEMMA ColdExcludes == ColdInv => ExclusionUnlessCreatedTwice
  BY DEF ColdInv, OneObject, ExclusionUnlessCreatedTwice, MutualExclusion

THEOREM ExclusionFromTheFirstUse == Spec => []ExclusionUnlessCreatedTwice
  BY ColdExcludes, ColdInvAlways, PTL

\* A step of the settled lock does not stop the machine.
LEMMA SettledStep == ColdInv /\ [Next]_lockVars => [Settled => bugcheck' = bugcheck]_lockVars
<1> SUFFICES ASSUME ColdInv, Settled, [Next]_lockVars PROVE bugcheck' = bugcheck
  OBVIOUS
<1> USE DEF ColdInv, OneObject, Settled, TypeOK, Goto, Critical, objVars
<1>1. ASSUME NEW t \in Thread, CreateFails(t) \/ WaitOnRaw(t) PROVE FALSE
  BY <1>1 DEF CreateFails, WaitOnRaw
<1>2. ASSUME NEW t \in Thread, Signal(t) PROVE bugcheck' = bugcheck
  BY <1>2 DEF Signal
<1>3. ASSUME NEW t \in Thread,
             \/ Enter(t) \/ Create(t) \/ Initialize(t) \/ ClearFlag(t) \/ Aim(t)
             \/ Acquire(t) \/ SetFlag(t) \/ Release(t) \/ Reset(t)
      PROVE  bugcheck' = bugcheck
  BY <1>3 DEF Enter, Create, Initialize, ClearFlag, Aim, Acquire, SetFlag, Release, Reset
<1>4. CASE UNCHANGED lockVars
  BY <1>4 DEF lockVars
<1> QED
  BY <1>1, <1>2, <1>3, <1>4 DEF Next, Lock, Unlock

\* Neither a wait nor a release of the helper stops the machine once the lock
\* exists and nobody is creating another one.
THEOREM SettledLockNeverStops == Spec => StopsOnlyWhileCreating
  BY SettledStep, ColdInvAlways, PTL DEF Spec, StopsOnlyWhileCreating

-----------------------------------------------------------------------------
(* Refinement of ExclusiveUse                                              *)

\* Every step of the lock is a step of ExclusiveUse, or leaves the user alone.
LEMMA StepRefines == ColdInv /\ ColdInv' /\ [Next]_lockVars => [Exclusive!Next]_User
<1> SUFFICES ASSUME ColdInv, ColdInv', [Next]_lockVars PROVE [Exclusive!Next]_User
  OBVIOUS
<1>a. /\ ExclusionUnlessCreatedTwice /\ ExclusionUnlessCreatedTwice'
      /\ CreatedOnce' => CreatedOnce
  <2>1. created \subseteq created'
    BY DEF Next, Lock, Unlock, lockVars, objVars, Enter, Create, CreateFails, Initialize,
       ClearFlag, Aim, Acquire, WaitOnRaw, SetFlag, Release, Signal, Reset
  <2> QED
    BY <2>1, ColdExcludes DEF ColdInv, OneObject, ExclusionUnlessCreatedTwice,
       MutualExclusion, CreatedOnce
<1>b. CASE ~CreatedOnce
  BY <1>a, <1>b DEF User
<1>c. CASE CreatedOnce /\ ~CreatedOnce'
  <2>1. User' = NoThread
    BY <1>c DEF User
  <2>2. User = NoThread \/ User \in Thread
    BY DEF User
  <2> QED
    BY <2>1, <2>2 DEF Exclusive!Next, Exclusive!Give
<1> SUFFICES ASSUME CreatedOnce, CreatedOnce' PROVE [Exclusive!Next]_User
  BY <1>b, <1>c
<1>d. MutualExclusion /\ MutualExclusion'
  BY <1>a DEF ExclusionUnlessCreatedTwice
<1> USE <1>d DEF ColdInv, OneObject, TypeOK, Goto
<1>1. ASSUME \A t \in Thread : pc[t] \in Critical <=> pc'[t] \in Critical
      PROVE  User' = User
  <2>1. CASE \A t \in Thread : pc[t] \notin Critical
    <3>1. \A t \in Thread : pc'[t] \notin Critical
      BY <1>1, <2>1
    <3> QED
      BY <2>1, <3>1 DEF User
  <2>2. CASE \E t \in Thread : pc[t] \in Critical
    <3>1. PICK t \in Thread : pc[t] \in Critical
      BY <2>2
    <3>2. pc'[t] \in Critical
      BY <1>1, <3>1
    <3>3. User = t
      BY <3>1 DEF User, MutualExclusion
    <3>4. User' = t
      BY <3>2 DEF User, MutualExclusion
    <3> QED
      BY <3>3, <3>4
  <2> QED
    BY <2>1, <2>2
<1>2. ASSUME NEW t \in Thread, Acquire(t) PROVE Exclusive!Take(t)
  <2>1. pc[t] = "wait" /\ pc' = [pc EXCEPT ![t] = "mark"] /\ owner[mutex] \in {t, NoThread}
    BY <1>2 DEF Acquire
  <2>2. \A u \in Thread : pc[u] \notin Critical
    BY <2>1, NoThreadAssumption DEF Critical
  <2>3. User = NoThread
    BY <2>2 DEF User
  <2>4. pc'[t] \in Critical
    BY <2>1 DEF Critical
  <2>5. User' = t
    BY <2>4 DEF User, MutualExclusion
  <2> QED
    BY <2>3, <2>5 DEF Exclusive!Take
<1>3. ASSUME NEW t \in Thread, pc[t] \in Critical,
             pc' = [pc EXCEPT ![t] = "idle"] \/ pc' = [pc EXCEPT ![t] = "reset"]
      PROVE  Exclusive!Give(t)
  <2>1. User = t
    BY <1>3 DEF User, MutualExclusion
  <2>2. \A u \in Thread : pc'[u] \notin Critical
    BY <1>3 DEF MutualExclusion, Critical
  <2>3. User' = NoThread
    BY <2>2 DEF User
  <2> QED
    BY <2>1, <2>3 DEF Exclusive!Give
<1>4. ASSUME NEW t \in Thread, Lock(t) \/ Unlock(t), ~Acquire(t)
      PROVE  User' = User \/ Exclusive!Give(t)
  <2>1. CASE Enter(t) \/ Aim(t) \/ Reset(t) \/ SetFlag(t)
    BY <2>1, <1>1 DEF Enter, Aim, Reset, SetFlag, Critical, Labels
  <2>2. CASE Create(t) \/ CreateFails(t) \/ Initialize(t) \/ ClearFlag(t) \/ WaitOnRaw(t)
    BY <2>2, <1>1 DEF Create, CreateFails, Initialize, ClearFlag, WaitOnRaw, Critical, Labels
  <2>3. CASE Signal(t)
    BY <2>3, <1>3 DEF Signal, Critical
  <2>4. CASE Release(t)
    <3>1. CASE pc' = [pc EXCEPT ![t] = "idle"]
      BY <3>1, <2>4, <1>3 DEF Release, Critical
    <3>2. CASE pc' = [pc EXCEPT ![t] = "signal"]
      BY <3>2, <2>4, <1>1 DEF Release, Critical, Labels
    <3> QED
      BY <2>4, <3>1, <3>2 DEF Release
  <2> QED
    BY <1>4, <2>1, <2>2, <2>3, <2>4 DEF Lock, Unlock
<1>5. CASE UNCHANGED lockVars
  BY <1>5 DEF lockVars, User
<1> QED
  BY <1>2, <1>4, <1>5 DEF Next, Exclusive!Next

\* A lock that was created once implements exclusive use of what it guards, from
\* its first use on.
THEOREM LockImplementsExclusiveUse == Spec => ImplementsExclusiveUse
<1>1. Init => Exclusive!Init
  BY DEF Init, Exclusive!Init, User, Critical
<1> QED
  BY <1>1, ColdInvAlways, StepRefines, PTL
  DEF Spec, ImplementsExclusiveUse, Exclusive!Spec

-----------------------------------------------------------------------------
(* How deep an orphaned mutex gets                                         *)

ThreadsAreFinite == IsFiniteSet(Thread)

\* The threads other than t that have yet to clear is_Lock, at line 12 or 29.
Late(t) == {u \in Thread \ {t} : pc[u] \in {"flag", "reset"}}

\* What the next critical section of t adds to what it owns.
Due(t) == IF pc[t] \in Critical THEN 0 ELSE 1

\* t is about to skip its release.
Lapse(t) == IF pc[t] = "held" /\ ~isLock THEN 1 ELSE 0

Aims(t, o) == IF pc[t] = "wait" /\ target[t] = o THEN 1 ELSE 0

\* What its owner w may still add to the depth of object o: a lost release of
\* the object in use is paid for by a thread that was late and will not be
\* again, and an object that was replaced is waited for once.
Reserve(o, w) ==
    IF o = mutex THEN Due(w) + Lapse(w) + Cardinality(Late(w)) ELSE Aims(w, o)

Within(o) ==
    \A w \in Thread : owner[o] = w => depth[o] + Reserve(o, w) <= Cardinality(Thread)

DepthInv ==
    /\ \A o \in Thread : owner[o] # NoThread => ready[o]
    /\ \A o \in Thread : owner[o] = NoThread => depth[o] = 0
    /\ OrphanDepthBounded
    /\ ~bugcheck => \A o \in Thread : Within(o)

LEMMA ThreadsCount == ThreadsAreFinite => Cardinality(Thread) \in Nat
  BY FS_CardinalityType DEF ThreadsAreFinite

\* Some threads, all of them others than t.
LEMMA OtherThreads ==
  ASSUME ThreadsAreFinite, NEW t \in Thread, NEW S, S \subseteq Thread \ {t}
  PROVE  Cardinality(S) \in Nat /\ Cardinality(S) + 1 <= Cardinality(Thread)
<1>1. IsFiniteSet(Thread \ {t}) /\ Cardinality(Thread \ {t}) = Cardinality(Thread) - 1
  BY FS_RemoveElement DEF ThreadsAreFinite
<1>2. IsFiniteSet(S) /\ Cardinality(S) <= Cardinality(Thread \ {t})
  BY <1>1, FS_Subset
<1>3. Cardinality(S) \in Nat
  BY <1>2, FS_CardinalityType
<1> QED BY <1>1, <1>2, <1>3, ThreadsCount

LEMMA LateType ==
  ASSUME ThreadsAreFinite, NEW t \in Thread
  PROVE  /\ Cardinality(Late(t)) \in Nat
         /\ Cardinality(Late(t)) + 1 <= Cardinality(Thread)
         /\ Cardinality(Late(t)') \in Nat
         /\ Cardinality(Late(t)') + 1 <= Cardinality(Thread)
  BY OtherThreads DEF Late

\* Fewer threads are late.
LEMMA FewerLate ==
  ASSUME ThreadsAreFinite, NEW t \in Thread, Late(t)' \subseteq Late(t)
  PROVE  /\ Cardinality(Late(t)') \in Nat
         /\ Cardinality(Late(t)') <= Cardinality(Late(t))
<1>1. Late(t) \subseteq Thread
  BY DEF Late
<1>2. IsFiniteSet(Late(t))
  BY <1>1, FS_Subset DEF ThreadsAreFinite
<1> QED BY <1>2, FS_Subset, FS_CardinalityType

\* A thread has cleared is_Lock.
LEMMA OneLateLess ==
  ASSUME ThreadsAreFinite, NEW t \in Thread, NEW u \in Late(t), Late(t)' \subseteq Late(t) \ {u}
  PROVE  /\ Cardinality(Late(t)') \in Nat
         /\ Cardinality(Late(t)') + 1 <= Cardinality(Late(t))
<1>1. Late(t) \subseteq Thread
  BY DEF Late
<1>2. IsFiniteSet(Late(t))
  BY <1>1, FS_Subset DEF ThreadsAreFinite
<1>3. IsFiniteSet(Late(t) \ {u}) /\ Cardinality(Late(t) \ {u}) = Cardinality(Late(t)) - 1
  BY <1>2, FS_RemoveElement
<1>4. Cardinality(Late(t)') <= Cardinality(Late(t) \ {u})
  BY <1>3, FS_Subset
<1>5. Cardinality(Late(t)') \in Nat /\ Cardinality(Late(t)) \in Nat
  BY <1>2, <1>3, FS_Subset, FS_CardinalityType
<1> QED BY <1>3, <1>4, <1>5

LEMMA DepthInvInit == ThreadsAreFinite /\ Init => DepthInv
<1> SUFFICES ASSUME ThreadsAreFinite, Init PROVE DepthInv
  OBVIOUS
<1>1. \A o \in Thread : owner[o] = NoThread /\ depth[o] = 0
  BY DEF Init
<1> QED
  BY <1>1, ThreadsCount, NoThreadAssumption DEF DepthInv, OrphanDepthBounded, Within

LEMMA ReserveType ==
  ASSUME ThreadsAreFinite, NEW o \in Thread, NEW w \in Thread
  PROVE  Reserve(o, w) \in Nat /\ Reserve(o, w)' \in Nat
  BY LateType DEF Reserve, Due, Lapse, Aims

\* A step that leaves the objects and the pointer alone.
LEMMA QuietStep ==
  ASSUME ThreadsAreFinite, DepthInv, ColdInv, ~bugcheck, UNCHANGED <<mutex, ready, owner, depth>>,
         \A o, w \in Thread : owner[o] = w => Reserve(o, w)' <= Reserve(o, w)
  PROVE  DepthInv'
<1>1. ASSUME NEW o \in Thread PROVE Within(o)'
  <2> SUFFICES ASSUME NEW w \in Thread, owner[o] = w
               PROVE  depth[o] + Reserve(o, w)' <= Cardinality(Thread)
    BY DEF Within
  <2>1. depth[o] + Reserve(o, w) <= Cardinality(Thread)
    BY DEF DepthInv, Within
  <2>2. Reserve(o, w)' \in Nat
    BY ReserveType
  <2> QED BY <2>1, <2>2, ReserveType, ThreadsCount DEF ColdInv, TypeOK
<1>2. OrphanDepthBounded'
  BY DEF DepthInv, OrphanDepthBounded
<1> QED BY <1>1, <1>2 DEF DepthInv

\* The steps that move one thread and change nothing else.
LEMMA MoveKeepsDepth ==
  ASSUME ThreadsAreFinite, DepthInv, ColdInv, NEW t \in Thread,
         Enter(t) \/ Aim(t) \/ Release(t) \/ SetFlag(t)
  PROVE  DepthInv'
<1>1. /\ ~bugcheck /\ UNCHANGED <<mutex, ready, owner, depth>>
      /\ \A u \in Thread \ {t} : pc'[u] = pc[u] /\ target'[u] = target[u]
      /\ pc'[t] \notin {"flag", "reset"}
      /\ isLock => isLock'
  BY DEF Enter, Aim, Release, SetFlag, Goto, objVars, ColdInv, TypeOK
<1>2. ASSUME NEW o \in Thread, NEW w \in Thread, owner[o] = w
      PROVE  Reserve(o, w)' <= Reserve(o, w)
  <2>1. Cardinality(Late(w)') <= Cardinality(Late(w))
    BY <1>1, FewerLate DEF Late
  <2>2. o # mutex => Aims(w, o)' <= Aims(w, o)
    BY <1>1 DEF Enter, Aim, Release, SetFlag, Goto, Aims, ColdInv, TypeOK, objVars
  <2>3. w # t => Due(w)' = Due(w) /\ Lapse(w)' <= Lapse(w)
    BY <1>1 DEF Due, Lapse
  <2>4. o = mutex /\ w = t => Due(w)' + Lapse(w)' <= Due(w) + Lapse(w)
    BY NoThreadAssumption DEF Enter, Aim, Release, SetFlag, Goto, Due, Lapse, Critical, ColdInv, TypeOK, objVars
  <2>5. /\ Due(w) \in Nat /\ Due(w)' \in Nat /\ Lapse(w) \in Nat /\ Lapse(w)' \in Nat
    BY DEF Due, Lapse
  <2>6. o = mutex => Due(w)' + Lapse(w)' <= Due(w) + Lapse(w)
    BY <2>3, <2>4, <2>5
  <2> QED BY <1>1, <2>1, <2>2, <2>5, <2>6, LateType DEF Reserve
<1> QED BY <1>1, <1>2, QuietStep

\* A thread clears is_Lock: one thread less is late, and one release may lapse.
LEMMA ClearKeepsDepth ==
  ASSUME ThreadsAreFinite, DepthInv, ColdInv, NEW t \in Thread, ClearFlag(t) \/ Reset(t)
  PROVE  DepthInv'
<1>1. /\ ~bugcheck /\ UNCHANGED <<mutex, ready, owner, depth>> /\ target' = target
      /\ \A u \in Thread \ {t} : pc'[u] = pc[u]
      /\ pc[t] \in {"flag", "reset"} /\ pc'[t] \in {"aim", "idle"}
  BY DEF ClearFlag, Reset, Goto, objVars, ColdInv, TypeOK
<1>2. ASSUME NEW o \in Thread, NEW w \in Thread, owner[o] = w
      PROVE  Reserve(o, w)' <= Reserve(o, w)
  <2>1. Aims(w, o)' <= Aims(w, o)
    BY <1>1 DEF Aims
  <2>2. Due(w)' = Due(w) /\ Due(w) \in Nat
    BY <1>1 DEF Due, Critical
  <2>3. Lapse(w)' \in 0..1 /\ Lapse(w) \in 0..1
    BY DEF Lapse
  <2>4. CASE w = t
    <3>1. Lapse(w)' = 0
      BY <1>1, <2>4 DEF Lapse
    <3>2. Cardinality(Late(w)') <= Cardinality(Late(w))
      BY <1>1, FewerLate DEF Late
    <3> QED BY <1>1, <2>1, <2>2, <2>3, <3>1, <3>2, LateType DEF Reserve
  <2>5. CASE w # t
    <3>1. t \in Late(w) /\ Late(w)' \subseteq Late(w) \ {t}
      BY <1>1, <2>5 DEF Late
    <3>2. Cardinality(Late(w)') + 1 <= Cardinality(Late(w))
      BY <3>1, OneLateLess
    <3> QED BY <1>1, <2>1, <2>2, <2>3, <3>2, LateType DEF Reserve
  <2> QED BY <2>4, <2>5
<1> QED BY <1>1, <1>2, QuietStep

\* The new object is nobody's; the old one may be waited for once more.
LEMMA CreateKeepsDepth ==
  ASSUME ThreadsAreFinite, DepthInv, ColdInv, NEW t \in Thread, Create(t)
  PROVE  DepthInv'
<1>1. /\ ~bugcheck /\ UNCHANGED <<ready, owner, depth, target>> /\ mutex' = t
      /\ \A u \in Thread \ {t} : pc'[u] = pc[u]
      /\ pc'[t] = "init"
  BY DEF Create, Goto, ColdInv, TypeOK
<1>2. owner[t] = NoThread
  BY DEF Create, Goto, ColdInv, DepthInv
<1>3. ASSUME NEW o \in Thread, NEW w \in Thread, owner[o] = w
      PROVE  depth[o] + Reserve(o, w)' <= Cardinality(Thread)
  <2>1. o # mutex'
    BY <1>1, <1>2, <1>3, NoThreadAssumption
  <2>2. Aims(w, o)' <= Aims(w, o) /\ Aims(w, o) <= Due(w) /\ Lapse(w) \in Nat
    BY <1>1 DEF Aims, Due, Lapse, Critical
  <2>3. Aims(w, o) \in Nat /\ Aims(w, o)' \in Nat /\ Due(w) \in Nat
    BY DEF Aims, Due
  <2>4. Reserve(o, w)' <= Reserve(o, w)
    BY <2>1, <2>2, <2>3, LateType DEF Reserve
  <2>5. depth[o] + Reserve(o, w) <= Cardinality(Thread)
    BY <1>1, <1>3 DEF DepthInv, Within
  <2> QED BY <2>4, <2>5, ReserveType, ThreadsCount DEF ColdInv, TypeOK
<1>4. \A o \in Thread : Within(o)'
  BY <1>1, <1>3 DEF Within
<1> QED BY <1>1, <1>4 DEF DepthInv, OrphanDepthBounded

LEMMA InitializeKeepsDepth ==
  ASSUME ThreadsAreFinite, DepthInv, ColdInv, NEW t \in Thread, Initialize(t)
  PROVE  DepthInv'
<1>1. /\ ~bugcheck /\ UNCHANGED <<mutex, target, bugcheck>> /\ mutex \in Thread
      /\ \A u \in Thread \ {t} : pc'[u] = pc[u]
      /\ pc'[t] = "flag"
      /\ ready' = [ready EXCEPT ![mutex] = TRUE]
      /\ owner' = [owner EXCEPT ![mutex] = NoThread]
      /\ depth' = [depth EXCEPT ![mutex] = 0]
  BY DEF Initialize, Goto, ColdInv, TypeOK
<1>2. ASSUME NEW o \in Thread, NEW w \in Thread, owner'[o] = w
      PROVE  depth'[o] + Reserve(o, w)' <= Cardinality(Thread)
  <2>1. o # mutex /\ owner[o] = w /\ depth'[o] = depth[o]
    BY <1>1, <1>2, NoThreadAssumption DEF ColdInv, TypeOK
  <2>2. Aims(w, o)' <= Aims(w, o) /\ Aims(w, o) \in Nat /\ Aims(w, o)' \in Nat
    BY <1>1 DEF Aims
  <2>3. depth[o] + Aims(w, o) <= Cardinality(Thread)
    BY <1>1, <2>1 DEF DepthInv, Within, Reserve
  <2> QED BY <1>1, <2>1, <2>2, <2>3, ThreadsCount DEF Reserve, ColdInv, TypeOK
<1>3. \A o \in Thread : Within(o)'
  BY <1>2 DEF Within
<1>4. OrphanDepthBounded'
  BY <1>1, ThreadsCount DEF DepthInv, OrphanDepthBounded, ColdInv, TypeOK
<1>5. \A o \in Thread : /\ owner'[o] # NoThread => ready'[o]
                        /\ owner'[o] = NoThread => depth'[o] = 0
  BY <1>1 DEF DepthInv, ColdInv, TypeOK
<1> QED BY <1>3, <1>4, <1>5 DEF DepthInv

\* The object a thread gets is its own already, or was nobody's.
LEMMA AcquireKeepsDepth ==
  ASSUME ThreadsAreFinite, DepthInv, ColdInv, ColdInv', NEW t \in Thread, Acquire(t)
  PROVE  DepthInv'
<1> DEFINE p == target[t]
<1>1. /\ ~bugcheck /\ UNCHANGED <<mutex, target, ready, isLock, bugcheck>> /\ p \in Thread
      /\ \A u \in Thread \ {t} : pc'[u] = pc[u]
      /\ pc[t] = "wait" /\ pc'[t] = "mark" /\ ready[p]
      /\ owner[p] \in {t, NoThread}
      /\ owner' = [owner EXCEPT ![p] = t]
      /\ depth' = [depth EXCEPT ![p] = depth[p] + 1]
  BY DEF Acquire, Goto, ColdInv, TypeOK
<1>2. ASSUME NEW w \in Thread
      PROVE  /\ Late(w)' = Late(w)
             /\ Lapse(w)' <= Lapse(w) /\ Lapse(w) \in Nat /\ Lapse(w)' \in Nat
             /\ Due(w)' <= Due(w) /\ Due(w) \in Nat /\ Due(w)' \in Nat
             /\ w = t => Due(w) = 1 /\ Due(w)' = 0 /\ Lapse(w) = 0 /\ Lapse(w)' = 0
             /\ \A o \in Thread : /\ Aims(w, o)' <= Aims(w, o)
                                  /\ Aims(w, o) \in Nat /\ Aims(w, o)' \in Nat
                                  /\ w = t => Aims(w, o)' = 0
                                  /\ w = t /\ o = p => Aims(w, o) = 1
  BY <1>1 DEF Late, Lapse, Due, Aims, Critical
<1>3. ASSUME NEW o \in Thread, NEW w \in Thread, owner'[o] = w
      PROVE  depth'[o] + Reserve(o, w)' <= Cardinality(Thread)
  <2>1. Reserve(o, w)' <= Reserve(o, w)
    BY <1>1, <1>2, LateType DEF Reserve
  <2>2. CASE o # p
    <3>1. owner[o] = w /\ depth'[o] = depth[o]
      BY <1>1, <1>3, <2>2 DEF ColdInv, TypeOK
    <3>2. depth[o] + Reserve(o, w) <= Cardinality(Thread)
      BY <1>1, <3>1 DEF DepthInv, Within
    <3> QED BY <2>1, <3>1, <3>2, ReserveType, ThreadsCount DEF ColdInv, TypeOK
  <2>3. CASE o = p
    <3>1. w = t /\ depth'[o] = depth[o] + 1
      BY <1>1, <1>3, <2>3 DEF ColdInv, TypeOK
    <3>2. Reserve(o, w)' + 1 <= Reserve(o, w)
      BY <1>1, <1>2, <2>3, <3>1, LateType DEF Reserve
    <3>3. CASE owner[o] = t
      <4>1. depth[o] + Reserve(o, w) <= Cardinality(Thread)
        BY <1>1, <3>1, <3>3 DEF DepthInv, Within
      <4> QED BY <3>1, <3>2, <4>1, ReserveType, ThreadsCount DEF ColdInv, TypeOK
    <3>4. CASE owner[o] = NoThread
      <4>1. depth'[o] = 1
        BY <3>1, <3>4 DEF DepthInv
      <4>2. Reserve(o, w)' <= Cardinality(Late(w)')
        BY <1>1, <1>2, <3>1, LateType DEF Reserve
      <4> QED BY <4>1, <4>2, ReserveType, LateType, ThreadsCount
    <3> QED BY <1>1, <2>3, <3>3, <3>4
  <2> QED BY <2>2, <2>3
<1>4. \A o \in Thread : Within(o)'
  BY <1>3 DEF Within
<1>5. \A o \in Thread : /\ owner'[o] # NoThread => ready'[o]
                        /\ owner'[o] = NoThread => depth'[o] = 0
  BY <1>1, NoThreadAssumption DEF DepthInv, ColdInv, TypeOK
<1>6. OrphanDepthBounded'
  <2> SUFFICES ASSUME NEW o \in Thread PROVE depth'[o] <= Cardinality(Thread)
    BY DEF OrphanDepthBounded
  <2>1. CASE o = p
    <3>1. owner'[o] = t
      BY <1>1, <2>1 DEF ColdInv, TypeOK
    <3>2. depth'[o] + Reserve(o, t)' <= Cardinality(Thread)
      BY <3>1, <1>3
    <3> QED BY <3>2, ReserveType, ThreadsCount DEF ColdInv, TypeOK
  <2>2. CASE o # p
    BY <1>1, <2>2 DEF DepthInv, OrphanDepthBounded, ColdInv, TypeOK
  <2> QED BY <2>1, <2>2
<1> QED BY <1>4, <1>5, <1>6 DEF DepthInv

\* A release is either that of the owner or the end.
LEMMA SignalKeepsDepth ==
  ASSUME ThreadsAreFinite, DepthInv, ColdInv, NEW t \in Thread, Signal(t)
  PROVE  DepthInv'
<1>1. /\ ~bugcheck /\ UNCHANGED <<mutex, target, ready, isLock>> /\ mutex \in Thread
      /\ \A u \in Thread \ {t} : pc'[u] = pc[u]
      /\ pc[t] = "signal" /\ pc'[t] = "reset"
  BY DEF Signal, Goto, ColdInv, TypeOK
<1>2. CASE owner[mutex] # t
  BY <1>1, <1>2 DEF Signal, DepthInv, OrphanDepthBounded
<1>3. CASE owner[mutex] = t
  <2>1. depth[mutex] >= 1 /\ depth[mutex] \in Nat
    BY <1>1, <1>3, NoThreadAssumption DEF ColdInv, TypeOK
  <2>2. /\ depth' = [depth EXCEPT ![mutex] = depth[mutex] - 1]
        /\ owner' = [owner EXCEPT ![mutex] = IF depth[mutex] = 1 THEN NoThread ELSE t]
    BY <1>3 DEF Signal
  <2>3. ASSUME NEW o \in Thread, NEW w \in Thread, owner'[o] = w
        PROVE  depth'[o] + Reserve(o, w)' <= Cardinality(Thread)
    <3>1. owner[o] = w /\ depth'[o] = IF o = mutex THEN depth[o] - 1 ELSE depth[o]
      BY <1>1, <1>3, <2>2, <2>3, NoThreadAssumption DEF ColdInv, TypeOK
    <3>2. depth[o] + Reserve(o, w) <= Cardinality(Thread)
      BY <1>1, <3>1 DEF DepthInv, Within
    <3>3. CASE o = mutex
      <4>1. w = t
        BY <1>3, <3>1, <3>3
      <4>2. Late(w)' = Late(w)
        BY <1>1, <4>1 DEF Late
      <4>3. Due(w) = 0 /\ Due(w)' = 1 /\ Lapse(w) = 0 /\ Lapse(w)' = 0
        BY <1>1, <4>1 DEF Due, Lapse, Critical
      <4>4. Reserve(o, w)' = Reserve(o, w) + 1
        BY <1>1, <3>3, <4>2, <4>3, LateType DEF Reserve
      <4> QED BY <2>1, <3>1, <3>2, <3>3, <4>4, ReserveType, ThreadsCount
    <3>4. CASE o # mutex
      <4>1. Aims(w, o)' <= Aims(w, o) /\ Aims(w, o) \in Nat /\ Aims(w, o)' \in Nat
        BY <1>1 DEF Aims
      <4> QED BY <1>1, <3>1, <3>2, <3>4, <4>1, ThreadsCount DEF Reserve, ColdInv, TypeOK
    <3> QED BY <3>3, <3>4
  <2>4. \A o \in Thread : Within(o)'
    BY <2>3 DEF Within
  <2>5. OrphanDepthBounded'
    BY <1>1, <2>1, <2>2, ThreadsCount DEF DepthInv, OrphanDepthBounded, ColdInv, TypeOK
  <2>6. \A o \in Thread : /\ owner'[o] # NoThread => ready'[o]
                          /\ owner'[o] = NoThread => depth'[o] = 0
    BY <1>1, <1>3, <2>1, <2>2, NoThreadAssumption DEF DepthInv, ColdInv, TypeOK
  <2> QED BY <2>4, <2>5, <2>6 DEF DepthInv
<1> QED BY <1>2, <1>3

LEMMA DepthInvStep == ThreadsAreFinite /\ DepthInv /\ ColdInv /\ ColdInv' /\ [Next]_lockVars => DepthInv'
<1> SUFFICES ASSUME ThreadsAreFinite, DepthInv, ColdInv, ColdInv', [Next]_lockVars PROVE DepthInv'
  OBVIOUS
<1>1. ASSUME NEW t \in Thread, CreateFails(t) \/ WaitOnRaw(t) PROVE DepthInv'
  BY <1>1 DEF CreateFails, WaitOnRaw, objVars, DepthInv, OrphanDepthBounded
<1>2. CASE UNCHANGED lockVars
  <2>1. UNCHANGED <<mutex, ready, owner, depth, pc, target, isLock, bugcheck>>
    BY <1>2 DEF lockVars, objVars
  <2>2. ASSUME NEW o \in Thread PROVE Within(o)' <=> Within(o)
    BY <2>1 DEF Within, Reserve, Due, Lapse, Late, Aims
  <2> QED BY <2>1, <2>2 DEF DepthInv, OrphanDepthBounded
<1> QED
  BY <1>1, <1>2, MoveKeepsDepth, ClearKeepsDepth, CreateKeepsDepth, InitializeKeepsDepth,
     AcquireKeepsDepth, SignalKeepsDepth
  DEF Next, Lock, Unlock

\* However often a release is skipped, the recursion depth of a KMUTEX does not
\* pass the number of threads.
THEOREM OrphansStayShallow == ThreadsAreFinite /\ Spec => []OrphanDepthBounded
<1> SUFFICES ASSUME ThreadsAreFinite PROVE Spec => []OrphanDepthBounded
  OBVIOUS
<1>1. Init => DepthInv
  BY DepthInvInit
<1>2. DepthInv /\ ColdInv /\ ColdInv' /\ [Next]_lockVars => DepthInv'
  BY DepthInvStep
<1>3. DepthInv => OrphanDepthBounded
  BY DEF DepthInv
<1> QED BY <1>1, <1>2, <1>3, ColdInvAlways, PTL DEF Spec
=============================================================================
