-------------------------- MODULE CollectedDataProofs --------------------------
(***************************************************************************)
(* Theorems about CollectedData, for every set of events and any number of *)
(* polls.  The lock is taken over from KernelMutexProofs: its invariant    *)
(* holds for the lock of the buffer from the first use on, and as long as  *)
(* one thread has created it, whoever is between the lock and its release  *)
(* is alone with the buffer.                                               *)
(***************************************************************************)
EXTENDS CollectedData, SequenceTheorems, TLAPS

LkP == INSTANCE KernelMutexProofs

Filled(b) ==
    /\ Len(b) >= 2
    /\ b[1] = Header
    /\ \A j \in 2..Len(b) : b[j] \in Event

Appended(b, e) == IF b = <<>> THEN <<Header, e>> ELSE Append(b, e)

LockInv == LkP!ColdInv

\* The operations run under the lock; each thread keeps to its own.
SectionInv ==
    /\ \A t \in Thread : op[t] \in {"append", "publish", "free"} => pc[t] = "held"
    /\ op[Comm] \notin {"append", "publish"}
    /\ \A e \in Event : op[e] # "free"

\* What a thread has worked out about the buffer still fits the buffer.
DraftInv ==
    /\ \A e \in Event : op[e] = "publish" => draft[e] = Appended(buffer, e)
    /\ op[Comm] = "free" => buffer = draft[Comm] /\ buffer # <<>>

WireInv ==
    /\ buffer = <<>> \/ Filled(buffer)
    /\ WellFormedAnswers

\* The worker starts after the callback has, and signals after it has copied.
StackInv ==
    /\ StackRecordAlive
    /\ CallbackIsReleased
    /\ \A e \in Event : worker[e] \in {"copy", "signal"} => e \notin signalled
    /\ \A e \in Event :
         callback[e] \in {"none", "hash"} => worker[e] = "none" /\ e \notin signalled

\* The buffer is in order as long as one thread has created the lock.
BufferInv ==
    /\ TypeOK /\ LockInv /\ SectionInv
    /\ Lk!CreatedOnce => DraftInv /\ WireInv /\ Accounting

-----------------------------------------------------------------------------
LEMMA LockInvInit == Init => LockInv
  BY LkP!ColdInvInit, CollectedDataAssumption
  DEF Init, LockInv, Lk!Init, LkP!Init, CollectedDataAssumption, LkP!NoThreadAssumption

\* The steps of the lock are those KernelMutexProofs reasons about.
LEMMA LockStepIsNext ==
  ASSUME NEW t \in Thread, LockStep(t)
  PROVE  LkP!Next
<1>1. Lk!Lock(t) <=> LkP!Lock(t)
  BY DEF Lk!Lock, LkP!Lock, Lk!Enter, LkP!Enter, Lk!Create, LkP!Create, Lk!CreateFails,
     LkP!CreateFails, Lk!Initialize, LkP!Initialize, Lk!ClearFlag, LkP!ClearFlag,
     Lk!Aim, LkP!Aim, Lk!Acquire, LkP!Acquire, Lk!WaitOnRaw, LkP!WaitOnRaw,
     Lk!SetFlag, LkP!SetFlag, Lk!Goto, LkP!Goto, Lk!objVars, LkP!objVars
<1>2. Lk!Unlock(t) <=> LkP!Unlock(t)
  BY DEF Lk!Unlock, LkP!Unlock, Lk!Release, LkP!Release, Lk!Signal, LkP!Signal,
     Lk!Reset, LkP!Reset, Lk!Goto, LkP!Goto, Lk!objVars, LkP!objVars
<1> QED
  BY <1>1, <1>2 DEF LockStep, LkP!Next

\* All other steps leave the lock alone, or stop the machine.
LEMMA OthersKeepLock ==
  ASSUME bugcheck \in BOOLEAN,
         Connect \/ CommStep \/ Clash \/ \E e \in Event : CallbackStep(e) \/ WorkerStep(e)
  PROVE  UNCHANGED lockRest /\ (bugcheck' \/ UNCHANGED bugcheck)
<1>1. CASE Connect
  BY <1>1 DEF Connect, lockVars, lockRest
<1>2. CASE CommStep \/ Clash
  BY <1>2 DEF CommStep, Poll, NothingToSend, Transmit, FreeSent, Answer, Clash, InSection,
     Continue, lockVars, lockRest
<1>3. ASSUME NEW e \in Event, CallbackStep(e)
      PROVE  UNCHANGED <<lockRest, bugcheck>>
  BY <1>3 DEF CallbackStep, Notify, HashFails, StartWorker, CallbackReturns, lockVars, lockRest
<1>4. ASSUME NEW e \in Event, Copy(e) \/ SignalCopied(e) \/ BuildList(e)
      PROVE  UNCHANGED lockRest /\ (bugcheck' \/ UNCHANGED bugcheck)
  BY <1>4 DEF Copy, SignalCopied, BuildList, lockVars, lockRest
<1>5. ASSUME NEW e \in Event, WorkerExits(e)
      PROVE  UNCHANGED lockRest /\ (bugcheck' \/ UNCHANGED bugcheck)
  <2>1. bugcheck = FALSE /\ bugcheck' \in BOOLEAN /\ UNCHANGED lockRest
    BY <1>5 DEF WorkerExits
  <2> QED
    BY <2>1
<1>6. ASSUME NEW e \in Event, Convert(e) \/ CopyAndAppend(e) \/ Publish(e)
      PROVE  UNCHANGED <<lockRest, bugcheck>>
  BY <1>6 DEF Convert, CopyAndAppend, Publish, Continue, lockVars, lockRest
<1> QED
  BY <1>1, <1>2, <1>3, <1>4, <1>5, <1>6 DEF WorkerStep

LEMMA LockInvStep == TypeOK /\ LockInv /\ [Next]_vars => LockInv'
<1> SUFFICES ASSUME TypeOK, LockInv, [Next]_vars PROVE LockInv'
  OBVIOUS
<1>0. bugcheck \in BOOLEAN
  BY DEF TypeOK, Lk!TypeOK
<1>1. ASSUME UNCHANGED lockRest, bugcheck' \/ UNCHANGED bugcheck PROVE LockInv'
  <2>1. bugcheck' \in BOOLEAN
    BY <1>0, <1>1
  <2> QED
    BY <1>1, <2>1
    DEF LockInv, LkP!ColdInv, LkP!TypeOK, LkP!CreatedOnce, LkP!OneObject, lockRest
<1>2. ASSUME NEW t \in Thread, LockStep(t) PROVE LockInv'
  BY <1>2, LockStepIsNext, LkP!ColdInvStep, CollectedDataAssumption
  DEF LockInv, CollectedDataAssumption
<1>3. CASE UNCHANGED vars
  BY <1>1, <1>3 DEF vars, lockVars, lockRest
<1> QED
  BY <1>0, <1>1, <1>2, <1>3, OthersKeepLock DEF Next

\* The invariant of the lock includes its types.
LEMMA LockType == LockInv => Lk!TypeOK
  BY DEF LockInv, LkP!ColdInv, LkP!TypeOK, Lk!TypeOK, LkP!Labels, Lk!Labels

\* A second creation is not undone.
LEMMA OnceBefore ==
  ASSUME TypeOK, LockInv, [Next]_vars, Lk!CreatedOnce'
  PROVE  Lk!CreatedOnce
<1>1. ASSUME created \subseteq created' PROVE Lk!CreatedOnce
  BY <1>1 DEF Lk!CreatedOnce
<1>2. ASSUME NEW t \in Thread, LockStep(t) PROVE created \subseteq created'
  BY <1>2 DEF LockStep, Lk!Lock, Lk!Unlock, Lk!Enter, Lk!Create, Lk!CreateFails,
     Lk!Initialize, Lk!ClearFlag, Lk!Aim, Lk!Acquire, Lk!WaitOnRaw, Lk!SetFlag,
     Lk!Release, Lk!Signal, Lk!Reset, Lk!objVars
<1>3. ASSUME Connect \/ CommStep \/ Clash \/ \E e \in Event : CallbackStep(e) \/ WorkerStep(e)
      PROVE  created \subseteq created'
  BY <1>3, OthersKeepLock DEF TypeOK, Lk!TypeOK, lockRest
<1>4. ASSUME UNCHANGED vars PROVE created \subseteq created'
  BY <1>4 DEF vars, lockVars
<1> QED
  BY <1>1, <1>2, <1>3, <1>4 DEF Next

-----------------------------------------------------------------------------
(* Sequences                                                               *)

\* Appending a record to the buffer appends it to the records in it.
LEMMA RecordsOfAppended ==
  ASSUME NEW S, NEW b \in Seq(S), NEW e, NEW h
  PROVE  /\ b = <<>> => Tail(<<h, e>>) = <<e>>
         /\ b # <<>> => Tail(Append(b, e)) = Append(Tail(b), e)
<1>1. Tail(<<h, e>>) = <<e>>
  OBVIOUS
<1>2. ASSUME b # <<>> PROVE Tail(Append(b, e)) = Append(Tail(b), e)
  <2> DEFINE T == S \cup {e}
  <2>1. b \in Seq(T) /\ Append(b, e) \in Seq(T) /\ Append(b, e) # <<>>
    BY SeqMonotonic, LenProperties
  <2>2. Tail(b) \in Seq(T) /\ Append(Tail(b), e) \in Seq(T) /\ Tail(Append(b, e)) \in Seq(T)
    BY <1>2, <2>1, HeadTailProperties
  <2>3. Len(b) \in Nat \ {0} /\ Len(Tail(b)) = Len(b) - 1
    BY <1>2, <2>1, HeadTailProperties, EmptySeq
  <2>4. Len(Tail(Append(b, e))) = Len(Append(Tail(b), e))
    BY <2>1, <2>2, <2>3, HeadTailProperties
  <2>5. ASSUME NEW i \in 1..Len(b)
        PROVE  Tail(Append(b, e))[i] = Append(Tail(b), e)[i]
    <3>1. Tail(Append(b, e))[i] = Append(b, e)[i + 1]
      BY <2>1, <2>3, HeadTailProperties
    <3>2. CASE i = Len(b)
      <4>1. Append(b, e)[i + 1] = e /\ Append(Tail(b), e)[i] = e
        BY <2>1, <2>2, <2>3, <3>2
      <4> QED
        BY <3>1, <4>1
    <3>3. CASE i # Len(b)
      <4>0. i \in 1..Len(b)
        OBVIOUS
      <4>1. i \in 1..Len(Tail(b)) /\ i + 1 \in 1..Len(b)
        <5>1. \A n \in Nat \ {0} : \A k \in 1..n :
                k # n => k \in 1..(n - 1) /\ k + 1 \in 1..n
          OBVIOUS
        <5> QED
          BY <2>3, <3>3, <4>0, <5>1
      <4>2. Append(b, e)[i + 1] = b[i + 1] /\ Append(Tail(b), e)[i] = Tail(b)[i]
        BY <2>1, <2>2, <4>1
      <4>3. Tail(b)[i] = b[i + 1]
        BY <1>2, <4>1, HeadTailProperties
      <4> QED
        BY <3>1, <4>2, <4>3
    <3> QED
      BY <3>2, <3>3
  <2>6. Len(Tail(Append(b, e))) = Len(b)
    BY <2>2, <2>3, <2>4
  <2> HIDE DEF T
  <2>7. \A i \in 1..Len(Tail(Append(b, e))) : Tail(Append(b, e))[i] = Append(Tail(b), e)[i]
    BY <2>5, <2>6
  <2> QED
    BY <2>2, <2>4, <2>7, SeqEqual, Zenon
<1> QED
  BY <1>1, <1>2

-----------------------------------------------------------------------------
(* Types                                                                   *)

LEMMA TypeInit == Init => TypeOK
<1> SUFFICES ASSUME Init PROVE TypeOK
  OBVIOUS
<1>1. Lk!TypeOK
  BY LockInvInit, LockType
<1>2. <<>> \in Seq(Item)
  OBVIOUS
<1> QED
  BY <1>1, <1>2 DEF Init, TypeOK

LEMMA TypeStep == TypeOK /\ LockInv /\ [Next]_vars => TypeOK'
<1> SUFFICES ASSUME TypeOK, LockInv, [Next]_vars PROVE TypeOK'
  OBVIOUS
<1>0. Lk!TypeOK'
  <2>1. LockInv'
    BY LockInvStep
  <2> QED
    BY <2>1, LockType, PTL
<1> USE DEF TypeOK, Thread, Item, lockVars, lockRest, evtVars, datVars
<1> HIDE DEF Lk!TypeOK
<1>1. CASE Connect
  BY <1>0, <1>1 DEF Connect
<1>2. ASSUME NEW e \in Event, CallbackStep(e) PROVE TypeOK'
  BY <1>0, <1>2 DEF CallbackStep, Notify, HashFails, StartWorker, CallbackReturns
<1>3. ASSUME NEW e \in Event, Copy(e) \/ SignalCopied(e) \/ BuildList(e) \/ WorkerExits(e)
      PROVE  TypeOK'
  <2>1. CASE Copy(e)
    BY <1>0, <2>1 DEF Copy
  <2>2. CASE SignalCopied(e)
    BY <1>0, <2>2 DEF SignalCopied
  <2>3. CASE BuildList(e)
    <3>0. /\ worker' = [worker EXCEPT ![e] = "save"] \/ worker' = worker
          /\ op' = [op EXCEPT ![e] = "start"] \/ op' = op
      BY <2>3, Zenon DEF BuildList
    <3>1. worker' \in [Event -> {"none", "copy", "signal", "list", "save", "exit"}]
      BY <3>0
    <3>2. op' \in [Thread -> {"out", "start", "append", "publish", "free", "leave"}]
      BY <3>0
    <3>3. UNCHANGED <<connected, callback, signalled, buffer, draft, status, polls, wire,
                      accepted, confirmed>>
      BY <2>3 DEF BuildList
    <3> QED
      BY <1>0, <3>1, <3>2, <3>3
  <2>4. CASE WorkerExits(e)
    BY <1>0, <2>4 DEF WorkerExits
  <2> QED
    BY <1>3, <2>1, <2>2, <2>3, <2>4
<1>4. ASSUME NEW e \in Event, Convert(e) \/ CopyAndAppend(e) \/ Publish(e) PROVE TypeOK'
  <2>1. CASE Convert(e)
    BY <1>0, <2>1 DEF Convert, InSection, Continue
  <2>2. CASE CopyAndAppend(e)
    <3>1. <<Header, e>> \in Seq(Item) /\ Append(buffer, e) \in Seq(Item)
      OBVIOUS
    <3>2. op' \in [Thread -> {"out", "start", "append", "publish", "free", "leave"}]
      BY <2>2 DEF CopyAndAppend, Continue
    <3>3. draft' \in [Thread -> Seq(Item)]
      BY <2>2, <3>1 DEF CopyAndAppend
    <3>4. UNCHANGED <<evtVars, buffer, status, polls, wire, accepted, confirmed>>
      BY <2>2 DEF CopyAndAppend, Continue
    <3> QED
      BY <1>0, <3>2, <3>3, <3>4
  <2>3. CASE Publish(e)
    <3>1. draft[e] \in Seq(Item) /\ Append(accepted, e) \in Seq(Item) /\ <<>> \in Seq(Item)
      OBVIOUS
    <3> QED
      BY <1>0, <2>3, <3>1 DEF Publish, InSection, Continue
  <2> QED
    BY <1>4, <2>1, <2>2, <2>3
<1>5. CASE NothingToSend \/ FreeSent \/ Poll
  <2>1. <<>> \in Seq(Item)
    OBVIOUS
  <2>2. CASE NothingToSend
    BY <1>0, <2>2 DEF NothingToSend, InSection, Continue
  <2>3. CASE FreeSent
    BY <1>0, <2>1, <2>3 DEF FreeSent, InSection, Continue
  <2>4. CASE Poll
    BY <1>0, <2>4 DEF Poll
  <2> QED
    BY <1>5, <2>2, <2>3, <2>4
<1>6. CASE Transmit
  <2>1. confirmed \o Tail(buffer) \in Seq(Item)
    BY <1>6, HeadTailProperties, ConcatProperties DEF Transmit
  <2> QED
    BY <1>0, <1>6, <2>1 DEF Transmit, InSection, Continue
<1>7. CASE Answer
  <2>1. <<No>> \in Seq(Item)
    OBVIOUS
  <2> QED
    BY <1>0, <1>7, <2>1 DEF Answer
<1>8. ASSUME NEW t \in Thread, LockStep(t) PROVE TypeOK'
  BY <1>0, <1>8 DEF LockStep
<1>9. CASE Clash \/ UNCHANGED vars
  BY <1>0, <1>9 DEF Clash, vars
<1> QED
  BY <1>1, <1>2, <1>3, <1>4, <1>5, <1>6, <1>7, <1>8, <1>9 DEF Next, WorkerStep, CommStep

-----------------------------------------------------------------------------
(* The buffer                                                              *)

\* Two threads inside a lock that was created once are one.
LEMMA Alone ==
  ASSUME LockInv, Lk!CreatedOnce, NEW t \in Thread, NEW u \in Thread,
         pc[t] = "held", pc[u] = "held"
  PROVE  t = u
<1>1. LkP!CreatedOnce
  BY DEF Lk!CreatedOnce, LkP!CreatedOnce
<1> QED
  BY <1>1 DEF LockInv, LkP!ColdInv, LkP!OneObject, LkP!Critical

\* A step of the lock moves one thread, which is then at no operation.
LEMMA LockStepMoves ==
  ASSUME TypeOK, SectionInv, NEW t \in Thread, LockStep(t)
  PROVE  /\ op[t] \notin {"append", "publish", "free"}
         /\ \A u \in Thread \ {t} : pc'[u] = pc[u]
         /\ UNCHANGED <<evtVars, datVars>>
<1>1. \A u \in Thread \ {t} : pc'[u] = pc[u]
  <2>1. \E from, to : Lk!Goto(t, from, to)
    BY DEF LockStep, Lk!Lock, Lk!Unlock, Lk!Enter, Lk!Create, Lk!CreateFails,
       Lk!Initialize, Lk!ClearFlag, Lk!Aim, Lk!Acquire, Lk!WaitOnRaw, Lk!SetFlag,
       Lk!Release, Lk!Signal, Lk!Reset
  <2> QED
    BY <2>1 DEF Lk!Goto, TypeOK, Lk!TypeOK
<1> QED
  BY <1>1 DEF LockStep, SectionInv

\* The parts of the invariant say nothing of the variables of the callbacks.
LEMMA BufferInvUnchanged ==
  ASSUME Lk!CreatedOnce, SectionInv, DraftInv, WireInv, Accounting, UNCHANGED <<pc, datVars>>
  PROVE  DraftInv' /\ WireInv' /\ Accounting'
  BY DEF SectionInv, DraftInv, WireInv, Accounting, datVars, WellFormedAnswers, Records

LEMMA BufferWorkerStep ==
  ASSUME BufferInv, Lk!CreatedOnce, NEW e \in Event,
         Convert(e) \/ CopyAndAppend(e) \/ Publish(e)
  PROVE  DraftInv' /\ WireInv' /\ Accounting'
<1> USE CollectedDataAssumption DEF BufferInv
<1>0. e \in Thread /\ Comm \in Thread /\ e # Comm
  BY DEF Thread, CollectedDataAssumption
<1>1. pc[e] = "held" /\ UNCHANGED <<pc, wire, confirmed>>
  BY DEF Convert, CopyAndAppend, Publish, InSection, Continue, lockVars
<1>2. \A t \in Thread \ {e} : op[t] \notin {"append", "publish", "free"}
  BY <1>0, <1>1, Alone DEF SectionInv
<1>3. op \in [Thread -> {"out", "start", "append", "publish", "free", "leave"}]
      /\ draft \in [Thread -> Seq(Item)] /\ buffer \in Seq(Item)
  BY DEF TypeOK
<1>5. CASE Convert(e)
  <2>1. PICK to \in {"append", "leave"} : op' = [op EXCEPT ![e] = to]
    BY <1>5 DEF Convert, Continue
  <2>2. UNCHANGED <<buffer, draft, wire, accepted, confirmed>>
    BY <1>5 DEF Convert
  <2>3. op'[Comm] = op[Comm] /\ \A f \in Event : op'[f] = "publish" => op[f] = "publish"
    BY <1>0, <1>3, <2>1 DEF Thread
  <2> QED
    BY <2>1, <2>2, <2>3 DEF DraftInv, WireInv, Accounting, WellFormedAnswers, Records
<1>6. CASE CopyAndAppend(e)
  <2>1. UNCHANGED <<buffer, wire, accepted, confirmed>>
    BY <1>6 DEF CopyAndAppend
  <2>2. CASE op' = [op EXCEPT ![e] = "publish"] /\ draft' = [draft EXCEPT ![e] = Appended(buffer, e)]
    <3>1. op'[Comm] = op[Comm] /\ draft'[Comm] = draft[Comm] /\ op[Comm] # "free"
          /\ draft'[e] = Appended(buffer, e) /\ \A f \in Event \ {e} : op'[f] # "publish"
      BY <1>0, <1>2, <1>3, <2>2 DEF Thread
    <3> QED
      BY <2>1, <2>2, <3>1
      DEF DraftInv, WireInv, Accounting, WellFormedAnswers, Records, Appended
  <2>3. CASE op' = [op EXCEPT ![e] = "leave"] /\ UNCHANGED draft
    <3>1. op'[Comm] = op[Comm] /\ \A f \in Event : op'[f] = "publish" => op[f] = "publish"
      BY <1>0, <1>3, <2>3 DEF Thread
    <3> QED
      BY <2>1, <2>3, <3>1
      DEF DraftInv, WireInv, Accounting, WellFormedAnswers, Records
  <2> QED
    BY <1>6, <2>2, <2>3 DEF CopyAndAppend, Continue, Appended
<1>7. CASE Publish(e)
  <2>1. op[e] = "publish" /\ op' = [op EXCEPT ![e] = "leave"] /\ buffer' = draft[e]
        /\ accepted' = Append(accepted, e) /\ UNCHANGED <<wire, confirmed>>
    BY <1>7 DEF Publish, Continue, InSection
  <2>2. buffer' = Appended(buffer, e)
    BY <2>1 DEF DraftInv
  <2>3. op'[Comm] = op[Comm] /\ op[Comm] # "free" /\ \A f \in Event : op'[f] # "publish"
    BY <1>0, <1>2, <1>3, <2>1 DEF Thread
  <2>4. DraftInv'
    BY <2>3 DEF DraftInv
  <2>5. buffer' # <<>> /\ Filled(buffer')
    <3>1. CASE buffer = <<>>
      BY <2>2, <3>1 DEF Appended, Filled
    <3>2. CASE buffer # <<>>
      <4>1. Filled(buffer)
        BY <3>2 DEF WireInv
      <4>2. buffer' = Append(buffer, e)
        BY <2>2, <3>2 DEF Appended
      <4> QED
        BY <1>3, <4>1, <4>2 DEF Filled
    <3> QED
      BY <3>1, <3>2
  <2>6. Accounting'
    <3>1. accepted = confirmed \o Records(buffer) /\ Records(buffer) \in Seq(Item)
          /\ confirmed \in Seq(Item) /\ e \in Item
      BY <1>3, <2>3, HeadTailProperties DEF Accounting, Records, TypeOK, Item
    <3>2. Records(buffer') = Append(Records(buffer), e)
      <4>1. CASE buffer = <<>>
        BY <2>2, <2>5, <4>1, <1>3, RecordsOfAppended DEF Records, Appended
      <4>2. CASE buffer # <<>>
        BY <2>2, <2>5, <4>2, <1>3, RecordsOfAppended DEF Records, Appended
      <4> QED
        BY <4>1, <4>2
    <3>3. Append(confirmed \o Records(buffer), e) = confirmed \o Append(Records(buffer), e)
      <4>1. <<e>> \in Seq(Item) /\ confirmed \o Records(buffer) \in Seq(Item)
        BY <3>1, ConcatProperties
      <4>2. /\ Append(confirmed \o Records(buffer), e) = (confirmed \o Records(buffer)) \o <<e>>
            /\ Append(Records(buffer), e) = Records(buffer) \o <<e>>
        BY <3>1, <4>1
      <4> QED
        BY <3>1, <4>1, <4>2, ConcatAssociative
    <3> QED
      BY <2>1, <2>3, <3>1, <3>2, <3>3 DEF Accounting
  <2> QED
    BY <2>1, <2>4, <2>5, <2>6 DEF WireInv, WellFormedAnswers
<1> QED
  BY <1>5, <1>6, <1>7

LEMMA BufferCommStep ==
  ASSUME BufferInv, Lk!CreatedOnce, CommStep
  PROVE  DraftInv' /\ WireInv' /\ Accounting'
<1> USE CollectedDataAssumption DEF BufferInv
<1>0. Comm \in Thread /\ Comm \notin Event /\ UNCHANGED pc
  BY DEF Thread, CollectedDataAssumption, CommStep, Poll, NothingToSend, Transmit, FreeSent,
     Answer, Continue, lockVars
<1>1. op \in [Thread -> {"out", "start", "append", "publish", "free", "leave"}]
      /\ draft \in [Thread -> Seq(Item)] /\ buffer \in Seq(Item) /\ confirmed \in Seq(Item)
  BY DEF TypeOK
<1>2. ASSUME NEW to \in {"out", "start", "leave"}, op' = [op EXCEPT ![Comm] = to]
      PROVE  op'[Comm] = to /\ \A e \in Event : op'[e] = op[e]
  BY <1>0, <1>1, <1>2 DEF Thread
<1>3. CASE Poll \/ NothingToSend
  <2>1. PICK to \in {"start", "leave"} : op' = [op EXCEPT ![Comm] = to]
    BY <1>3 DEF Poll, NothingToSend, Continue
  <2>2. /\ UNCHANGED <<buffer, draft, accepted, confirmed>> /\ op[Comm] # "free"
        /\ wire' \in {wire, <<>>}
    BY <1>3 DEF Poll, NothingToSend, InSection
  <2> QED
    BY <1>2, <2>1, <2>2 DEF DraftInv, WireInv, Accounting, WellFormedAnswers, Records
<1>4. CASE Answer
  <2>1. op' = [op EXCEPT ![Comm] = "out"] /\ op[Comm] = "leave"
        /\ UNCHANGED <<buffer, draft, accepted, confirmed>>
        /\ wire' \in {wire, <<No>>}
    BY <1>4 DEF Answer
  <2> QED
    BY <1>2, <2>1 DEF DraftInv, WireInv, WellFormedAnswers, Accounting, Records
<1>5. CASE Transmit
  <2>1. op[Comm] = "start" /\ pc[Comm] = "held" /\ buffer # <<>>
        /\ UNCHANGED <<buffer, accepted>> /\ wire' \in {wire, buffer}
    BY <1>5 DEF Transmit, InSection
  <2>2. WireInv'
    BY <2>1 DEF WireInv, WellFormedAnswers, Filled
  <2>4. accepted = confirmed \o Tail(buffer)
    BY <2>1 DEF Accounting, Records
  <2>5. CASE /\ op' = [op EXCEPT ![Comm] = "free"] /\ confirmed' = confirmed \o Tail(buffer)
             /\ draft' = [draft EXCEPT ![Comm] = buffer]
    <3>1. /\ op'[Comm] = "free" /\ \A e \in Event : op'[e] = op[e]
          /\ draft'[Comm] = buffer /\ \A e \in Event : draft'[e] = draft[e]
      BY <1>0, <1>1, <2>5 DEF Thread
    <3>2. confirmed' \in Seq(Item)
      BY <1>1, <2>1, <2>5, HeadTailProperties, ConcatProperties
    <3>3. Accounting'
      BY <2>1, <2>4, <2>5, <3>1, <3>2, ConcatEmptySeq DEF Accounting
    <3> QED
      BY <2>1, <2>2, <3>1, <3>3 DEF DraftInv
  <2>6. CASE op' = [op EXCEPT ![Comm] = "leave"] /\ UNCHANGED <<draft, confirmed>>
    BY <1>2, <2>1, <2>2, <2>4, <2>6 DEF DraftInv, Accounting, Records
  <2> QED
    BY <1>5, <2>5, <2>6 DEF Transmit, Continue
<1>6. CASE FreeSent
  <2>1. op[Comm] = "free" /\ pc[Comm] = "held"
        /\ op' = [op EXCEPT ![Comm] = "leave"] /\ UNCHANGED <<wire, accepted, confirmed>>
    BY <1>6 DEF FreeSent, InSection, Continue
  <2>2. buffer' = <<>>
    BY <1>6, <2>1 DEF FreeSent, DraftInv
  <2>3. \A e \in Event : op[e] \notin {"append", "publish"}
    BY <1>0, <2>1, Alone DEF SectionInv, Thread
  <2>4. accepted = confirmed \o <<>>
    BY <2>1 DEF Accounting
  <2> QED
    BY <1>2, <2>1, <2>2, <2>3, <2>4
    DEF DraftInv, WireInv, Accounting, WellFormedAnswers, Records
<1> QED
  BY <1>3, <1>4, <1>5, <1>6 DEF CommStep

\* Wherever the threads are, they are at an operation of theirs.
LEMMA SectionInvStep ==
  ASSUME TypeOK, SectionInv, [Next]_vars
  PROVE  SectionInv'
<1> USE CollectedDataAssumption DEF TypeOK, Thread, CollectedDataAssumption
<1>1. ASSUME UNCHANGED <<pc, op>> PROVE SectionInv'
  BY <1>1 DEF SectionInv
<1>2. CASE Connect \/ Clash \/ UNCHANGED vars
  BY <1>1, <1>2 DEF Connect, Clash, vars, lockVars, lockRest, datVars
<1>3. ASSUME NEW e \in Event, CallbackStep(e) \/ Copy(e) \/ SignalCopied(e)
      PROVE  SectionInv'
  BY <1>1, <1>3 DEF CallbackStep, Notify, HashFails, StartWorker, CallbackReturns, Copy,
     SignalCopied, lockVars, lockRest, datVars
<1>4. ASSUME NEW e \in Event, BuildList(e) \/ WorkerExits(e) PROVE SectionInv'
  BY <1>1, <1>4 DEF BuildList, WorkerExits, lockRest, SectionInv
<1>5. ASSUME NEW e \in Event, Convert(e) \/ CopyAndAppend(e) \/ Publish(e) PROVE SectionInv'
  BY <1>5 DEF Convert, CopyAndAppend, Publish, InSection, Continue, lockVars, SectionInv
<1>6. CASE CommStep
  BY <1>6 DEF CommStep, Poll, NothingToSend, Transmit, FreeSent, Answer, InSection,
     Continue, lockVars, SectionInv
<1>7. ASSUME NEW t \in Thread, LockStep(t) PROVE SectionInv'
  BY <1>7, LockStepMoves DEF SectionInv, datVars
<1> QED
  BY <1>2, <1>3, <1>4, <1>5, <1>6, <1>7 DEF Next, WorkerStep

LEMMA BufferInvStep == BufferInv /\ [Next]_vars => BufferInv'
<1> SUFFICES ASSUME BufferInv, [Next]_vars PROVE BufferInv'
  OBVIOUS
<1>1. TypeOK' /\ LockInv' /\ SectionInv'
  BY TypeStep, LockInvStep, SectionInvStep DEF BufferInv
<1> SUFFICES ASSUME Lk!CreatedOnce' PROVE DraftInv' /\ WireInv' /\ Accounting'
  BY <1>1 DEF BufferInv
<1>a. TypeOK /\ LockInv /\ SectionInv /\ Lk!CreatedOnce /\ DraftInv /\ WireInv /\ Accounting
  BY OnceBefore DEF BufferInv
<1>2. CASE Connect \/ Clash \/ UNCHANGED vars
  BY <1>a, <1>2, BufferInvUnchanged DEF Connect, Clash, vars, lockVars, lockRest
<1>3. ASSUME NEW e \in Event, CallbackStep(e) \/ Copy(e) \/ SignalCopied(e)
      PROVE  DraftInv' /\ WireInv' /\ Accounting'
  <2>1. UNCHANGED <<pc, datVars>>
    BY <1>3 DEF CallbackStep, Notify, HashFails, StartWorker, CallbackReturns, Copy,
       SignalCopied, lockVars, lockRest
  <2> QED
    BY <1>a, <2>1, BufferInvUnchanged
<1>4. ASSUME NEW e \in Event, BuildList(e) \/ WorkerExits(e)
      PROVE  DraftInv' /\ WireInv' /\ Accounting'
  <2> USE CollectedDataAssumption DEF CollectedDataAssumption
  <2>1. UNCHANGED <<buffer, draft, wire, accepted, confirmed>>
    BY <1>4 DEF BuildList, WorkerExits
  <2>2. UNCHANGED op \/ \E to \in {"start", "out"} : op' = [op EXCEPT ![e] = to]
    BY <1>4 DEF BuildList, WorkerExits
  <2>3. op'[Comm] = op[Comm]
        /\ \A t \in Thread : op'[t] \in {"append", "publish", "free"} => op'[t] = op[t]
    BY <1>a, <2>2 DEF TypeOK, Thread
  <2> QED
    BY <1>a, <2>1, <2>3 DEF DraftInv, WireInv, Accounting, WellFormedAnswers, Records, Thread
<1>5. ASSUME NEW e \in Event, Convert(e) \/ CopyAndAppend(e) \/ Publish(e)
      PROVE  DraftInv' /\ WireInv' /\ Accounting'
  BY <1>a, <1>5, BufferWorkerStep
<1>6. CASE CommStep
  BY <1>a, <1>6, BufferCommStep
<1>7. ASSUME NEW t \in Thread, LockStep(t) PROVE DraftInv' /\ WireInv' /\ Accounting'
  <2>1. UNCHANGED datVars
    BY <1>7 DEF LockStep
  <2> QED
    BY <1>a, <2>1 DEF DraftInv, WireInv, Accounting, datVars, WellFormedAnswers, Records
<1> QED
  BY <1>2, <1>3, <1>4, <1>5, <1>6, <1>7 DEF Next, WorkerStep

LEMMA BufferInvInit == Init => BufferInv
<1> SUFFICES ASSUME Init PROVE BufferInv
  OBVIOUS
<1>1. TypeOK /\ LockInv
  BY TypeInit, LockInvInit
<1>2. op = [t \in Thread |-> "out"] /\ buffer = <<>> /\ wire = <<>> /\ accepted = <<>>
      /\ confirmed = <<>> /\ Comm \in Thread
  BY DEF Init, Thread
<1>3. SectionInv /\ DraftInv
  BY <1>2 DEF SectionInv, DraftInv, Thread
<1>4. <<>> \o <<>> = <<>>
  BY ConcatEmptySeq, EmptySeq
<1> QED
  BY <1>1, <1>2, <1>3, <1>4 DEF BufferInv, WireInv, WellFormedAnswers, Accounting, Records

LEMMA BufferInvAlways == Spec => []BufferInv
  BY BufferInvInit, BufferInvStep, PTL DEF Spec

-----------------------------------------------------------------------------
\* Every variable keeps its type.
THEOREM CollectedTypeCorrect == Spec => []TypeOK
<1>1. BufferInv => TypeOK
  BY DEF BufferInv
<1> QED
  BY <1>1, BufferInvAlways, PTL

\* From the first use of the lock on, however workers and polls interleave and
\* whichever sends fail: a record that has been appended to RAW_DATA__external_var
\* is lost, repeated or reordered only if two threads have created the lock.
THEOREM NothingIsLost == Spec => []Accounting
<1>1. BufferInv => Accounting
  BY DEF BufferInv, Accounting
<1> QED
  BY <1>1, BufferInvAlways, PTL

\* What the server receives is an id followed by records, or No, unless two
\* threads have created the lock.
THEOREM AnswersAreWellFormed == Spec => []WellFormedAnswers
<1>1. BufferInv => WellFormedAnswers
  BY DEF BufferInv, WireInv, WellFormedAnswers
<1> QED
  BY <1>1, BufferInvAlways, PTL

\* The buffer that has been sent is the one that is freed: the integrity check
\* after the send is needed only when two threads have created the lock.
THEOREM SentBufferIsFreed == Spec => []SentBufferStays
<1>1. BufferInv => SentBufferStays
  BY DEF BufferInv, DraftInv, SentBufferStays
<1> QED
  BY <1>1, BufferInvAlways, PTL

-----------------------------------------------------------------------------
(* The record on the callback's stack                                      *)

LEMMA StackInvStep == TypeOK /\ StackInv /\ [Next]_vars => StackInv'
<1> SUFFICES ASSUME TypeOK, StackInv, [Next]_vars PROVE StackInv'
  OBVIOUS
<1> USE DEF TypeOK, StackInv, StackRecordAlive, CallbackIsReleased
<1>1. ASSUME UNCHANGED <<callback, worker, signalled>> PROVE StackInv'
  BY <1>1
<1>2. ASSUME NEW e \in Event, Notify(e) \/ HashFails(e) PROVE StackInv'
  BY <1>2 DEF Notify, HashFails
<1>3. ASSUME NEW e \in Event, StartWorker(e) PROVE StackInv'
  BY <1>3 DEF StartWorker
<1>4. ASSUME NEW e \in Event, CallbackReturns(e) PROVE StackInv'
  BY <1>4 DEF CallbackReturns
<1>5. ASSUME NEW e \in Event, Copy(e) PROVE StackInv'
  <2>1. CASE UNCHANGED <<worker, signalled>>
    BY <1>1, <1>5, <2>1 DEF Copy
  <2>2. CASE worker' = [worker EXCEPT ![e] = "signal"] /\ signalled' = signalled
    BY <1>5, <2>2 DEF Copy
  <2>3. CASE worker' = [worker EXCEPT ![e] = "exit"] /\ signalled' = signalled \cup {e}
    BY <1>5, <2>3 DEF Copy
  <2> QED
    BY <1>5, <2>1, <2>2, <2>3 DEF Copy
<1>6. ASSUME NEW e \in Event, SignalCopied(e) PROVE StackInv'
  BY <1>6 DEF SignalCopied
<1>7. ASSUME NEW e \in Event, BuildList(e) \/ WorkerExits(e) PROVE StackInv'
  <2>1. PICK step \in {"list", "save", "exit"} : worker' = [worker EXCEPT ![e] = step]
    BY <1>7 DEF BuildList, WorkerExits
  <2>2. worker[e] \in {"list", "save"} /\ UNCHANGED <<callback, signalled>>
    BY <1>7 DEF BuildList, WorkerExits
  <2> QED
    BY <2>1, <2>2
<1>8. ASSUME NEW e \in Event, Convert(e) \/ CopyAndAppend(e) \/ Publish(e) PROVE StackInv'
  BY <1>1, <1>8 DEF Convert, CopyAndAppend, Publish, Continue, evtVars
<1>9. CASE Connect \/ CommStep \/ Clash \/ (\E t \in Thread : LockStep(t)) \/ UNCHANGED vars
  BY <1>1, <1>9 DEF Connect, CommStep, Poll, NothingToSend, Transmit, FreeSent, Answer,
     Clash, Continue, LockStep, evtVars, vars
<1> QED
  BY <1>2, <1>3, <1>4, <1>5, <1>6, <1>7, <1>8, <1>9 DEF Next, CallbackStep, WorkerStep

LEMMA StackInvInit == Init => StackInv
  BY DEF Init, StackInv, StackRecordAlive, CallbackIsReleased

\* No worker reads the callback's record after the callback has returned.
THEOREM StackRecordStaysAlive == Spec => []StackRecordAlive
<1>1. StackInv => StackRecordAlive
  BY DEF StackInv
<1> QED
  BY <1>1, StackInvInit, StackInvStep, CollectedTypeCorrect, PTL DEF Spec

\* Every worker that a callback waits for sets its event, whatever fails.
THEOREM CallbacksAreReleased == Spec => []CallbackIsReleased
<1>1. StackInv => CallbackIsReleased
  BY DEF StackInv
<1> QED
  BY <1>1, StackInvInit, StackInvStep, CollectedTypeCorrect, PTL DEF Spec
=============================================================================
