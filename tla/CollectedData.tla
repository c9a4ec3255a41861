---------------------------- MODULE CollectedData ----------------------------
(***************************************************************************)
(* How the kernel agent collects process events and hands them to the      *)
(* center server.                                                          *)
(*                                                                         *)
(* The process notify callback runs in the thread that creates or ends a   *)
(* process.  It hashes the image, starts a worker with the address of a    *)
(* record on its own stack, and waits for the worker to have copied it.    *)
(* The worker turns the event into a record and appends the record, under  *)
(* the lock of KernelMutex, to one global buffer.  The communication       *)
(* thread sends the whole buffer when the server asks for it, and frees it *)
(* when the send has succeeded.                                            *)
(*                                                                         *)
(* An event stands for its record ({TYPE, fields, _END} of its own); the   *)
(* buffer is the sequence of what was copied into it, its first item being *)
(* the 128 bytes of the agent's id.  An empty sequence is a NULL buffer.   *)
(* PcreateProcessNotifyRoutineEx is modelled as registered: the call of    *)
(* initialize_NotifyRoutine is commented out in main.c at this commit.     *)
(***************************************************************************)
EXTENDS Naturals, Sequences, FiniteSets

CONSTANTS
    Event,      \* the process events; an event also names its worker thread
    Comm,       \* the thread of communication_server
    NoThread,   \* see KernelMutex
    Header,     \* the agent's id at the front of the buffer
    No,         \* the 4-byte answer "No"
    MaxPolls    \* how many requests of the server are explored

Thread == Event \cup {Comm}

ASSUME CollectedDataAssumption ==
    /\ Comm \notin Event
    /\ NoThread \notin Thread
    /\ Header \notin Event
    /\ No \notin Event \cup {Header}
    /\ MaxPolls \in Nat

VARIABLES
    mutex, isLock, ready, owner, depth, created, pc, target, bugcheck,
                \* MUTEX_for_External_var_Read_Write: see KernelMutex
    connected,  \* is_connected_2_SERVER
    callback,   \* callback[e]: where the notify callback of event e is
    worker,     \* worker[e]: where THREAD_for_send_to_process_data is
    signalled,  \* the events whose event_for_saving is set
    op,         \* op[t]: where thread t is in Send_or_Save
    buffer,     \* RAW_DATA__external_var
    draft,      \* draft[t]: the copy a thread works on (NEW_addr, remember_...);
                \* empty when it has none
    status,     \* what Send_or_Save is to return to the communication thread:
                \* its own variable, STATUS_SUCCESS at the start of each call
    polls,      \* requests received so far
    wire,       \* the last answer to the present request that has reached the
                \* server; empty when there is none
    accepted,   \* history: the records appended to the buffer, in order
    confirmed   \* history: the records whose send was reported successful

lockRest == <<mutex, isLock, ready, owner, depth, created, pc, target>>
lockVars == <<mutex, isLock, ready, owner, depth, created, pc, target, bugcheck>>
evtVars  == <<connected, callback, worker, signalled>>
datVars  == <<op, buffer, draft, status, polls, wire, accepted, confirmed>>
vars     == <<lockVars, evtVars, datVars>>

Lk == INSTANCE KernelMutex

Item == Event \cup {Header, No}

TypeOK ==
    /\ Lk!TypeOK
    /\ connected \in BOOLEAN
    /\ callback \in [Event -> {"none", "hash", "waiting", "returned"}]
    /\ worker \in [Event -> {"none", "copy", "signal", "list", "save", "exit"}]
    /\ signalled \subseteq Event
    /\ op \in [Thread -> {"out", "start", "append", "publish", "free", "leave"}]
    /\ buffer \in Seq(Item)
    /\ draft \in [Thread -> Seq(Item)]
    /\ status \in {"success", "unsuccessful"}
    /\ polls \in Nat
    /\ wire \in Seq(Item)
    /\ accepted \in Seq(Item)
    /\ confirmed \in Seq(Item)

\* Nothing has been collected, and nobody has used the lock yet: its first users
\* create it, as in KernelMutex, and two of them may do so at once.
Init ==
    /\ Lk!Init
    /\ connected = FALSE
    /\ callback = [e \in Event |-> "none"]
    /\ worker = [e \in Event |-> "none"]
    /\ signalled = {}
    /\ op = [t \in Thread |-> "out"]
    /\ buffer = <<>>
    /\ draft = [t \in Thread |-> <<>>]
    /\ status = "success"
    /\ polls = 0
    /\ wire = <<>>
    /\ accepted = <<>>
    /\ confirmed = <<>>

-----------------------------------------------------------------------------
(* PcreateProcessNotifyRoutineEx                                           *)

\* TCP_conn sets is_connected_2_SERVER once the handshake is through.
Connect ==
    /\ ~bugcheck /\ ~connected
    /\ connected' = TRUE
    /\ UNCHANGED <<lockVars, callback, worker, signalled, datVars>>

\* Lines 115-151: an event seen without a server, or without pool for the
\* hash, is dropped.
Notify(e) ==
    /\ ~bugcheck
    /\ callback[e] = "none"
    /\ \/ callback' = [callback EXCEPT ![e] = "returned"]
       \/ connected /\ callback' = [callback EXCEPT ![e] = "hash"]
    /\ UNCHANGED <<lockVars, connected, worker, signalled, datVars>>

\* Lines 153-157, 175-179: PID_to_EXE fails and the event is dropped.
HashFails(e) ==
    /\ ~bugcheck
    /\ callback[e] = "hash"
    /\ callback' = [callback EXCEPT ![e] = "returned"]
    /\ UNCHANGED <<lockVars, connected, worker, signalled, datVars>>

\* Lines 159-172: the worker gets the address of the callback's record.  The
\* status of PsCreateSystemThread is not looked at: the callback waits anyway.
StartWorker(e) ==
    /\ ~bugcheck
    /\ callback[e] = "hash"
    /\ callback' = [callback EXCEPT ![e] = "waiting"]
    /\ \/ worker' = [worker EXCEPT ![e] = "copy"]
       \/ UNCHANGED worker
    /\ UNCHANGED <<lockVars, connected, signalled, datVars>>

\* Line 172: the wait is satisfied, and the record on the stack is gone.
CallbackReturns(e) ==
    /\ ~bugcheck
    /\ callback[e] = "waiting"
    /\ e \in signalled
    /\ callback' = [callback EXCEPT ![e] = "returned"]
    /\ signalled' = signalled \ {e}
    /\ UNCHANGED <<lockVars, connected, worker, datVars>>

-----------------------------------------------------------------------------
(* THREAD_for_send_to_process_data                                         *)

\* Mutant of Copy: the callback is released before the record is copied.
CopySignalsFirst(e) ==
    /\ ~bugcheck
    /\ worker[e] = "copy"
    /\ worker' = [worker EXCEPT ![e] = "signal"]
    /\ signalled' = signalled \cup {e}
    /\ UNCHANGED <<lockVars, connected, callback, datVars>>

\* Mutant of Copy: the early return forgets the event.
CopyForgetsEvent(e) ==
    /\ ~bugcheck
    /\ worker[e] = "copy"
    /\ \E to \in {"signal", "exit"} : worker' = [worker EXCEPT ![e] = to]
    /\ UNCHANGED <<lockVars, connected, callback, signalled, datVars>>

\* Lines 18-38: the record is copied.  No pool for the image stops the machine
\* (memcpy to NULL); no pool for the hash ends the worker, which still frees
\* and signals.
Copy(e) ==
    /\ ~bugcheck
    /\ worker[e] = "copy"
    /\ \/ /\ worker' = [worker EXCEPT ![e] = "signal"]
          /\ UNCHANGED <<bugcheck, signalled>>
       \/ /\ worker' = [worker EXCEPT ![e] = "exit"]
          /\ signalled' = signalled \cup {e}
          /\ UNCHANGED bugcheck
       \/ /\ bugcheck' = TRUE
          /\ UNCHANGED <<worker, signalled>>
    /\ UNCHANGED <<lockRest, connected, callback, datVars>>

\* Line 43
SignalCopied(e) ==
    /\ ~bugcheck
    /\ worker[e] = "signal"
    /\ worker' = [worker EXCEPT ![e] = "list"]
    /\ signalled' = signalled \cup {e}
    /\ UNCHANGED <<lockVars, connected, callback, datVars>>

\* Lines 49-81: the list of fields.  A node that cannot be allocated is not
\* tested for and is dereferenced at the latest by Link_node__2__Mem_Alloc.
BuildList(e) ==
    /\ ~bugcheck
    /\ worker[e] = "list"
    /\ \/ /\ worker' = [worker EXCEPT ![e] = "save"]
          /\ op' = [op EXCEPT ![e] = "start"]
          /\ UNCHANGED bugcheck
       \/ /\ bugcheck' = TRUE
          /\ UNCHANGED <<worker, op>>
    /\ UNCHANGED <<lockRest, connected, callback, signalled,
                   buffer, draft, status, polls, wire, accepted, confirmed>>

\* Lines 94-101: the result of Send_or_Save is not looked at.  The kernel stops
\* the machine when a thread ends that still owns a KMUTEX, which it does when
\* its release was skipped.
WorkerExits(e) ==
    /\ ~bugcheck
    /\ worker[e] = "save" /\ op[e] = "leave" /\ pc[e] = "idle"
    /\ worker' = [worker EXCEPT ![e] = "exit"]
    /\ op' = [op EXCEPT ![e] = "out"]
    /\ bugcheck' = (\E o \in Thread : owner[o] = e)
    /\ UNCHANGED <<lockRest, connected, callback, signalled,
                   buffer, draft, status, polls, wire, accepted, confirmed>>

-----------------------------------------------------------------------------
(* Send_or_Save                                                            *)

\* Lines 11 and 71: the lock is taken before anything else is done, and
\* released when the selected operation is over.
LockStep(t) ==
    /\ pc[t] = "idle" => op[t] = "start"
    /\ pc[t] = "held" => op[t] = "leave"
    /\ Lk!Lock(t) \/ Lk!Unlock(t)
    /\ UNCHANGED <<evtVars, datVars>>

\* Thread t has the lock and is at label `from` of the operation it selected.
InSection(t, from) == ~bugcheck /\ pc[t] = "held" /\ op[t] = from

Continue(t, to) ==
    /\ op' = [op EXCEPT ![t] = to]
    /\ UNCHANGED <<lockVars, evtVars, polls>>

\* Thread t reads, copies, sends or replaces the block the globals point to.
UsesBuffer(t) ==
    /\ pc[t] = "held"
    /\ op[t] \in {"append", "publish", "free"} \/ (t = Comm /\ op[t] = "start")

\* Two threads are inside, so one may free or replace the block, or change its
\* size, in the middle of a step of the other's.  That is undefined: the machine
\* stops, or the steps of the two just follow each other.
Clash ==
    /\ ~bugcheck
    /\ \E t, u \in Thread : t # u /\ UsesBuffer(t) /\ UsesBuffer(u)
    /\ bugcheck' = TRUE
    /\ UNCHANGED <<lockRest, evtVars, datVars>>

\* Mutant of Convert: a failure returns at once, with the lock held.
ConvertReturnsEarly(e) ==
    /\ InSection(e, "start")
    /\ \/ /\ op' = [op EXCEPT ![e] = "append"]
          /\ UNCHANGED worker
       \/ /\ op' = [op EXCEPT ![e] = "out"]
          /\ worker' = [worker EXCEPT ![e] = "exit"]
    /\ UNCHANGED <<lockVars, connected, callback, signalled,
                   buffer, draft, status, polls, wire, accepted, confirmed>>

\* SAVE_RAW_DATA, Link_node__2__Mem_Alloc: the list becomes one block, or there
\* is no pool and the record is lost.
Convert(e) ==
    /\ InSection(e, "start")
    /\ \E to \in {"append", "leave"} : Continue(e, to)
    /\ UNCHANGED <<buffer, draft, status, wire, accepted, confirmed>>

\* Mutant of CopyAndAppend: the id is put in front every time.
CopyRepeatsHeader(e) ==
    /\ InSection(e, "append")
    /\ draft' = [draft EXCEPT ![e] = buffer \o <<Header, e>>]
    /\ Continue(e, "publish")
    /\ UNCHANGED <<buffer, status, wire, accepted, confirmed>>

\* APPEND_Length_Based_DATA up to the copies: a new block holds the old buffer
\* and the record; the first one gets the agent's id in front.  Without pool
\* the caller carries on as if the record had been appended.
CopyAndAppend(e) ==
    /\ InSection(e, "append")
    /\ \/ /\ draft' = [draft EXCEPT ![e] = IF buffer = <<>>
                                           THEN <<Header, e>>
                                           ELSE Append(buffer, e)]
          /\ Continue(e, "publish")
       \/ Continue(e, "leave") /\ UNCHANGED draft
    /\ UNCHANGED <<buffer, status, wire, accepted, confirmed>>

\* The rest of it: what the global points to by now is freed, and it points to
\* the new block.
Publish(e) ==
    /\ InSection(e, "publish")
    /\ buffer' = draft[e]
    /\ draft' = [draft EXCEPT ![e] = <<>>]
    /\ accepted' = Append(accepted, e)
    /\ Continue(e, "leave")
    /\ UNCHANGED <<status, wire, confirmed>>

\* SEND_RAW_DATA with nothing collected.
NothingToSend ==
    /\ InSection(Comm, "start")
    /\ buffer = <<>>
    /\ status' = "unsuccessful"
    /\ Continue(Comm, "leave")
    /\ UNCHANGED <<buffer, draft, wire, accepted, confirmed>>

\* SEND_RAW_DATA: SEND_TCP_DATA of the whole buffer succeeds, or fails with or
\* without the data having reached the server.
Transmit ==
    /\ InSection(Comm, "start")
    /\ buffer # <<>>
    /\ \/ /\ wire' = buffer
          /\ draft' = [draft EXCEPT ![Comm] = buffer]
          /\ confirmed' = confirmed \o Tail(buffer)
          /\ Continue(Comm, "free")
          /\ UNCHANGED status
       \/ /\ wire' \in {wire, buffer}
          /\ status' = "unsuccessful"
          /\ Continue(Comm, "leave")
          /\ UNCHANGED <<draft, confirmed>>
    /\ UNCHANGED <<buffer, accepted>>

\* Mutant of FreeSent: the block is freed and the global is not reset.
FreeSentKeepsBuffer ==
    /\ InSection(Comm, "free")
    /\ status' = "success"
    /\ draft' = [draft EXCEPT ![Comm] = <<>>]
    /\ Continue(Comm, "leave")
    /\ UNCHANGED <<buffer, wire, accepted, confirmed>>

\* After a successful send: the buffer is freed, unless both its address and its
\* size have changed (another one may have the same size, or the freed address).
FreeSent ==
    /\ InSection(Comm, "free")
    /\ \/ /\ buffer # <<>>
          /\ buffer' = <<>> /\ status' = "success"
       \/ /\ buffer # draft[Comm]
          /\ status' = "unsuccessful" /\ UNCHANGED buffer
    /\ draft' = [draft EXCEPT ![Comm] = <<>>]
    /\ Continue(Comm, "leave")
    /\ UNCHANGED <<wire, accepted, confirmed>>

-----------------------------------------------------------------------------
(* communication_server, the command GET_collected_data                    *)

Poll ==
    /\ ~bugcheck /\ connected
    /\ op[Comm] = "out" /\ polls < MaxPolls
    /\ polls' = polls + 1
    /\ op' = [op EXCEPT ![Comm] = "start"]
    /\ wire' = <<>>
    /\ UNCHANGED <<lockVars, evtVars, buffer, draft, status, accepted, confirmed>>

\* Lines 79-83: a failure is answered with No, which may be lost as well.
Answer ==
    /\ ~bugcheck
    /\ op[Comm] = "leave" /\ pc[Comm] = "idle"
    /\ op' = [op EXCEPT ![Comm] = "out"]
    /\ wire' \in IF status = "unsuccessful" THEN {wire, <<No>>} ELSE {wire}
    /\ status' = "success"
    /\ UNCHANGED <<lockVars, evtVars, buffer, draft, polls, accepted, confirmed>>

-----------------------------------------------------------------------------
CallbackStep(e) ==
    Notify(e) \/ HashFails(e) \/ StartWorker(e) \/ CallbackReturns(e)

WorkerStep(e) ==
    \/ Copy(e) \/ SignalCopied(e) \/ BuildList(e) \/ WorkerExits(e)
    \/ Convert(e) \/ CopyAndAppend(e) \/ Publish(e)

CommStep == Poll \/ NothingToSend \/ Transmit \/ FreeSent \/ Answer

Next ==
    \/ Connect
    \/ \E e \in Event : CallbackStep(e) \/ WorkerStep(e)
    \/ CommStep \/ Clash
    \/ \E t \in Thread : LockStep(t)

Spec == Init /\ [][Next]_vars

\* The kernel keeps scheduling a thread that can run, and a KMUTEX is handed to
\* its waiters in the order they came: the communication thread, whose wait comes
\* and goes with the owners, is not overtaken for ever (strong fairness).  Nothing
\* obliges a process to start or the server to poll.
Fairness ==
    /\ \A e \in Event : WF_vars(WorkerStep(e) \/ LockStep(e))
    /\ SF_vars(NothingToSend \/ Transmit \/ FreeSent \/ Answer \/ LockStep(Comm))

FairSpec == Spec /\ Fairness

-----------------------------------------------------------------------------
(* Properties                                                              *)

Records(b) == IF b = <<>> THEN <<>> ELSE Tail(b)

\* Nothing that was appended to the buffer is lost, repeated or reordered on
\* its way to the server, unless two threads have created the lock: what was
\* appended is what was confirmed followed by what is still in the buffer, also
\* while a send waits to free the buffer.
Accounting ==
    Lk!CreatedOnce =>
        accepted = confirmed \o (IF op[Comm] = "free" THEN <<>> ELSE Records(buffer))

\* Every answer is "No" or one agent id followed by records: appending to an
\* old buffer must not repeat the id, and the first append must not forget it.
\* (Two threads inside may: the first one's test of line 106 may be out of date.)
WellFormedAnswers ==
    Lk!CreatedOnce =>
        \/ wire \in {<<>>, <<No>>}
        \/ /\ Len(wire) >= 2
           /\ wire[1] = Header
           /\ \A j \in 2..Len(wire) : wire[j] \in Event

\* The integrity check of RAWDATA_SEND__when_request_from_server (lines 160,
\* 171) fires only when two threads have created the lock: otherwise nobody
\* replaces the buffer while it is being sent.
SentBufferStays == Lk!CreatedOnce /\ op[Comm] = "free" => buffer = draft[Comm]

\* The worker uses the record on the callback's stack only while the callback
\* is still waiting for it.
StackRecordAlive ==
    \A e \in Event : worker[e] \in {"copy", "signal"} => callback[e] = "waiting"

\* A process is not held up for ever: while its callback waits, a worker that
\* was started has set the event or is on the way to doing so, on every return.
CallbackIsReleased ==
    \A e \in Event :
        callback[e] = "waiting" /\ worker[e] # "none"
        => e \in signalled \/ worker[e] \in {"copy", "signal"}

\* Send_or_Save always gives the communication thread back, so the next request
\* is received: even when the release of an earlier poll was skipped, because
\* the KMUTEX the thread then still owns lets it in again.  A second creation may
\* leave it waiting for an object nobody initialises.
PollComesBack ==
    op[Comm] # "out" ~> op[Comm] = "out" \/ bugcheck \/ ~Lk!CreatedOnce
=============================================================================
