------------------------------ MODULE UserIoctl ------------------------------
(***************************************************************************)
(* The channel between the driver and user mode: one global structure      *)
(* IOCTL_share_structure with a pointer to the buffer of a pending         *)
(* request, two flags and an event, none of them protected.                *)
(*                                                                         *)
(* The loader keeps one request pending (IoControl waits for the event     *)
(* inside of it).  DriverEntry takes the licence and the agent's id out of *)
(* the first one.  Get_ALL_Process_List then has every running process     *)
(* hooked: a sender thread writes the PID into the pending request and     *)
(* sets the event, which completes the request; the loader starts a thread *)
(* that injects the DLL, and sends the next request.  GET_AGENT_ID, in the *)
(* thread of TCP_conn, uses the same request for the handshake with the    *)
(* server.  A hooked process reports its API calls with requests of its    *)
(* own (HOOK_MON).                                                         *)
(*                                                                         *)
(* The buffer of a request is gone once the request is completed.  What a  *)
(* thread does through a pointer to it is undefined; the model stops there *)
(* (fault).                                                                *)
(***************************************************************************)
EXTENDS Naturals, Sequences

CONSTANTS
    Loader,      \* the loader, and its request
    Mon,         \* the requests of hooked processes, one each
    NoRequest,   \* the NULL pointer
    Processes,   \* the PIDs, in the order of ZwQuerySystemInformation
    MaxRaced     \* bound: how many of them when nothing is assumed (see calm)

Request == {Loader} \cup Mon

Pid == {Processes[i] : i \in DOMAIN Processes}

ASSUME UserIoctlAssumption ==
    /\ Loader \notin Mon
    /\ NoRequest \notin Request
    /\ Processes \in Seq(Nat \ {0})
    /\ MaxRaced \in 0..Len(Processes)

VARIABLES
    at,        \* at[r]: where IoControl is in request r
    buf,       \* buf[r]: SystemBuffer of request r: information, HOOK_DATA.PID
    alive,     \* the requests whose SystemBuffer exists
    pointer,   \* IOCTL_share_structure.ioctl_BUFFER
    flag,      \* IOCTL_share_structure.is_usermode_request
    isInit,    \* IOCTL_share_structure.is_init
    event,     \* IOCTL_share_structure.ioctl_event is set
    fault,     \* somebody has used a buffer that is gone
    keeping,   \* the loader is in Keeping_communicate
    calm,      \* the assumption a behaviour is explored under: what an event
               \* has released comes through within the second a Delays(-1)
               \* takes and before a server answers, no hooked process reports
               \* yet, and there is pool for the node of the loader
    asked,     \* what the loader was started with: an AGENT_ID ("all") or not
    told,      \* the results of the handshake the loader has been given
    move,      \* move_data, in the frame of Keeping_communicate
    injectors, \* injectors[n]: where the n-th START_HOOKING thread is, and the
               \* PID it has read in move_data last
    entry,     \* where DriverEntry is
    todo,      \* what Get_ALL_Process_List has not looked at yet
    sender,    \* where IOCTL_process_sender_from_query is
    sent,      \* history: the PIDs senders were started for, oldest first
    conn,      \* where GET_AGENT_ID is
    agentId,   \* whose AGENT_ID is in Driver_ID
    sentId,    \* history: the AGENT_ID the server has been sent
    verdict    \* history: the server's answer to it

given   == <<calm, asked>>
share   == <<pointer, flag, isInit, event>>
user    == <<keeping, told, move, injectors>>
lister  == <<todo, sender, sent>>
link    == <<conn, agentId, sentId, verdict>>
vars    == <<at, buf, alive, share, fault, given, user, entry, lister, link>>

\* A START_HOOKING thread: before line 7, past it, or over: the PID was too low,
\* Windows has refused something, the process has the DLL.
Injector == [at : {"test", "inject", "refused", "failed", "hooked"}, pid : Pid \cup {0}]

Info == {"CHECK", "SUCCESS", "FAIL", "all", "without", "HOOKING", "HOOK_MON"}

TypeOK ==
    /\ at \in [Request -> {"user", "point", "test", "claim", "init", "wait", "clear",
                           "first", "complete", "refuse", "gone"}]
    /\ buf \in [Request -> [info : Info, pid : Pid \cup {0}]]
    /\ alive \subseteq Request
    /\ pointer \in Request \cup {NoRequest}
    /\ flag \in BOOLEAN /\ isInit \in BOOLEAN /\ event \in BOOLEAN
    /\ fault \in BOOLEAN /\ keeping \in BOOLEAN
    /\ calm \in BOOLEAN
    /\ asked \in {"all", "without"}
    /\ told \subseteq {"SUCCESS", "FAIL"}
    /\ move \in Pid \cup {0}
    /\ injectors \in Seq(Injector)
    /\ entry \in {"spin", "read", "wake", "running", "failed"}
    /\ todo \in Seq(Pid)
    /\ sender \in {"none", "delay", "spin", "info", "pid", "signal", "rest"}
    /\ sent \in Seq(Pid)
    /\ conn \in {"off", "id", "copy", "send", "result", "tell", "signal", "done", "failed"}
    /\ agentId \in {"zero", "user", "server"}
    /\ sentId \in {"none", "zero", "user", "server"}
    /\ verdict \in {"none", "SUCCESS", "FAIL"}

\* DeviceInitialize (lines 38-43).
Init ==
    /\ at = [r \in Request |-> "user"]
    /\ calm \in BOOLEAN
    /\ asked \in {"all", "without"}
    /\ buf = [r \in Request |-> [info |-> IF r = Loader THEN asked ELSE "HOOK_MON", pid |-> 0]]
    /\ alive = {}
    /\ pointer = NoRequest
    /\ flag = FALSE /\ isInit = TRUE /\ event = FALSE
    /\ fault = FALSE
    /\ keeping = FALSE /\ told = {} /\ move = 0 /\ injectors = <<>>
    /\ entry = "spin"
    /\ todo = IF calm THEN Processes ELSE SubSeq(Processes, 1, MaxRaced)
    /\ sender = "none" /\ sent = <<>>
    /\ conn = "off" /\ agentId = "zero" /\ sentId = "none" /\ verdict = "none"

\* Every START_HOOKING thread is through.
Injected == \A n \in DOMAIN injectors : injectors[n].at \notin {"test", "inject"}

\* What the event has released has come through: the flag is cleared and the
\* injector has read its argument.
Settled ==
    /\ ~event
    /\ at[Loader] \notin {"clear", "first", "complete"}
    /\ Injected

\* A second has passed.
Elapsed == calm => Settled

-----------------------------------------------------------------------------
(* IoControl                                                               *)

Goto(r, from, to) ==
    /\ ~fault
    /\ at[r] = from
    /\ at' = [at EXCEPT ![r] = to]

\* DeviceIoControl: the I/O manager makes a copy of the caller's buffer.  The
\* hooked processes exist once the loader has injected something.
Send(r) ==
    /\ Goto(r, "user", "point")
    /\ r \in Mon => ~calm /\ \E n \in DOMAIN injectors : injectors[n].at = "hooked"
    /\ alive' = alive \cup {r}
    /\ UNCHANGED <<buf, share, fault, given, user, entry, lister, link>>

\* Line 94
Point(r) ==
    /\ Goto(r, "point", "test")
    /\ pointer' = r
    /\ UNCHANGED <<buf, alive, flag, isInit, event, fault, given, user, entry, lister, link>>

\* Line 104: is it HOOK_MON?  Read through the shared pointer.
Test(r) ==
    /\ pointer \in alive
    /\ Goto(r, "test", IF buf[pointer].info = "HOOK_MON" THEN "complete" ELSE "claim")
    /\ UNCHANGED <<buf, alive, share, fault, given, user, entry, lister, link>>

\* Line 117
Claim(r) ==
    /\ Goto(r, "claim", "init")
    /\ flag' = TRUE
    /\ UNCHANGED <<buf, alive, pointer, isInit, event, fault, given, user, entry, lister, link>>

\* Lines 123-177: the loader is protected, or the request is failed with
\* is_usermode_request still set.
Protect(r) ==
    /\ \/ Goto(r, "init", "wait")
       \/ isInit /\ ~calm /\ Goto(r, "init", "refuse")
    /\ isInit => pointer \in alive
    /\ UNCHANGED <<buf, alive, share, fault, given, user, entry, lister, link>>

\* Line 179: a synchronization event lets one thread through.
Resume(r) ==
    /\ Goto(r, "wait", "clear")
    /\ event
    /\ event' = FALSE
    /\ UNCHANGED <<buf, alive, pointer, flag, isInit, fault, given, user, entry, lister, link>>

\* Mutant of Clear: the flag is left set.
ClearForgets(r) ==
    /\ Goto(r, "clear", "first")
    /\ UNCHANGED <<buf, alive, share, fault, given, user, entry, lister, link>>

\* Line 181
Clear(r) ==
    /\ Goto(r, "clear", "first")
    /\ flag' = FALSE
    /\ UNCHANGED <<buf, alive, pointer, isInit, event, fault, given, user, entry, lister, link>>

\* Lines 183-186
ClearInit(r) ==
    /\ Goto(r, "first", "complete")
    /\ isInit' = FALSE
    /\ UNCHANGED <<buf, alive, pointer, flag, event, fault, given, user, entry, lister, link>>

\* Lines 104, 123-148: the shared pointer is used after its request is over.
ReadsDeadBuffer(r) ==
    /\ ~fault
    /\ at[r] = "test" \/ (at[r] = "init" /\ isInit)
    /\ pointer \notin alive
    /\ fault' = TRUE
    /\ UNCHANGED <<at, buf, alive, share, given, user, entry, lister, link>>

\* A START_HOOKING thread at its start.
Started == [at |-> "test", pid |-> 0]

\* Mutants of Complete: whatever comes back is taken for the verdict; the
\* argument of the first injector is never replaced.
CompleteTellsAll(r) ==
    /\ Goto(r, "complete", IF r = Loader THEN "user" ELSE "gone")
    /\ alive' = alive \ {r}
    /\ keeping' = TRUE
    /\ buf' = [buf EXCEPT ![r].info = "CHECK"]
    /\ told' = told \cup {buf[r].info}
    /\ IF keeping /\ buf[r].info = "HOOKING"
       THEN move' = buf[r].pid /\ injectors' = Append(injectors, Started)
       ELSE UNCHANGED <<move, injectors>>
    /\ UNCHANGED <<share, fault, given, entry, lister, link>>

CompleteKeepsArgument(r) ==
    /\ Goto(r, "complete", IF r = Loader THEN "user" ELSE "gone")
    /\ alive' = alive \ {r}
    /\ keeping' = TRUE
    /\ buf' = [buf EXCEPT ![r].info = "CHECK"]
    /\ IF keeping /\ buf[r].info = "HOOKING"
       THEN /\ move' = IF move = 0 THEN buf[r].pid ELSE move
            /\ injectors' = Append(injectors, Started)
       ELSE UNCHANGED <<move, injectors>>
    /\ UNCHANGED <<told, share, fault, given, entry, lister, link>>

\* Lines 109, 199: the request is over and the pointer to its buffer stays.
\* The loader looks at the answer only in Keeping_communicate (lines 86-111).
Complete(r) ==
    /\ Goto(r, "complete", IF r = Loader THEN "user" ELSE "gone")
    /\ alive' = alive \ {r}
    /\ IF r # Loader
       THEN UNCHANGED <<buf, user>>
       ELSE /\ keeping' = TRUE
            /\ buf' = [buf EXCEPT ![r].info = "CHECK"]
            /\ told' = told \cup ({buf[r].info} \cap {"SUCCESS", "FAIL"})
            /\ IF keeping /\ buf[r].info = "HOOKING"
               THEN move' = buf[r].pid /\ injectors' = Append(injectors, Started)
               ELSE UNCHANGED <<move, injectors>>
    /\ UNCHANGED <<share, fault, given, entry, lister, link>>

\* Lines 151, 168: the request fails, with STATUS_INVALID_DEVICE_REQUEST.  The
\* loader ignores that of its first request and gives up after any other.
Refuse(r) ==
    /\ Goto(r, "refuse", IF r = Loader /\ ~keeping THEN "user" ELSE "gone")
    /\ alive' = alive \ {r}
    /\ keeping' = TRUE
    /\ buf' = [buf EXCEPT ![r].info = "CHECK"]
    /\ UNCHANGED <<share, fault, given, told, move, injectors, entry, lister, link>>

\* START_HOOKING: thread n goes on to `to` with what is in move_data by now.
Hooking(n, from, to) ==
    /\ ~fault
    /\ injectors[n].at = from
    /\ injectors' = [injectors EXCEPT ![n] = [at |-> to, pid |-> move]]
    /\ UNCHANGED <<at, buf, alive, share, fault, given, keeping, told, move, entry, lister, link>>

\* Line 7: a PID of at most 1000 is left alone.
TestPid(n) == Hooking(n, "test", IF move <= 1000 THEN "refused" ELSE "inject")

\* Lines 21-48: the argument is read again.  The process cannot be opened, has
\* no memory to give, cannot be written to, or starts no thread (whose handle
\* is not looked at): it does not get the DLL and nobody is told.
Inject(n) == \E to \in {"failed", "hooked"} : Hooking(n, "inject", to)

-----------------------------------------------------------------------------
(* DriverEntry and Initialize_IOCTL_communicate                            *)

\* Line 14: a request is pending.
SeeRequest ==
    /\ ~fault
    /\ entry = "spin" /\ flag /\ pointer # NoRequest
    /\ entry' = "read"
    /\ UNCHANGED <<at, buf, alive, share, fault, given, user, lister, link>>

\* Lines 23-49; DriverEntry fails when Initialize_IOCTL_communicate does.
TakeIds ==
    /\ ~fault
    /\ entry = "read"
    /\ IF pointer \in alive
       THEN /\ entry' = IF buf[pointer].info \in {"all", "without"} THEN "wake" ELSE "failed"
            /\ agentId' = IF buf[pointer].info = "all" THEN "user" ELSE agentId
            /\ UNCHANGED fault
       ELSE fault' = TRUE /\ UNCHANGED <<entry, agentId>>
    /\ UNCHANGED <<at, buf, alive, share, given, user, lister, conn, sentId, verdict>>

\* main.c line 100
Wake ==
    /\ ~fault
    /\ entry = "wake"
    /\ entry' = "running"
    /\ event' = TRUE
    /\ UNCHANGED <<at, buf, alive, pointer, flag, isInit, fault, given, user, lister, link>>

-----------------------------------------------------------------------------
(* Get_ALL_Process_List and IOCTL_process_sender_from_query                *)

\* Lines 151-191: the last process is left out, one without a handle is
\* skipped, and the next one waits until the sender is through.
NextProcess ==
    /\ ~fault
    /\ entry = "running" /\ sender = "none" /\ Len(todo) > 1
    /\ todo' = Tail(todo)
    /\ \/ sender' = "delay" /\ sent' = Append(sent, Head(todo))
       \/ UNCHANGED <<sender, sent>>
    /\ UNCHANGED <<at, buf, alive, share, fault, given, user, entry, link>>

Sender(from, to) ==
    /\ ~fault
    /\ sender = from
    /\ sender' = to
    /\ UNCHANGED <<at, alive, pointer, flag, isInit, given, user, entry, todo, sent, link>>

\* Lines 10-11: only one sender runs, so the mutex is free.
SenderStarts == Sender("delay", "spin") /\ Elapsed /\ UNCHANGED <<buf, event, fault>>

\* Lines 13-15
SenderSees == Sender("spin", "info") /\ flag /\ UNCHANGED <<buf, event, fault>>

\* Lines 20 and 22-23: through the shared pointer, buffer or no buffer.
Writes(from, to, new) ==
    /\ Sender(from, to)
    /\ IF pointer \in alive
       THEN buf' = [buf EXCEPT ![pointer] = new] /\ UNCHANGED fault
       ELSE fault' = TRUE /\ UNCHANGED buf
    /\ UNCHANGED event

SenderWritesInfo == Writes("info", "pid", [buf[pointer] EXCEPT !.info = "HOOKING"])

SenderWritesPid  == Writes("pid", "signal", [buf[pointer] EXCEPT !.pid = sent[Len(sent)]])

\* Mutant of SenderSignals: the event is not set.
SenderForgetsEvent == Sender("signal", "rest") /\ UNCHANGED <<buf, event, fault>>

\* Line 25
SenderSignals == Sender("signal", "rest") /\ event' = TRUE /\ UNCHANGED <<buf, fault>>

\* Lines 38-40: the delay, the EVENT of the list thread, the mutex.
SenderEnds == Sender("rest", "none") /\ Elapsed /\ UNCHANGED <<buf, event, fault>>

-----------------------------------------------------------------------------
(* GET_AGENT_ID                                                            *)

Conn(from, to) ==
    /\ ~fault
    /\ conn = from
    /\ conn' = to
    /\ UNCHANGED <<at, alive, pointer, flag, isInit, given, user, entry, lister>>

\* Line 88: connected, and the server has sent an AGENT_ID.
Connected ==
    /\ entry = "running" /\ Elapsed
    /\ Conn("off", "id")
    /\ UNCHANGED <<buf, event, fault, agentId, sentId, verdict>>

\* Line 102
TestInit ==
    /\ Conn("id", IF isInit THEN "copy" ELSE "send")
    /\ UNCHANGED <<buf, event, fault, agentId, sentId, verdict>>

\* Lines 104-129, through the shared pointer again.
CopyIds ==
    /\ IF pointer \in alive
       THEN /\ Conn("copy", IF buf[pointer].info \in {"all", "without"} THEN "send" ELSE "failed")
            /\ agentId' = CASE buf[pointer].info = "all"     -> "user"
                            [] buf[pointer].info = "without" -> "server"
                            [] OTHER                         -> agentId
            /\ UNCHANGED fault
       ELSE Conn("copy", "failed") /\ fault' = TRUE /\ UNCHANGED agentId
    /\ UNCHANGED <<buf, event, sentId, verdict>>

\* Lines 140-151: sent, or the send has failed.
SendIds ==
    /\ \/ Conn("send", "result") /\ sentId' = agentId
       \/ Conn("send", "failed") /\ UNCHANGED sentId
    /\ UNCHANGED <<buf, event, fault, agentId, verdict>>

\* Lines 158-160, 173-175, 190; FAIL is also an answer that did not come.
ServerAnswers ==
    /\ \E v \in {"SUCCESS", "FAIL"} :
         /\ verdict' = v
         /\ Conn("result", IF isInit THEN "tell" ELSE IF v = "SUCCESS" THEN "done" ELSE "failed")
    /\ UNCHANGED <<buf, event, fault, agentId, sentId>>

\* Mutant of TellLoader: success whatever the server says.
TellSuccess ==
    /\ Conn("tell", "signal")
    /\ IF pointer \in alive
       THEN buf' = [buf EXCEPT ![pointer].info = "SUCCESS"] /\ UNCHANGED fault
       ELSE fault' = TRUE /\ UNCHANGED buf
    /\ UNCHANGED <<event, agentId, sentId, verdict>>

\* Lines 161, 178-183, 194
TellLoader ==
    /\ Conn("tell", "signal")
    /\ IF pointer \in alive
       THEN /\ buf' = [buf EXCEPT ![pointer].info = verdict]
            /\ agentId' = IF verdict = "SUCCESS" /\ buf[pointer].info = "without"
                          THEN "server" ELSE agentId
            /\ UNCHANGED fault
       ELSE fault' = TRUE /\ UNCHANGED <<buf, agentId>>
    /\ UNCHANGED <<event, sentId, verdict>>

\* Lines 163, 185, 196
WakeLoader ==
    /\ Conn("signal", IF verdict = "SUCCESS" THEN "done" ELSE "failed")
    /\ event' = TRUE
    /\ UNCHANGED <<buf, fault, agentId, sentId, verdict>>

-----------------------------------------------------------------------------
Handle(r) ==
    \/ Point(r) \/ Test(r) \/ Claim(r) \/ Protect(r) \/ Resume(r) \/ Clear(r)
    \/ ClearInit(r) \/ Complete(r) \/ Refuse(r) \/ ReadsDeadBuffer(r)

InjectorStep == \E n \in DOMAIN injectors : TestPid(n) \/ Inject(n)

Entry == SeeRequest \/ TakeIds \/ Wake

SenderStep ==
    \/ SenderStarts \/ SenderSees \/ SenderWritesInfo \/ SenderWritesPid
    \/ SenderSignals \/ SenderEnds

ConnStep ==
    \/ Connected \/ TestInit \/ CopyIds \/ SendIds \/ ServerAnswers
    \/ TellLoader \/ WakeLoader

Next ==
    \/ \E r \in Request : Send(r) \/ Handle(r)
    \/ InjectorStep \/ Entry \/ NextProcess \/ SenderStep \/ ConnStep

Spec == Init /\ [][Next]_vars

\* Every thread of the driver and of the loader that can run runs; the spinning
\* ones give the processor up in Delays or lose it to the clock.
FairSpec ==
    /\ Spec
    /\ WF_vars(Send(Loader) \/ Handle(Loader))
    /\ WF_vars(InjectorStep) /\ WF_vars(Entry)
    /\ WF_vars(NextProcess) /\ WF_vars(SenderStep)

-----------------------------------------------------------------------------
(* Properties                                                              *)

\* As long as nothing is late, nobody uses the buffer of a request that is over:
\* the loader always has a request pending when the driver writes to one.
NoFault == calm => ~fault

\* The n-th START_HOOKING thread works on the n-th process the driver has asked
\* for and on no other, from its test of the PID to the end, although neither the
\* request's buffer nor its argument, which it reads more than once, is protected.
HookedAsAsked ==
    calm => /\ Len(injectors) <= Len(sent)
            /\ \A n \in DOMAIN injectors :
                 injectors[n].at # "test" => injectors[n].pid = sent[n]

\* Every process the driver asks for gets its START_HOOKING in the end, and goes
\* without the DLL only when its PID is at most 1000 or Windows refuses.
EveryRequestTried ==
    \A n \in 1..Len(Processes) :
        calm /\ Len(sent) >= n
        ~> /\ n \in DOMAIN injectors
           /\ injectors[n].at \in IF sent[n] > 1000 THEN {"failed", "hooked"} ELSE {"refused"}

\* An AGENT_ID the user has typed in is the one the server gets, however the
\* handshake and the completion of the first request interleave.
SuppliedIdIsUsed == asked = "all" /\ sentId # "none" => sentId = "user"

\* The loader hears of a registration only what the server has said.
ToldIsTheVerdict == told \subseteq {verdict}
=============================================================================
