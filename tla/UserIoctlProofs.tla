--------------------------- MODULE UserIoctlProofs ---------------------------
(***************************************************************************)
(* Theorems about UserIoctl, for any processes and any hooked processes    *)
(* that report.                                                            *)
(***************************************************************************)
EXTENDS UserIoctl, SequenceTheorems, TLAPS

-----------------------------------------------------------------------------
(* Type correctness.                                                       *)

Message == [info : Info, pid : Pid \cup {0}]

Places == {"user", "point", "test", "claim", "init", "wait", "clear", "first",
           "complete", "refuse", "gone"}

\* TypeOK, the variables of one kind at a time.
AtOK  == at \in [Request -> Places]

BufOK == buf \in [Request -> Message]

ListsOK ==
    /\ injectors \in Seq(Injector) /\ move \in Pid \cup {0}
    /\ todo \in Seq(Pid)
    /\ sent \in Seq(Pid)

ShareOK ==
    /\ alive \subseteq Request
    /\ pointer \in Request \cup {NoRequest}
    /\ flag \in BOOLEAN /\ isInit \in BOOLEAN /\ event \in BOOLEAN

ThreadsOK ==
    /\ fault \in BOOLEAN /\ keeping \in BOOLEAN /\ calm \in BOOLEAN
    /\ asked \in {"all", "without"}
    /\ told \subseteq {"SUCCESS", "FAIL"}
    /\ entry \in {"spin", "read", "wake", "running", "failed"}
    /\ sender \in {"none", "delay", "spin", "info", "pid", "signal", "rest"}
    /\ conn \in {"off", "id", "copy", "send", "result", "tell", "signal", "done", "failed"}
    /\ agentId \in {"zero", "user", "server"}
    /\ sentId \in {"none", "zero", "user", "server"}
    /\ verdict \in {"none", "SUCCESS", "FAIL"}

\* What is written into a buffer is there.
Known ==
    /\ sender # "none" => sent # <<>>
    /\ conn \in {"tell", "signal"} => verdict # "none"

TypeInv == TypeOK /\ Known

LEMMA Kinds == TypeOK <=> AtOK /\ BufOK /\ ListsOK /\ ShareOK /\ ThreadsOK
BY DEF TypeOK, AtOK, BufOK, ListsOK, ShareOK, ThreadsOK, Places, Message

LEMMA ProcessesArePids == Processes \in Seq(Pid) /\ SubSeq(Processes, 1, MaxRaced) \in Seq(Pid)
<1>1. /\ Processes \in Seq(Nat \ {0}) /\ MaxRaced \in 0..Len(Processes)
      /\ Len(Processes) \in Nat /\ DOMAIN Processes = 1..Len(Processes)
  BY UserIoctlAssumption, LenProperties
<1>2. \A i \in 1..Len(Processes) : Processes[i] \in Pid
  BY <1>1 DEF Pid
<1>3. Processes \in Seq(Pid)
  BY <1>1, <1>2
<1>4. \A i \in 1..MaxRaced : Processes[i] \in Pid
  BY <1>1, <1>2
<1>5. SubSeq(Processes, 1, MaxRaced) \in Seq(Pid)
  BY <1>1, <1>4, SubSeqProperties
<1> QED BY <1>3, <1>5

LEMMA InitTyped == Init => TypeInv
<1> SUFFICES ASSUME Init
             PROVE  TypeInv
  OBVIOUS
<1>1. buf \in [Request -> Message]
  BY DEF Init, Message, Info
<1>2. todo \in Seq(Pid)
  BY ProcessesArePids DEF Init
<1>3. <<>> \in Seq(Pid) /\ <<>> \in Seq(Injector)
  OBVIOUS
<1> QED BY <1>1, <1>2, <1>3 DEF Init, TypeInv, TypeOK, Known, Message

\* A buffer with another word, or another PID, in it.
LEMMA Written ==
  ASSUME BufOK, NEW r \in Request, NEW x \in Info, NEW p \in Pid \cup {0}
  PROVE  /\ [buf EXCEPT ![r].info = x] \in [Request -> Message]
         /\ [buf EXCEPT ![r] = [buf[r] EXCEPT !.info = x]] \in [Request -> Message]
         /\ [buf EXCEPT ![r] = [buf[r] EXCEPT !.pid = p]] \in [Request -> Message]
         /\ buf[r] \in Message /\ buf[r].pid \in Pid \cup {0} /\ buf[r].info \in Info
<1>1. buf \in [Request -> Message] /\ buf[r] \in Message
  BY DEF BufOK
<1>2. /\ [buf[r] EXCEPT !.info = x] \in Message
      /\ [buf[r] EXCEPT !.pid = p] \in Message
      /\ buf[r].pid \in Pid \cup {0} /\ buf[r].info \in Info
  BY <1>1 DEF Message
<1>3. [buf EXCEPT ![r].info = x] = [buf EXCEPT ![r] = [buf[r] EXCEPT !.info = x]]
  OBVIOUS
<1> QED BY <1>1, <1>2, <1>3

\* What a step does to the place of the requests.
LEMMA AtStep ==
  ASSUME [Next]_vars
  PROVE  \/ at' = at
         \/ \E r \in Request, to \in Places : at' = [at EXCEPT ![r] = to]
<1> USE DEF Goto, Places
<1>1. ASSUME NEW r \in Request, Send(r) \/ Handle(r)
      PROVE  \/ at' = at
             \/ \E to \in Places : at' = [at EXCEPT ![r] = to]
  BY <1>1 DEF Send, Handle, Point, Test, Claim, Protect, Resume, Clear, ClearInit,
              Complete, Refuse, ReadsDeadBuffer
<1>2. ASSUME InjectorStep \/ Entry \/ NextProcess \/ SenderStep \/ ConnStep \/ UNCHANGED vars
      PROVE  at' = at
  BY <1>2 DEF InjectorStep, TestPid, Inject, Hooking, Entry, SeeRequest, TakeIds, Wake, NextProcess,
              SenderStep, SenderStarts, SenderSees, SenderWritesInfo, SenderWritesPid,
              Writes, SenderSignals, SenderEnds, Sender, ConnStep, Connected, TestInit,
              CopyIds, SendIds, ServerAnswers, TellLoader, WakeLoader, Conn, vars
<1> QED BY <1>1, <1>2 DEF Next

\* What a step does to the buffers.
LEMMA BufStep ==
  ASSUME TypeInv, [Next]_vars
  PROVE  \/ buf' = buf
         \/ \E r \in Request, x \in Info : buf' = [buf EXCEPT ![r].info = x]
         \/ \E r \in Request, x \in Info :
              buf' = [buf EXCEPT ![r] = [buf[r] EXCEPT !.info = x]]
         \/ \E r \in Request, p \in Pid :
              buf' = [buf EXCEPT ![r] = [buf[r] EXCEPT !.pid = p]]
<1>1. ASSUME NEW r \in Request, Send(r) \/ Handle(r)
      PROVE  \/ buf' = buf
             \/ buf' = [buf EXCEPT ![r].info = "CHECK"]
  BY <1>1 DEF Send, Handle, Point, Test, Claim, Protect, Resume, Clear, ClearInit,
              Complete, Refuse, ReadsDeadBuffer
<1>2. CASE InjectorStep \/ Entry \/ NextProcess \/ UNCHANGED vars
  BY <1>2 DEF InjectorStep, TestPid, Inject, Hooking, Entry, SeeRequest, TakeIds, Wake, NextProcess, vars
<1>3. CASE SenderStarts \/ SenderSees \/ SenderSignals \/ SenderEnds
  BY <1>3 DEF SenderStarts, SenderSees, SenderSignals, SenderEnds
<1>4. CASE SenderWritesInfo
  <2>1. \/ buf' = buf
        \/ /\ pointer \in alive
           /\ buf' = [buf EXCEPT ![pointer] = [buf[pointer] EXCEPT !.info = "HOOKING"]]
    BY <1>4 DEF SenderWritesInfo, Writes
  <2>2. alive \subseteq Request
    BY Kinds DEF TypeInv, ShareOK
  <2> QED BY <2>1, <2>2 DEF Info
<1>5. CASE SenderWritesPid
  <2>1. \/ buf' = buf
        \/ /\ pointer \in alive
           /\ buf' = [buf EXCEPT ![pointer] = [buf[pointer] EXCEPT !.pid = sent[Len(sent)]]]
    BY <1>5 DEF SenderWritesPid, Writes
  <2>2. alive \subseteq Request /\ sent \in Seq(Pid) /\ sent # <<>>
    BY <1>5, Kinds DEF TypeInv, ShareOK, ListsOK, Known, SenderWritesPid, Writes, Sender
  <2>3. sent[Len(sent)] \in Pid
    BY <2>2
  <2> QED BY <2>1, <2>2, <2>3
<1>6. CASE Connected \/ TestInit \/ CopyIds \/ SendIds \/ ServerAnswers \/ WakeLoader
  BY <1>6 DEF Connected, TestInit, CopyIds, SendIds, ServerAnswers, WakeLoader
<1>7. CASE TellLoader
  <2>1. \/ buf' = buf
        \/ pointer \in alive /\ buf' = [buf EXCEPT ![pointer].info = verdict]
    BY <1>7 DEF TellLoader
  <2>2. alive \subseteq Request /\ verdict \in Info
    BY <1>7, Kinds DEF TypeInv, ShareOK, ThreadsOK, Known, TellLoader, Conn, Info
  <2> QED BY <2>1, <2>2
<1> QED BY <1>1, <1>2, <1>3, <1>4, <1>5, <1>6, <1>7
        DEF Next, SenderStep, ConnStep, Info

LEMMA StartedTyped == Started \in Injector
BY DEF Started, Injector

\* One START_HOOKING thread goes on, the others stay where they are.
LEMMA InjectorTyped ==
  ASSUME ListsOK, InjectorStep
  PROVE  /\ injectors' \in Seq(Injector) /\ Len(injectors') = Len(injectors)
         /\ UNCHANGED <<at, buf, event, move, lister>>
         /\ \E n \in 1..Len(injectors) :
              /\ injectors[n].at \in {"test", "inject"}
              /\ injectors'[n].pid = move
              /\ \A k \in 1..Len(injectors) : k # n => injectors'[k] = injectors[k]
<1>1. PICK n \in DOMAIN injectors : TestPid(n) \/ Inject(n)
  BY DEF InjectorStep
<1>2. PICK to \in {"refused", "inject", "failed", "hooked"} :
        /\ injectors[n].at \in {"test", "inject"}
        /\ injectors' = [injectors EXCEPT ![n] = [at |-> to, pid |-> move]]
        /\ UNCHANGED <<at, buf, event, move, lister>>
  BY <1>1 DEF TestPid, Inject, Hooking, share
<1>3. [at |-> to, pid |-> move] \in Injector
  BY DEF Injector, ListsOK
<1>4. injectors \in Seq(Injector) /\ DOMAIN injectors = 1..Len(injectors)
  BY LenProperties DEF ListsOK
<1>5. /\ injectors' \in Seq(Injector) /\ Len(injectors') = Len(injectors)
      /\ injectors'[n] = [at |-> to, pid |-> move]
      /\ \A k \in 1..Len(injectors) : k # n => injectors'[k] = injectors[k]
  BY <1>2, <1>3, <1>4, ExceptSeq
<1> QED BY <1>2, <1>4, <1>5

LEMMA ListsStep ==
  ASSUME TypeInv, [Next]_vars
  PROVE  ListsOK' /\ (sender' # "none" => sent' # <<>>)
<1> DEFINE Same == UNCHANGED <<injectors, move, todo, sent, sender>>
<1>0. ListsOK /\ BufOK /\ (sender # "none" => sent # <<>>)
  BY Kinds DEF TypeInv, Known
<1>1. ASSUME NEW r \in Request, Send(r) \/ Handle(r), ~Complete(r)
      PROVE  Same
  BY <1>1 DEF Send, Handle, Point, Test, Claim, Protect, Resume, Clear, ClearInit,
              Refuse, ReadsDeadBuffer, user, lister
<1>2. ASSUME NEW r \in Request, Complete(r)
      PROVE  /\ UNCHANGED <<todo, sent, sender>>
             /\ move' \in Pid \cup {0} /\ injectors' \in Seq(Injector)
  <2>1. buf[r].pid \in Pid \cup {0}
    BY <1>0 DEF BufOK, Message
  <2>2. UNCHANGED <<todo, sent, sender>>
    BY <1>2 DEF Complete, user, lister
  <2>3. \/ UNCHANGED <<move, injectors>>
        \/ move' = buf[r].pid /\ injectors' = Append(injectors, Started)
    BY <1>2 DEF Complete, user
  <2>4. Append(injectors, Started) \in Seq(Injector)
    BY <1>0, StartedTyped, AppendProperties DEF ListsOK
  <2> QED BY <1>0, <2>1, <2>2, <2>3, <2>4 DEF ListsOK
<1>3. CASE InjectorStep
  <2>1. UNCHANGED <<move, todo, sent, sender>> /\ injectors' \in Seq(Injector)
    BY <1>0, <1>3, InjectorTyped DEF ListsOK, lister
  <2> QED BY <1>0, <2>1 DEF ListsOK
<1>4. CASE NextProcess
  <2>1. /\ Len(todo) > 1 /\ todo' = Tail(todo)
        /\ UNCHANGED <<injectors, move>>
        /\ sent' = Append(sent, Head(todo)) \/ UNCHANGED <<sender, sent>>
    BY <1>4 DEF NextProcess, user
  <2>2. todo # <<>> /\ todo \in Seq(Pid)
    BY <1>0, <2>1 DEF ListsOK
  <2>3. todo' \in Seq(Pid) /\ Head(todo) \in Pid
    BY <2>1, <2>2, HeadTailProperties
  <2>4. \A e \in Pid : Append(sent, e) \in Seq(Pid) /\ Append(sent, e) # <<>>
    BY <1>0 DEF ListsOK
  <2> QED BY <1>0, <2>1, <2>3, <2>4 DEF ListsOK
<1>5. CASE SenderStep
  <2>1. /\ UNCHANGED <<injectors, move, todo, sent>>
        /\ sender' = "none" \/ sender # "none"
    BY <1>5 DEF SenderStep, SenderStarts, SenderSees, SenderWritesInfo, SenderWritesPid,
                Writes, SenderSignals, SenderEnds, Sender, user
  <2> QED BY <1>0, <2>1 DEF ListsOK
<1>6. CASE Entry \/ ConnStep \/ UNCHANGED vars
  <2>1. Same
    BY <1>6 DEF Entry, SeeRequest, TakeIds, Wake, ConnStep, Connected, TestInit,
                CopyIds, SendIds, ServerAnswers, TellLoader, WakeLoader, Conn, vars,
                user, lister
  <2> QED BY <1>0, <2>1 DEF ListsOK
<1>7. Same => ListsOK' /\ (sender' # "none" => sent' # <<>>)
  BY <1>0 DEF ListsOK
<1> QED BY <1>0, <1>1, <1>2, <1>3, <1>4, <1>5, <1>6, <1>7 DEF Next, ListsOK

LEMMA ShareStep ==
  ASSUME ShareOK, [Next]_vars
  PROVE  ShareOK'
<1> USE DEF ShareOK, share
<1>1. ASSUME NEW r \in Request, Send(r) \/ Handle(r)
      PROVE  ShareOK'
  BY <1>1 DEF Send, Handle, Point, Test, Claim, Protect, Resume, Clear, ClearInit,
              Complete, Refuse, ReadsDeadBuffer
<1>2. ASSUME InjectorStep \/ Entry \/ NextProcess \/ UNCHANGED vars
      PROVE  ShareOK'
  BY <1>2 DEF InjectorStep, TestPid, Inject, Hooking, Entry, SeeRequest, TakeIds, Wake, NextProcess, vars
<1>3. CASE SenderStep
  BY <1>3 DEF SenderStep, SenderStarts, SenderSees, SenderWritesInfo, SenderWritesPid,
              Writes, SenderSignals, SenderEnds, Sender
<1>4. CASE ConnStep
  BY <1>4 DEF ConnStep, Connected, TestInit, CopyIds, SendIds, ServerAnswers,
              TellLoader, WakeLoader, Conn
<1> QED BY <1>1, <1>2, <1>3, <1>4 DEF Next

LEMMA ThreadsStep ==
  ASSUME ThreadsOK, conn \in {"tell", "signal"} => verdict # "none", [Next]_vars
  PROVE  ThreadsOK' /\ (conn' \in {"tell", "signal"} => verdict' # "none")
<1> DEFINE Loaders == /\ keeping' \in BOOLEAN /\ told' \subseteq {"SUCCESS", "FAIL"}
                      /\ fault' \in BOOLEAN
           Link    == /\ conn' \in {"off", "id", "copy", "send", "result", "tell", "signal",
                                    "done", "failed"}
                      /\ agentId' \in {"zero", "user", "server"}
                      /\ sentId' \in {"none", "zero", "user", "server"}
                      /\ verdict' \in {"none", "SUCCESS", "FAIL"}
                      /\ conn' \in {"tell", "signal"} => verdict' # "none"
           Drivers == /\ entry' \in {"spin", "read", "wake", "running", "failed"}
                      /\ sender' \in {"none", "delay", "spin", "info", "pid", "signal", "rest"}
<1>0. /\ (UNCHANGED link => Link)
      /\ (UNCHANGED <<entry, sender>> => Drivers)
      /\ (UNCHANGED <<keeping, told, fault>> => Loaders)
  <2>1. ASSUME UNCHANGED link
        PROVE  Link
    BY <2>1 DEF ThreadsOK, link
  <2>2. ASSUME UNCHANGED <<entry, sender>>
        PROVE  Drivers
    BY <2>2 DEF ThreadsOK
  <2>3. ASSUME UNCHANGED <<keeping, told, fault>>
        PROVE  Loaders
    BY <2>3 DEF ThreadsOK
  <2> QED BY <2>1, <2>2, <2>3
<1>1. ASSUME NEW r \in Request, Send(r) \/ Handle(r), ~Complete(r)
      PROVE  Loaders /\ UNCHANGED <<given, entry, sender, link>>
  BY <1>1 DEF Send, Handle, Point, Test, Claim, Protect, Resume, Clear, ClearInit,
              Refuse, ReadsDeadBuffer, user, lister, ThreadsOK
<1>2. ASSUME NEW r \in Request, Complete(r)
      PROVE  Loaders /\ UNCHANGED <<given, entry, sender, link>>
  BY <1>2 DEF Complete, user, lister, ThreadsOK
<1>3. ASSUME InjectorStep \/ NextProcess \/ SeeRequest \/ Wake \/ UNCHANGED vars
      PROVE  /\ UNCHANGED <<keeping, told, fault>> /\ UNCHANGED <<given, link>>
             /\ entry' \in {entry, "read", "running"}
             /\ sender' \in {sender, "delay"}
  BY <1>3 DEF InjectorStep, TestPid, Inject, Hooking, SeeRequest, Wake, NextProcess, vars, user, lister
<1>4. CASE TakeIds
  <2>1. /\ Drivers /\ fault' \in BOOLEAN /\ agentId' \in {agentId, "user"}
        /\ UNCHANGED <<given, keeping, told, conn, sentId, verdict>>
    BY <1>4 DEF TakeIds, user, lister, ThreadsOK
  <2> QED BY <2>1 DEF ThreadsOK, given
<1>5. CASE SenderStep
  <2>1. /\ Drivers /\ fault' \in BOOLEAN
        /\ UNCHANGED <<given, keeping, told, link>>
    BY <1>5 DEF SenderStep, SenderStarts, SenderSees, SenderWritesInfo, SenderWritesPid,
                Writes, SenderSignals, SenderEnds, Sender, user, ThreadsOK
  <2> QED BY <1>0, <2>1 DEF ThreadsOK, given
<1>6. CASE ConnStep
  <2>1. UNCHANGED <<given, entry, sender, keeping, told>> /\ fault' \in BOOLEAN
    BY <1>6 DEF ConnStep, Connected, TestInit, CopyIds, SendIds, ServerAnswers,
                TellLoader, WakeLoader, Conn, user, lister, ThreadsOK
  <2>2. ASSUME Connected \/ TestInit \/ SendIds
        PROVE  Link
    BY <2>2 DEF Connected, TestInit, SendIds, Conn, ThreadsOK
  <2>3. ASSUME CopyIds
        PROVE  Link
    BY <2>3 DEF CopyIds, Conn, ThreadsOK
  <2>4. ASSUME ServerAnswers
        PROVE  Link
    BY <2>4 DEF ServerAnswers, Conn, ThreadsOK
  <2>5. ASSUME TellLoader \/ WakeLoader
        PROVE  Link
    BY <2>5 DEF TellLoader, WakeLoader, Conn, ThreadsOK
  <2>6. Link
    BY <1>6, <2>2, <2>3, <2>4, <2>5 DEF ConnStep
  <2> QED BY <1>0, <2>1, <2>6 DEF ThreadsOK, given
<1>7. \/ Loaders /\ UNCHANGED <<given, entry, sender, link>>
      \/ /\ UNCHANGED <<keeping, told, fault>> /\ UNCHANGED <<given, link>>
         /\ entry' \in {entry, "read", "running"}
         /\ sender' \in {sender, "delay"}
      \/ TakeIds \/ SenderStep \/ ConnStep
  BY <1>1, <1>2, <1>3 DEF Next, Entry
<1> QED BY <1>0, <1>4, <1>5, <1>6, <1>7 DEF ThreadsOK, given

LEMMA TypeStep == TypeInv /\ [Next]_vars => TypeInv'
<1> SUFFICES ASSUME TypeInv, [Next]_vars
             PROVE  TypeInv'
  OBVIOUS
<1>0. AtOK /\ BufOK /\ ShareOK /\ ThreadsOK /\ (conn \in {"tell", "signal"} => verdict # "none")
  BY Kinds DEF TypeInv, Known
<1>1. AtOK'
  BY <1>0, AtStep DEF AtOK
<1>2. BufOK'
  <2> SUFFICES buf' \in [Request -> Message]
    BY DEF BufOK
  <2>0. 0 \in Pid \cup {0} /\ "CHECK" \in Info
    BY DEF Info
  <2>1. CASE buf' = buf
    BY <1>0, <2>1 DEF BufOK
  <2>2. ASSUME NEW r \in Request, NEW x \in Info,
               \/ buf' = [buf EXCEPT ![r].info = x]
               \/ buf' = [buf EXCEPT ![r] = [buf[r] EXCEPT !.info = x]]
        PROVE  buf' \in [Request -> Message]
    <3>1. /\ [buf EXCEPT ![r].info = x] \in [Request -> Message]
          /\ [buf EXCEPT ![r] = [buf[r] EXCEPT !.info = x]] \in [Request -> Message]
      BY <1>0, <2>0, Written
    <3> QED BY <2>2, <3>1
  <2>3. ASSUME NEW r \in Request, NEW p \in Pid,
               buf' = [buf EXCEPT ![r] = [buf[r] EXCEPT !.pid = p]]
        PROVE  buf' \in [Request -> Message]
    BY <1>0, <2>0, <2>3, Written
  <2> QED BY <2>1, <2>2, <2>3, BufStep
<1>3. ListsOK' /\ (sender' # "none" => sent' # <<>>)
  BY ListsStep
<1>4. ShareOK'
  BY <1>0, ShareStep
<1>5. ThreadsOK' /\ (conn' \in {"tell", "signal"} => verdict' # "none")
  BY <1>0, ThreadsStep
<1>6. TypeOK' <=> AtOK' /\ BufOK' /\ ListsOK' /\ ShareOK' /\ ThreadsOK'
  BY DEF TypeOK, AtOK, BufOK, ListsOK, ShareOK, ThreadsOK, Places, Message
<1> QED BY <1>1, <1>2, <1>3, <1>4, <1>5, <1>6 DEF TypeInv, Known

LEMMA TypeInvHolds == Spec => []TypeInv
BY InitTyped, TypeStep, PTL DEF Spec

\* The shared structure, the requests and the threads keep their types.
THEOREM IoctlTypeCorrect == Spec => []TypeOK
BY TypeInvHolds, PTL DEF TypeInv

-----------------------------------------------------------------------------
(* The answer of the server, and the AGENT_ID it is sent.                  *)

\* Before the server has answered, no buffer holds a verdict and the loader has
\* been told none; after that there is only the one.
VerdictInv ==
    /\ conn \in {"off", "id", "copy", "send", "result"} => verdict = "none"
    /\ \A r \in Request : buf[r].info \in {"SUCCESS", "FAIL"} => buf[r].info = verdict
    /\ told \subseteq {verdict}

\* With an AGENT_ID in the first request no buffer ever says "without", so
\* neither TakeIds nor GET_AGENT_ID replaces it.
IdInv ==
    asked = "all" =>
        /\ \A r \in Request : buf[r].info # "without"
        /\ entry \in {"wake", "running"} => agentId = "user"
        /\ conn # "off" => entry = "running"
        /\ sentId \in {"none", "user"}

\* The words a step writes, and what it leaves of the answer.
LEMMA WordStep ==
  ASSUME TypeInv, [Next]_vars
  PROVE  /\ \A r \in Request :
              \/ buf'[r].info \in {buf[r].info, "CHECK", "HOOKING"}
              \/ conn = "tell" /\ buf'[r].info = verdict /\ verdict' = verdict
         /\ \/ told' = told
            \/ \E r \in Request : told' = told \cup ({buf[r].info} \cap {"SUCCESS", "FAIL"})
         /\ \/ verdict' = verdict
            \/ conn = "result" /\ UNCHANGED <<buf, told>>
         /\ conn' \in {"off", "id", "copy", "send", "result"}
            => conn \in {"off", "id", "copy", "send", "result"} /\ verdict' = verdict
         /\ asked' = asked
<1>0. BufOK /\ alive \subseteq Request
  BY Kinds DEF TypeInv, ShareOK
<1> DEFINE Early == {"off", "id", "copy", "send", "result"}
<1>1. ASSUME NEW q \in Request, Send(q) \/ Handle(q)
      PROVE  /\ UNCHANGED <<asked, conn, verdict>>
             /\ \A r \in Request : buf'[r].info \in {buf[r].info, "CHECK"}
             /\ told' = told \/ told' = told \cup ({buf[q].info} \cap {"SUCCESS", "FAIL"})
  <2>1. buf' = buf \/ buf' = [buf EXCEPT ![q].info = "CHECK"]
    BY <1>1 DEF Send, Handle, Point, Test, Claim, Protect, Resume, Clear, ClearInit,
                Complete, Refuse, ReadsDeadBuffer
  <2>2. \A r \in Request : buf'[r].info \in {buf[r].info, "CHECK"}
    BY <1>0, <2>1 DEF BufOK, Message
  <2>3. UNCHANGED <<asked, conn, verdict>>
    BY <1>1 DEF Send, Handle, Point, Test, Claim, Protect, Resume, Clear, ClearInit,
                Complete, Refuse, ReadsDeadBuffer, given, link
  <2>4. told' = told \/ told' = told \cup ({buf[q].info} \cap {"SUCCESS", "FAIL"})
    BY <1>1 DEF Send, Handle, Point, Test, Claim, Protect, Resume, Clear, ClearInit,
                Complete, Refuse, ReadsDeadBuffer, user
  <2> QED BY <2>2, <2>3, <2>4
<1>2. ASSUME InjectorStep \/ Entry \/ NextProcess \/ UNCHANGED vars
      PROVE  UNCHANGED <<asked, conn, verdict, buf, told>>
  BY <1>2 DEF InjectorStep, TestPid, Inject, Hooking, Entry, SeeRequest, TakeIds, Wake, NextProcess, vars, given, link, user
<1>3. ASSUME SenderStep
      PROVE  /\ UNCHANGED <<asked, conn, verdict, told>>
             /\ \A r \in Request : buf'[r].info \in {buf[r].info, "HOOKING"}
  <2>1. \/ buf' = buf
        \/ pointer \in alive /\ buf' = [buf EXCEPT ![pointer] = [buf[pointer] EXCEPT !.info = "HOOKING"]]
        \/ pointer \in alive /\ buf' = [buf EXCEPT ![pointer] = [buf[pointer] EXCEPT !.pid = sent[Len(sent)]]]
    BY <1>3 DEF SenderStep, SenderStarts, SenderSees, SenderWritesInfo, SenderWritesPid,
                Writes, SenderSignals, SenderEnds
  <2>2. UNCHANGED <<asked, conn, verdict, told>>
    BY <1>3 DEF SenderStep, SenderStarts, SenderSees, SenderWritesInfo, SenderWritesPid,
                Writes, SenderSignals, SenderEnds, Sender, given, link, user
  <2> QED BY <1>0, <2>1, <2>2 DEF BufOK, Message
<1>4. ASSUME ConnStep, ~TellLoader, ~ServerAnswers
      PROVE  /\ UNCHANGED <<asked, verdict, told, buf>>
             /\ conn' \in Early => conn \in Early
  BY <1>4 DEF ConnStep, Connected, TestInit, CopyIds, SendIds, WakeLoader, Conn, given, user
<1>5. ASSUME ServerAnswers
      PROVE  /\ UNCHANGED <<asked, told, buf>> /\ conn = "result" /\ conn' \notin Early
  BY <1>5 DEF ServerAnswers, Conn, given, user
<1>6. ASSUME TellLoader
      PROVE  /\ UNCHANGED <<asked, told, verdict>> /\ conn = "tell" /\ conn' = "signal"
             /\ \A r \in Request : buf'[r].info \in {buf[r].info, verdict}
  <2>1. \/ buf' = buf
        \/ pointer \in alive /\ buf' = [buf EXCEPT ![pointer].info = verdict]
    BY <1>6 DEF TellLoader
  <2>2. UNCHANGED <<asked, told, verdict>> /\ conn = "tell" /\ conn' = "signal"
    BY <1>6 DEF TellLoader, Conn, given, user
  <2> QED BY <1>0, <2>1, <2>2 DEF BufOK, Message
<1>7. CASE \E q \in Request : Send(q) \/ Handle(q)
  BY <1>1, <1>7
<1>8. CASE InjectorStep \/ Entry \/ NextProcess \/ UNCHANGED vars
  BY <1>2, <1>8
<1>9. CASE SenderStep
  BY <1>3, <1>9
<1>10. CASE ConnStep
  BY <1>4, <1>5, <1>6, <1>10
<1> QED BY <1>7, <1>8, <1>9, <1>10 DEF Next

LEMMA VerdictStep ==
  ASSUME TypeInv, VerdictInv, [Next]_vars
  PROVE  VerdictInv'
<1>0. conn' \in {"off", "id", "copy", "send", "result"} => verdict' = "none"
  BY WordStep DEF VerdictInv
<1>1. CASE verdict' = verdict
  BY <1>0, <1>1, WordStep DEF VerdictInv
<1>2. CASE verdict' # verdict
  <2>1. UNCHANGED <<buf, told>> /\ verdict = "none"
    BY <1>2, WordStep DEF VerdictInv
  <2>2. told = {}
    BY <2>1, Kinds DEF VerdictInv, TypeInv, ThreadsOK
  <2> QED BY <1>0, <2>1, <2>2 DEF VerdictInv
<1> QED BY <1>1, <1>2

\* ToldIsTheVerdict: whatever is completed when, what the loader hears of the
\* registration is what the server said.
THEOREM LoaderHearsTheVerdict == Spec => []ToldIsTheVerdict
<1>1. Init => VerdictInv
  <2>1. Init => \A r \in Request : buf[r].info \in {"all", "without", "HOOK_MON"}
    BY DEF Init
  <2> QED BY <2>1 DEF Init, VerdictInv
<1>2. TypeInv /\ VerdictInv /\ [Next]_vars => VerdictInv'
  BY VerdictStep
<1>3. VerdictInv => ToldIsTheVerdict
  BY DEF VerdictInv, ToldIsTheVerdict
<1> QED BY <1>1, <1>2, <1>3, TypeInvHolds, PTL DEF Spec

LEMMA IdStep ==
  ASSUME TypeInv, IdInv, asked = "all", [Next]_vars
  PROVE  IdInv'
<1>0. /\ \A r \in Request : buf[r].info # "without"
      /\ entry \in {"wake", "running"} => agentId = "user"
      /\ conn # "off" => entry = "running"
      /\ sentId \in {"none", "user"}
      /\ (conn \in {"tell", "signal"} => verdict # "none")
  BY Kinds DEF IdInv, TypeInv, Known
<1>1. \A r \in Request : buf'[r].info # "without"
  <2>1. verdict # "without"
    BY Kinds DEF TypeInv, ThreadsOK
  <2> QED BY <1>0, <2>1, WordStep
<1>2. ASSUME NEW r \in Request, Send(r) \/ Handle(r)
      PROVE  UNCHANGED <<entry, link>>
  BY <1>2 DEF Send, Handle, Point, Test, Claim, Protect, Resume, Clear, ClearInit,
              Complete, Refuse, ReadsDeadBuffer
<1>3. ASSUME InjectorStep \/ NextProcess \/ SenderStep \/ UNCHANGED vars
      PROVE  UNCHANGED <<entry, link>>
  BY <1>3 DEF InjectorStep, TestPid, Inject, Hooking, NextProcess, vars, SenderStep, SenderStarts, SenderSees,
              SenderWritesInfo, SenderWritesPid, Writes, SenderSignals, SenderEnds, Sender
<1>4. CASE UNCHANGED <<entry, link>>
  BY <1>0, <1>1, <1>4 DEF IdInv, link
<1>5. alive \subseteq Request
  BY Kinds DEF TypeInv, ShareOK
<1>6. CASE Entry
  BY <1>0, <1>1, <1>5, <1>6 DEF IdInv, Entry, SeeRequest, TakeIds, Wake, link
<1>7. CASE Connected \/ TestInit \/ SendIds \/ ServerAnswers \/ WakeLoader
  BY <1>0, <1>1, <1>7 DEF IdInv, Connected, TestInit, SendIds, ServerAnswers, WakeLoader, Conn
<1>8. CASE CopyIds \/ TellLoader
  BY <1>0, <1>1, <1>5, <1>8 DEF IdInv, CopyIds, TellLoader, Conn
<1> QED BY <1>2, <1>3, <1>4, <1>6, <1>7, <1>8 DEF Next, ConnStep

\* SuppliedIdIsUsed: no interleaving of the handshake with the completion of the
\* first request puts the server's AGENT_ID in place of the user's.
THEOREM SuppliedIdSent == Spec => []SuppliedIdIsUsed
<1>1. Init => IdInv
  <2>1. Init => \A r \in Request : buf[r].info \in {asked, "HOOK_MON"}
    BY DEF Init
  <2> QED BY <2>1 DEF Init, IdInv
<1>2. TypeInv /\ IdInv /\ [Next]_vars => IdInv'
  <2> SUFFICES ASSUME TypeInv, IdInv, [Next]_vars
               PROVE  IdInv'
    OBVIOUS
  <2>1. asked' = asked
    BY WordStep
  <2> QED BY <2>1, IdStep DEF IdInv
<1>3. IdInv => SuppliedIdIsUsed
  BY DEF IdInv, SuppliedIdIsUsed
<1> QED BY <1>1, <1>2, <1>3, TypeInvHolds, PTL DEF Spec

-----------------------------------------------------------------------------
(* As long as nothing is late (calm).                                      *)

Completing == {"clear", "first", "complete"}

\* Only the loader's request exists, and the pointer is to it whenever it is past
\* Point; the flag is set exactly while it can be answered.
LoaderInv ==
    /\ ~fault
    /\ \A m \in Mon : at[m] = "user"
    /\ at[Loader] \notin {"refuse", "gone"}
    /\ alive = IF at[Loader] = "user" THEN {} ELSE {Loader}
    /\ pointer \in {NoRequest, Loader}
    /\ at[Loader] \notin {"user", "point"} => pointer = Loader
    /\ buf[Loader].info # "HOOK_MON"
    /\ flag <=> at[Loader] \in {"init", "wait", "clear"}

\* The event is set only for a request that waits, and the first request has been
\* completed before anything else is done with it.
WakeInv ==
    /\ event \/ entry \in {"read", "wake"} => at[Loader] \in {"init", "wait"}
    /\ entry # "running" =>
         /\ isInit /\ ~keeping /\ ~event /\ at[Loader] \notin Completing
         /\ sender = "none" /\ conn = "off"
         /\ sent = <<>> /\ injectors = <<>>
    /\ conn # "off" => ~isInit /\ conn \notin {"copy", "tell", "signal"}
    /\ isInit /\ entry = "running" => event \/ at[Loader] \in {"clear", "first"}
    /\ ~keeping /\ entry = "running" => event \/ at[Loader] \in Completing

\* While a sender writes, the loader's request stays where it can be answered.
SenderInv ==
    /\ sender \in {"spin", "info", "pid", "signal"} => Settled /\ keeping /\ ~isInit
    /\ sender \in {"info", "pid", "signal"} => at[Loader] \in {"init", "wait"}
    /\ sender \in {"none", "delay"} /\ keeping => ~event /\ at[Loader] \notin Completing
    /\ sender = "rest" => keeping

\* A PID the driver has sent is in the request, or is the argument of the last
\* thread, the only one that may still read it.
Arrives(p) ==
    \/ /\ event \/ at[Loader] \in Completing
       /\ buf[Loader].info = "HOOKING" /\ buf[Loader].pid = p
       /\ Len(sent) = Len(injectors) + 1 /\ Injected
    \/ /\ ~event /\ at[Loader] \notin Completing
       /\ Len(sent) = Len(injectors) /\ move = p
       /\ \A n \in 1..Len(injectors) :
            n < Len(injectors) => injectors[n].at \notin {"test", "inject"}

HookInv ==
    /\ \A n \in 1..Len(injectors) :
         injectors[n].at # "test" => injectors[n].pid = sent[n]
    /\ Len(injectors) <= Len(sent)
    /\ sender = "none" => Len(sent) = Len(injectors) /\ Injected
    /\ sender \notin {"none", "rest"} => Len(sent) = Len(injectors) + 1 /\ Injected
    /\ sender \in {"pid", "signal"} => buf[Loader].info = "HOOKING"
    /\ sender = "signal" => buf[Loader].pid = sent[Len(sent)]
    /\ sender = "rest" => Arrives(sent[Len(sent)])

CalmInv == calm => LoaderInv /\ WakeInv /\ SenderInv /\ HookInv

LEMMA CalmInit == Init => CalmInv
<1> SUFFICES ASSUME Init
             PROVE  CalmInv
  OBVIOUS
<1>1. at[Loader] = "user" /\ buf[Loader].info \in {"all", "without"} /\ \A m \in Mon : at[m] = "user"
  BY DEF Init, Request
<1>2. Len(<<>>) = 0 /\ DOMAIN <<>> = {}
  OBVIOUS
<1> QED BY <1>1, <1>2
        DEF Init, CalmInv, Injected, LoaderInv, WakeInv, SenderInv, HookInv, Completing

\* The loader's request goes one place on, the others stay where they are.
LEMMA LoaderStep ==
  ASSUME TypeInv, calm, LoaderInv, WakeInv, SenderInv, [Next]_vars
  PROVE  LoaderInv'
<1> USE DEF LoaderInv, Goto, share
<1>0. /\ AtOK /\ BufOK /\ Loader \in Request /\ Loader \notin Mon /\ NoRequest \notin Request
      /\ verdict # "HOOK_MON"
  BY Kinds, UserIoctlAssumption DEF TypeInv, ThreadsOK, Request
<1>1. ASSUME NEW r \in Request, Send(r)
      PROVE  LoaderInv' /\ r = Loader
  BY <1>0, <1>1 DEF Send, Request, AtOK
<1>2. ASSUME NEW r \in Request, Handle(r)
      PROVE  r = Loader
  BY <1>0, <1>2 DEF Handle, Point, Test, Claim, Protect, Resume, Clear, ClearInit,
              Complete, Refuse, ReadsDeadBuffer, Request
<1>3. CASE Point(Loader) \/ Test(Loader) \/ Claim(Loader) \/ Protect(Loader)
  <2>1. /\ at'[Loader] \in {"test", "claim", "init", "wait"} /\ at[Loader] # "user"
        /\ at'[Loader] = "test" => at[Loader] = "point" /\ pointer' = Loader /\ flag' = flag
        /\ at'[Loader] = "claim" => at[Loader] = "test" /\ pointer' = pointer /\ flag' = flag
        /\ at'[Loader] = "init" => at[Loader] = "claim" /\ pointer' = pointer /\ flag' = TRUE
        /\ at'[Loader] = "wait" => at[Loader] = "init" /\ pointer' = pointer /\ flag' = flag
        /\ UNCHANGED <<alive, buf, fault>>
    BY <1>0, <1>3 DEF Point, Test, Claim, Protect, AtOK
  <2>2. \A m \in Mon : at'[m] = at[m]
    BY <1>0, <1>3 DEF Point, Test, Claim, Protect, AtOK, Request
  <2> QED BY <2>1, <2>2
<1>4. CASE Resume(Loader) \/ Clear(Loader) \/ ClearInit(Loader)
  <2>1. /\ at'[Loader] \in {"clear", "first", "complete"}
        /\ at'[Loader] = "clear" => at[Loader] = "wait" /\ flag' = flag
        /\ at'[Loader] = "first" => at[Loader] = "clear" /\ flag' = FALSE
        /\ at'[Loader] = "complete" => at[Loader] = "first" /\ flag' = flag
        /\ UNCHANGED <<pointer, alive, buf, fault>>
    BY <1>0, <1>4 DEF Resume, Clear, ClearInit, AtOK
  <2>2. \A m \in Mon : at'[m] = at[m]
    BY <1>0, <1>4 DEF Resume, Clear, ClearInit, AtOK, Request
  <2> QED BY <2>1, <2>2
<1>5. CASE Complete(Loader)
  <2>1. /\ at[Loader] = "complete" /\ at'[Loader] = "user" /\ alive' = alive \ {Loader}
        /\ UNCHANGED <<pointer, flag, fault>>
    BY <1>0, <1>5 DEF Complete, AtOK
  <2>2. \A m \in Mon : at'[m] = at[m]
    BY <1>0, <1>5 DEF Complete, AtOK, Request
  <2>3. buf' = [buf EXCEPT ![Loader].info = "CHECK"]
    BY <1>5 DEF Complete
  <2>4. buf'[Loader].info = "CHECK"
    BY <1>0, <2>3 DEF BufOK, Message
  <2> QED BY <2>1, <2>2, <2>4
<1>9. ~Refuse(Loader) /\ ~ReadsDeadBuffer(Loader)
  BY <1>0 DEF Refuse, ReadsDeadBuffer
<1>6. CASE InjectorStep \/ Entry \/ NextProcess \/ UNCHANGED vars
  BY <1>6 DEF WakeInv, InjectorStep, TestPid, Inject, Hooking, Entry, SeeRequest, TakeIds, Wake, NextProcess, vars
<1>7. CASE SenderStep
  BY <1>0, <1>7 DEF SenderInv, SenderStep, SenderStarts, SenderSees, SenderWritesInfo, SenderWritesPid,
              Writes, SenderSignals, SenderEnds, Sender, BufOK, Message
<1>8. CASE ConnStep
  BY <1>0, <1>8 DEF WakeInv, ConnStep, Connected, TestInit, CopyIds, SendIds, ServerAnswers,
              TellLoader, WakeLoader, Conn
<1> QED BY <1>1, <1>2, <1>3, <1>4, <1>5, <1>6, <1>7, <1>8, <1>9 DEF Next, Handle

LEMMA WakeStep ==
  ASSUME TypeInv, calm, LoaderInv, WakeInv, SenderInv, HookInv, [Next]_vars
  PROVE  WakeInv'
<1> USE DEF WakeInv, Goto, share, link, lister, user, Completing
<1>0. /\ AtOK /\ BufOK /\ Loader \in Request /\ Loader \notin Mon
  BY Kinds, UserIoctlAssumption DEF TypeInv, Request
<1>1. ASSUME NEW r \in Request, Send(r) \/ Handle(r)
      PROVE  r = Loader
  BY <1>0, <1>1 DEF LoaderInv, Send, Handle, Point, Test, Claim, Protect, Resume, Clear, ClearInit,
              Complete, Refuse, ReadsDeadBuffer, Request
<1>2. CASE Send(Loader) \/ Point(Loader) \/ Test(Loader) \/ Claim(Loader) \/ Protect(Loader)
  BY <1>0, <1>2 DEF LoaderInv, Send, Point, Test, Claim, Protect, AtOK
<1>3. CASE Resume(Loader) \/ Clear(Loader) \/ ClearInit(Loader)
  BY <1>0, <1>3 DEF LoaderInv, Resume, Clear, ClearInit, AtOK
<1>4. CASE Complete(Loader) \/ Refuse(Loader) \/ ReadsDeadBuffer(Loader)
  BY <1>0, <1>4 DEF LoaderInv, Complete, Refuse, ReadsDeadBuffer, AtOK
<1>5. CASE InjectorStep \/ NextProcess \/ UNCHANGED vars
  BY <1>5 DEF HookInv, InjectorStep, TestPid, Inject, Hooking, NextProcess, vars
<1>6. CASE Entry
  BY <1>6 DEF LoaderInv, Entry, SeeRequest, TakeIds, Wake
<1>7. CASE SenderStep
  BY <1>7 DEF SenderInv, SenderStep, SenderStarts, SenderSees, SenderWritesInfo, SenderWritesPid,
              Writes, SenderSignals, SenderEnds, Sender
<1>8. CASE ConnStep
  BY <1>8 DEF LoaderInv, ConnStep, Connected, TestInit, CopyIds, SendIds, ServerAnswers,
              TellLoader, WakeLoader, Conn, Elapsed, Settled
<1> QED BY <1>1, <1>2, <1>3, <1>4, <1>5, <1>6, <1>7, <1>8 DEF Next, Handle, Entry

LEMMA SenderInvStep ==
  ASSUME TypeInv, calm, LoaderInv, WakeInv, SenderInv, HookInv, [Next]_vars
  PROVE  SenderInv'
<1> USE DEF SenderInv, Goto, Settled, Injected, share, link, lister, user, Completing
<1>0. /\ AtOK /\ BufOK /\ Loader \in Request /\ Loader \notin Mon
  BY Kinds, UserIoctlAssumption DEF TypeInv, Request
<1>1. ASSUME NEW r \in Request, Send(r) \/ Handle(r)
      PROVE  r = Loader
  BY <1>0, <1>1 DEF LoaderInv, Send, Handle, Point, Test, Claim, Protect, Resume, Clear, ClearInit,
              Complete, Refuse, ReadsDeadBuffer, Request
<1>2. CASE Send(Loader) \/ Point(Loader) \/ Test(Loader) \/ Claim(Loader) \/ Protect(Loader)
  BY <1>0, <1>2 DEF LoaderInv, Send, Point, Test, Claim, Protect, AtOK
<1>3. CASE Resume(Loader) \/ Clear(Loader) \/ ClearInit(Loader)
  BY <1>0, <1>3 DEF LoaderInv, Resume, Clear, ClearInit, AtOK
<1>4. CASE Complete(Loader) \/ Refuse(Loader) \/ ReadsDeadBuffer(Loader)
  BY <1>0, <1>4 DEF LoaderInv, WakeInv, Complete, Refuse, ReadsDeadBuffer, AtOK
<1>5. CASE NextProcess \/ UNCHANGED vars
  BY <1>5 DEF HookInv, NextProcess, vars
<1>9. CASE InjectorStep
  <2>1. /\ ~Injected
        /\ UNCHANGED <<at, event, keeping, isInit, sender>>
    BY <1>9 DEF InjectorStep, TestPid, Inject, Hooking
  <2> QED BY <2>1
<1>6. CASE Entry
  BY <1>6 DEF WakeInv, Entry, SeeRequest, TakeIds, Wake
<1>7. CASE SenderStep
  BY <1>7 DEF WakeInv, LoaderInv, HookInv, SenderStep, SenderStarts, SenderSees, SenderWritesInfo,
              SenderWritesPid, Writes, SenderSignals, SenderEnds, Sender, Elapsed
<1>8. CASE ConnStep
  BY <1>8 DEF WakeInv, ConnStep, Connected, TestInit, CopyIds, SendIds, ServerAnswers,
              TellLoader, WakeLoader, Conn
<1> QED BY <1>1, <1>2, <1>3, <1>4, <1>5, <1>6, <1>7, <1>8, <1>9 DEF Next, Handle

LEMMA HookStep ==
  ASSUME TypeInv, calm, LoaderInv, WakeInv, SenderInv, HookInv, [Next]_vars
  PROVE  HookInv'
<1> USE DEF Goto, Settled, share, link, lister, user, Completing
<1> DEFINE Same == UNCHANGED <<sender, sent>>
<1>0. /\ AtOK /\ BufOK /\ Loader \in Request /\ Loader \notin Mon
      /\ Len(sent) \in Nat /\ Len(injectors) \in Nat /\ DOMAIN injectors = 1..Len(injectors)
      /\ injectors \in Seq(Injector) /\ sent \in Seq(Pid) /\ todo \in Seq(Pid)
  BY Kinds, UserIoctlAssumption, LenProperties DEF TypeInv, Request, ListsOK
<1>1. ASSUME NEW r \in Request, Send(r) \/ Handle(r)
      PROVE  r = Loader
  BY <1>0, <1>1 DEF LoaderInv, Send, Handle, Point, Test, Claim, Protect, Resume, Clear, ClearInit,
              Complete, Refuse, ReadsDeadBuffer, Request
<1>2. ASSUME Same, UNCHANGED <<injectors, move, buf, event>>,
             at'[Loader] \in Completing <=> at[Loader] \in Completing
      PROVE  HookInv'
  BY <1>2 DEF HookInv, Arrives, Injected
<1>3. CASE Send(Loader) \/ Point(Loader) \/ Test(Loader) \/ Claim(Loader) \/ Protect(Loader)
  <2>1. at'[Loader] \in Completing <=> at[Loader] \in Completing
    BY <1>0, <1>3 DEF LoaderInv, Send, Point, Test, Claim, Protect, AtOK
  <2>2. Same /\ UNCHANGED <<injectors, move, buf, event>>
    BY <1>3 DEF Send, Point, Test, Claim, Protect
  <2> QED BY <1>2, <2>1, <2>2
<1>4. CASE Resume(Loader) \/ Clear(Loader) \/ ClearInit(Loader)
  <2>1. /\ event \/ at[Loader] \in Completing
        /\ at'[Loader] \in Completing
    BY <1>0, <1>4 DEF Resume, Clear, ClearInit, AtOK
  <2>2. Same /\ UNCHANGED <<injectors, move, buf>>
    BY <1>4 DEF Resume, Clear, ClearInit
  <2> QED BY <2>1, <2>2 DEF HookInv, Arrives, Injected
<1>5. CASE Complete(Loader)
  <2>1. /\ at[Loader] = "complete" /\ at'[Loader] = "user" /\ event' = event /\ Same
    BY <1>0, <1>5 DEF Complete, AtOK
  <2>2. ~event /\ sender \notin {"spin", "info", "pid", "signal"} /\ (sender \in {"none", "delay"} => ~keeping)
    BY <2>1 DEF WakeInv, SenderInv
  <2>3. IF keeping /\ buf[Loader].info = "HOOKING"
        THEN move' = buf[Loader].pid /\ injectors' = Append(injectors, Started)
        ELSE UNCHANGED <<move, injectors>>
    BY <1>5 DEF Complete
  <2>4. CASE sender \in {"none", "delay"}
    <3>1. injectors' = injectors
      BY <2>2, <2>3, <2>4
    <3> QED BY <2>1, <2>4, <3>1 DEF HookInv, Injected
  <2>5. CASE sender = "rest"
    <3>1. /\ keeping /\ buf[Loader].info = "HOOKING" /\ buf[Loader].pid = sent[Len(sent)]
          /\ Len(sent) = Len(injectors) + 1 /\ Injected
      BY <2>1, <2>5 DEF SenderInv, HookInv, Arrives
    <3>2. injectors' = Append(injectors, Started) /\ move' = sent[Len(sent)]
      BY <2>3, <3>1
    <3>3. /\ Len(injectors') = Len(injectors) + 1
          /\ \A n \in 1..Len(injectors) : injectors'[n] = injectors[n]
          /\ injectors'[Len(injectors) + 1] = Started
      BY <1>0, <3>2, StartedTyped, AppendProperties
    <3>4. \A n \in 1..Len(injectors) :
            /\ injectors[n].at \notin {"test", "inject"}
            /\ injectors[n].at # "test" => injectors[n].pid = sent[n]
      BY <1>0, <3>1 DEF HookInv, Injected
    <3>5. \A n \in 1..Len(injectors') :
            n < Len(injectors') => injectors'[n].at \notin {"test", "inject"}
      BY <1>0, <3>3, <3>4
    <3>6. \A n \in 1..Len(injectors') : injectors'[n].at # "test" => injectors'[n].pid = sent[n]
      BY <1>0, <3>3, <3>4 DEF Started
    <3>7. ~event' /\ at'[Loader] \notin Completing /\ sent' = sent /\ sender' = "rest"
      BY <2>1, <2>2, <2>5
    <3>8. Len(sent') = Len(injectors')
      BY <3>1, <3>3, <3>7
    <3>9. Arrives(sent[Len(sent)])'
      BY <3>2, <3>5, <3>7, <3>8 DEF Arrives
    <3> QED BY <1>0, <3>6, <3>7, <3>8, <3>9 DEF HookInv
  <2> QED BY <1>0, <2>2, <2>4, <2>5, Kinds DEF TypeInv, ThreadsOK
<1>6. ~Refuse(Loader) /\ ~ReadsDeadBuffer(Loader)
  BY DEF LoaderInv, Refuse, ReadsDeadBuffer
<1>7. CASE InjectorStep
  <2>1. PICK n \in 1..Len(injectors) :
          /\ injectors[n].at \in {"test", "inject"} /\ injectors'[n].pid = move
          /\ \A k \in 1..Len(injectors) : k # n => injectors'[k] = injectors[k]
    BY <1>7, Kinds, InjectorTyped DEF TypeInv
  <2>2. UNCHANGED <<at, buf, event, move, sender, sent>> /\ Len(injectors') = Len(injectors)
    BY <1>7, Kinds, InjectorTyped DEF TypeInv
  <2>3. ~Injected
    BY <1>0, <2>1 DEF Injected
  <2>4. /\ sender = "rest" /\ ~event /\ at[Loader] \notin Completing
        /\ Len(sent) = Len(injectors) /\ move = sent[Len(sent)]
        /\ \A k \in 1..Len(injectors) :
             k < Len(injectors) => injectors[k].at \notin {"test", "inject"}
    BY <1>0, <2>3 DEF HookInv, Arrives, Injected
  <2>5. n = Len(injectors)
    <3>1. n \in Nat /\ n <= Len(injectors) /\ ~(n < Len(injectors))
      BY <1>0, <2>1, <2>4
    <3>2. \A a, b \in Nat : a <= b /\ ~(a < b) => a = b
      OBVIOUS
    <3>3. Len(injectors) \in Nat
      BY <1>0
    <3> QED BY <3>1, <3>2, <3>3, Zenon
  <2>6. \A k \in 1..Len(injectors') :
          injectors'[k].at # "test" => injectors'[k].pid = sent'[k]
    BY <1>0, <2>1, <2>2, <2>4, <2>5 DEF HookInv, Injected
  <2>7. \A k \in 1..Len(injectors') :
          k < Len(injectors') => injectors'[k].at \notin {"test", "inject"}
    BY <1>0, <2>1, <2>2, <2>4, <2>5
  <2> QED BY <1>0, <2>2, <2>4, <2>6, <2>7 DEF HookInv, Arrives, Injected
<1>8. CASE Entry
  <2>1. UNCHANGED <<at, buf, injectors, move, sender, sent>>
    BY <1>8 DEF Entry, SeeRequest, TakeIds, Wake
  <2>2. event' = event \/ sender = "none"
    BY <1>8 DEF WakeInv, Entry, SeeRequest, TakeIds, Wake
  <2> QED BY <2>1, <2>2 DEF HookInv, Arrives, Injected
<1>9. CASE NextProcess
  <2>1. /\ sender = "none" /\ Len(todo) > 1 /\ UNCHANGED <<at, buf, event, injectors, move>>
        /\ \/ sender' = "delay" /\ sent' = Append(sent, Head(todo))
           \/ UNCHANGED <<sender, sent>>
    BY <1>9 DEF NextProcess
  <2>2. Head(todo) \in Pid
    BY <1>0, <2>1, HeadTailProperties
  <2>3. ASSUME sent' = Append(sent, Head(todo))
        PROVE  Len(sent') = Len(sent) + 1 /\ \A i \in 1..Len(sent) : sent'[i] = sent[i]
    BY <1>0, <2>2, <2>3, AppendProperties
  <2>4. CASE UNCHANGED <<sender, sent>>
    BY <1>2, <2>1, <2>4
  <2>5. CASE sender' = "delay" /\ sent' = Append(sent, Head(todo))
    BY <1>0, <2>1, <2>3, <2>5 DEF HookInv, Injected
  <2> QED BY <2>1, <2>4, <2>5
<1>10. CASE SenderStarts \/ SenderSees
  <2>1. UNCHANGED <<at, buf, event, injectors, move, sent>> /\ sender \in {"delay", "spin"} /\ sender' \in {"spin", "info"}
    BY <1>10 DEF SenderStarts, SenderSees, Sender
  <2> QED BY <2>1 DEF HookInv, Injected
<1>11. CASE SenderWritesInfo \/ SenderWritesPid
  <2>1. pointer = Loader /\ Loader \in alive
    BY <1>11 DEF SenderWritesInfo, SenderWritesPid, Writes, Sender, SenderInv, LoaderInv
  <2>2. UNCHANGED <<at, event, injectors, move, sent>> 
    BY <1>11 DEF SenderWritesInfo, SenderWritesPid, Writes, Sender
  <2>3. CASE SenderWritesInfo
    <3>1. sender = "info" /\ sender' = "pid" /\ buf'[Loader].info = "HOOKING"
      BY <1>0, <2>1, <2>3 DEF SenderWritesInfo, Writes, Sender, BufOK, Message
    <3> QED BY <2>2, <3>1 DEF HookInv, Injected
  <2>4. CASE SenderWritesPid
    <3>1. /\ sender = "pid" /\ sender' = "signal" /\ buf'[Loader].info = buf[Loader].info
          /\ buf'[Loader].pid = sent[Len(sent)]
      BY <1>0, <2>1, <2>4 DEF SenderWritesPid, Writes, Sender, BufOK, Message
    <3> QED BY <2>2, <3>1 DEF HookInv, Injected
  <2> QED BY <1>11, <2>3, <2>4
<1>12. CASE SenderSignals
  <2>1. UNCHANGED <<at, buf, injectors, move, sent>> /\ event' /\ sender = "signal" /\ sender' = "rest"
    BY <1>12 DEF SenderSignals, Sender
  <2> QED BY <2>1 DEF HookInv, Arrives, Injected
<1>13. CASE SenderEnds
  <2>1. UNCHANGED <<at, buf, event, injectors, move, sent>> /\ sender = "rest" /\ sender' = "none" /\ Settled
    BY <1>13 DEF SenderEnds, Sender, Elapsed
  <2> QED BY <2>1 DEF HookInv, Arrives, Injected
<1>14. CASE ConnStep
  <2>1. conn \notin {"tell", "signal"}
    BY DEF WakeInv
  <2>2. UNCHANGED <<at, buf, event, injectors, move, sent, sender>>
    BY <1>14, <2>1 DEF ConnStep, Connected, TestInit, CopyIds, SendIds, ServerAnswers,
              TellLoader, WakeLoader, Conn
  <2> QED BY <1>2, <2>2
<1>15. CASE UNCHANGED vars
  BY <1>2, <1>15 DEF vars
<1> QED BY <1>1, <1>3, <1>4, <1>5, <1>6, <1>7, <1>8, <1>9, <1>10, <1>11, <1>12, <1>13, <1>14, <1>15
        DEF Next, Handle, SenderStep

LEMMA CalmStep == TypeInv /\ CalmInv /\ [Next]_vars => CalmInv'
<1> SUFFICES ASSUME TypeInv, CalmInv, [Next]_vars, calm'
             PROVE  (LoaderInv /\ WakeInv /\ SenderInv /\ HookInv)'
  BY DEF CalmInv
<1>1. calm
  BY DEF Next, Send, Handle, Point, Test, Claim, Protect, Resume, Clear, ClearInit, Complete, Refuse,
         ReadsDeadBuffer, InjectorStep, TestPid, Inject, Hooking, Entry, SeeRequest, TakeIds, Wake, NextProcess, SenderStep,
         SenderStarts, SenderSees, SenderWritesInfo, SenderWritesPid, Writes, SenderSignals,
         SenderEnds, Sender, ConnStep, Connected, TestInit, CopyIds, SendIds, ServerAnswers,
         TellLoader, WakeLoader, Conn, given, vars
<1> QED BY <1>1, LoaderStep, WakeStep, SenderInvStep, HookStep DEF CalmInv

LEMMA CalmInvHolds == Spec => []CalmInv
BY CalmInit, CalmStep, TypeInvHolds, PTL DEF Spec

\* NoFault: with nothing late, the driver never writes to a request that is over.
THEOREM CalmHasNoFault == Spec => []NoFault
<1>1. CalmInv => NoFault
  BY DEF CalmInv, LoaderInv, NoFault
<1> QED BY <1>1, CalmInvHolds, PTL

\* HookedAsAsked: with nothing late, the n-th START_HOOKING thread looks at, and
\* injects into, the n-th process the driver has asked for.
THEOREM HookedInOrder == Spec => []HookedAsAsked
<1>1. TypeInv /\ CalmInv => HookedAsAsked
  <2> SUFFICES ASSUME TypeInv, CalmInv, calm
               PROVE  /\ Len(injectors) <= Len(sent)
                      /\ \A n \in DOMAIN injectors :
                           injectors[n].at # "test" => injectors[n].pid = sent[n]
    BY DEF HookedAsAsked
  <2>1. DOMAIN injectors = 1..Len(injectors)
    BY Kinds, LenProperties DEF TypeInv, ListsOK
  <2> QED BY <2>1 DEF CalmInv, HookInv
<1> QED BY <1>1, TypeInvHolds, CalmInvHolds, PTL
=============================================================================
