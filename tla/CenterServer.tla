----------------------------- MODULE CenterServer -----------------------------
(***************************************************************************)
(* The threads of the center server (Center_Server/Rust) and what they     *)
(* share: the registry of connected agents, one TCP stream per agent, and  *)
(* the database connection.  Each is behind a std::sync::Mutex.            *)
(*                                                                         *)
(* A session thread (Start_Agent) polls its agent and starts a parser      *)
(* thread for every answer that carries records.  A parser fetches the     *)
(* executable of a record it has no row for, over the same stream.  A GUI  *)
(* thread sends a command over it.  Only the streams are held across       *)
(* steps: a statement on the registry or the database locks and unlocks    *)
(* in one expression and waits for nothing in between.                     *)
(*                                                                         *)
(* A thread that panics poisons the mutexes it holds, and lock().unwrap()  *)
(* of a poisoned mutex panics.  The agent is the environment: it answers   *)
(* requests in order, late, or not at all.  TCP framing is left out.       *)
(* main.rs starts only the session listener at this commit; Gui = {} is    *)
(* that program, a larger Gui the one with lines 62-65 enabled.            *)
(***************************************************************************)
EXTENDS Naturals, Sequences, FiniteSets

CONSTANTS
    Session,    \* connections of agents; each gets an AGENT_ID of its own
    Parser,     \* how many parsers run at a time (thread::spawn has no bound)
    Gui,        \* the threads of GUI programs
    File,       \* SHA256 values of executables
    Batch,      \* the sequences of process records an agent may send at once
    NoThread,   \* the holder of a free mutex
    MaxPending, \* bound: unread answers of an agent
    DbFails     \* may a database statement fail?

Thread == Session \cup Parser \cup Gui

ASSUME CenterServerAssumption ==
    /\ NoThread \notin Thread
    /\ Session \cap Parser = {} /\ Session \cap Gui = {} /\ Parser \cap Gui = {}
    /\ {"poll", "command"} \cap File = {}
    /\ Batch \subseteq Seq(File) \ {<<>>}
    /\ MaxPending \in Nat
    /\ DbFails \in BOOLEAN

VARIABLES
    pc,         \* where each thread is
    registry,   \* AGENT_GUI_share.AGENT_info
    lock,       \* lock[s]: the thread that holds the stream of session s
    poisoned,   \* the sessions whose stream mutex is poisoned
    dbPoisoned, \* the mutex of the database connection is poisoned
    up,         \* the agents that still answer
    pending,    \* pending[s]: answers of the agent nobody has read yet
    aim,        \* aim[t]: the session whose stream a parser or GUI thread uses
    batch,      \* batch[p]: the records a parser has not finished
    got,        \* got[p]: what the bytes are that a parser takes for its file
    table,      \* table[f]: the requests whose answers the rows of file f have
    disturbed   \* history: sessions with an answer nobody waited for

sharedVars == <<registry, lock, poisoned, dbPoisoned>>
agentVars  == <<up, pending, disturbed>>
localVars  == <<aim, batch, got>>
vars == <<pc, sharedVars, agentVars, localVars, table>>

\* A request for an executable is named after the file.
Request == {"poll", "command"} \cup File

\* An answer, the request it answers, and whether it is anything but No.
Answer == [to : Request, good : BOOLEAN, records : Seq(File)]

ans(to, good, records) == [to |-> to, good |-> good, records |-> records]

Labels == {"connect", "join", "enlist", "poll", "answer", "ended", "dead",
           "idle", "row", "look", "fetch", "reply", "recheck", "insert",
           "command", "result", "log"}

TypeOK ==
    /\ pc \in [Thread -> Labels]
    /\ registry \subseteq Session
    /\ lock \in [Session -> Thread \cup {NoThread}]
    /\ poisoned \subseteq Session
    /\ dbPoisoned \in BOOLEAN
    /\ up \subseteq Session
    /\ pending \in [Session -> Seq(Answer)]
    /\ aim \in [Parser \cup Gui -> Session]
    /\ batch \in [Parser -> Seq(File)]
    /\ got \in [Parser -> Request]
    /\ table \in [File -> Seq(Request)]
    /\ disturbed \subseteq Session

Init ==
    /\ pc = [t \in Thread |-> IF t \in Session THEN "connect" ELSE "idle"]
    /\ registry = {}
    /\ lock = [s \in Session |-> NoThread]
    /\ poisoned = {}
    /\ dbPoisoned = FALSE
    /\ up = Session
    /\ pending = [s \in Session |-> <<>>]
    /\ aim \in {[t \in Parser \cup Gui |-> s] : s \in Session}
    /\ batch = [p \in Parser |-> <<>>]
    /\ got = [p \in Parser |-> "poll"]
    /\ table = [f \in File |-> <<>>]
    /\ disturbed = {}

-----------------------------------------------------------------------------
(* TCP_STREAM_Instance                                                     *)

Stream(t) == IF t \in Session THEN t ELSE aim[t]

Goto(t, from, to) ==
    /\ pc[t] = from
    /\ pc' = [pc EXCEPT ![t] = to]

\* What an agent may send back for request r: communication_server answers
\* with data or with No, and an accepted command is answered with Yes twice,
\* by processing_action_with_server_Action_Process_Node and by its caller.
AnswersTo(r) ==
    {<<ans(r, FALSE, <<>>)>>} \cup
    IF r = "poll" THEN {<<ans(r, TRUE, b)>> : b \in Batch}
    ELSE IF r = "command" THEN {<<ans(r, TRUE, <<>>), ans(r, TRUE, <<>>)>>}
    ELSE {<<ans(r, TRUE, <<>>)>>}

\* Mutants of Ask: the stream is used without its mutex; the mutex is let go
\* between the request and the answer; a poisoned mutex is used all the same.
AskUnlocked(t, r) ==
    LET s == Stream(t) IN
    /\ s \notin poisoned
    /\ lock' = [lock EXCEPT ![s] = t]
    /\ \E a \in AnswersTo(r) :
         /\ s \in up
         /\ Len(pending[s]) + Len(a) <= MaxPending
         /\ pending' = [pending EXCEPT ![s] = @ \o a]
    /\ UNCHANGED <<registry, poisoned, dbPoisoned, up, disturbed, table>>

AskLetsGo(t, r) ==
    LET s == Stream(t) IN
    /\ lock[s] = NoThread
    /\ s \notin poisoned
    /\ \E a \in AnswersTo(r) :
         /\ s \in up
         /\ Len(pending[s]) + Len(a) <= MaxPending
         /\ pending' = [pending EXCEPT ![s] = @ \o a]
    /\ UNCHANGED <<registry, lock, poisoned, dbPoisoned, up, disturbed, table>>

AskPoisoned(t, r) ==
    LET s == Stream(t) IN
    /\ lock[s] = NoThread
    /\ lock' = [lock EXCEPT ![s] = t]
    /\ \E a \in AnswersTo(r) :
         /\ s \in up
         /\ Len(pending[s]) + Len(a) <= MaxPending
         /\ pending' = [pending EXCEPT ![s] = @ \o a]
         /\ disturbed' = IF Len(a) > 1 THEN disturbed \cup {s} ELSE disturbed
    /\ UNCHANGED <<registry, poisoned, dbPoisoned, up, table>>

\* lock().unwrap() and SEND_DATA; a request that does not arrive is not answered.
Ask(t, r) ==
    LET s == Stream(t) IN
    /\ lock[s] = NoThread
    /\ s \notin poisoned
    /\ lock' = [lock EXCEPT ![s] = t]
    /\ \/ UNCHANGED <<pending, disturbed>>
       \/ \E a \in AnswersTo(r) :
            /\ s \in up
            /\ Len(pending[s]) + Len(a) <= MaxPending
            /\ pending' = [pending EXCEPT ![s] = @ \o a]
            /\ disturbed' = IF Len(a) > 1 THEN disturbed \cup {s} ELSE disturbed
    /\ UNCHANGED <<registry, poisoned, dbPoisoned, up, table>>

\* Receiving_from_Agent returns the oldest answer, whatever was asked.
Receive(t) ==
    LET s == Stream(t) IN
    /\ pending[s] # <<>>
    /\ pending' = [pending EXCEPT ![s] = Tail(@)]
    /\ UNCHANGED <<up, disturbed>>

\* ... or None: the 15 seconds are over or the connection is broken.
ReceiveNone(t) ==
    /\ disturbed' = disturbed \cup {Stream(t)}
    /\ UNCHANGED <<up, pending>>

Oldest(t) == Head(pending[Stream(t)])

\* Yes and No are four bytes long, anything else is data.
IsCode(a) == a.to = "command" \/ ~a.good

Release(t) == lock' = [lock EXCEPT ![Stream(t)] = NoThread]

-----------------------------------------------------------------------------
(* Panics                                                                  *)

\* Thread t unwinds; the streams it holds are poisoned and free.
Panic(t) ==
    /\ pc' = [pc EXCEPT ![t] = IF t \in Parser THEN "idle" ELSE "dead"]
    /\ lock' = [s \in Session |-> IF lock[s] = t THEN NoThread ELSE lock[s]]
    /\ poisoned' = poisoned \cup {s \in Session : lock[s] = t}
    /\ UNCHANGED <<registry, agentVars, localVars, table>>

\* The labels at which a thread runs a statement on the database.
AtDb == {"enlist", "row", "look", "recheck", "insert", "log"}

\* lock().unwrap() of the poisoned connection, or query().unwrap() of a
\* statement that failed, which poisons it.
DbPanics(t) ==
    /\ pc[t] \in AtDb
    /\ dbPoisoned \/ DbFails
    /\ dbPoisoned' = TRUE
    /\ Panic(t)

\* lock().unwrap() of a poisoned stream.
StreamPanics(t) ==
    /\ pc[t] \in {"poll", "fetch", "command"}
    /\ Stream(t) \in poisoned
    /\ Panic(t)
    /\ UNCHANGED dbPoisoned

\* Mutant of SavePanics: the executable is saved before the stream is unlocked.
SavePanicsLocked(p) ==
    /\ pc[p] = "recheck"
    /\ Panic(p)
    /\ UNCHANGED dbPoisoned

\* Save_to_Disk panics when the file cannot be created or written.
SavePanics(p) ==
    /\ pc[p] = "insert"
    /\ Panic(p)
    /\ UNCHANGED dbPoisoned

-----------------------------------------------------------------------------
(* Start_Agent                                                             *)

\* Lines 74-83: the agent echoes the AGENT_ID it was sent, or the session ends.
Handshake(s) ==
    /\ \E to \in {"join", "ended"} : Goto(s, "connect", to)
    /\ UNCHANGED <<sharedVars, agentVars, localVars, table>>

\* Line 88, Insert_Agent_Data: the AGENT_ID is new, it has just been made up.
Join(s) ==
    /\ Goto(s, "join", "enlist")
    /\ registry' = registry \cup {s}
    /\ UNCHANGED <<lock, poisoned, dbPoisoned, agentVars, localVars, table>>

\* Line 92, Query_agent_list_Table: nobody else inserts this AGENT_ID.
Enlist(s) ==
    /\ Goto(s, "enlist", "poll")
    /\ ~dbPoisoned
    /\ UNCHANGED <<sharedVars, agentVars, localVars, table>>

\* Lines 116-121; the pool of parsers is a bound, so nobody polls when the
\* answer might find no parser free.
Poll(s) ==
    /\ Goto(s, "poll", "answer")
    /\ Cardinality({p \in Parser : pc[p] = "idle"})
         > Cardinality({u \in Session : pc[u] = "answer"})
    /\ Ask(s, "poll")
    /\ UNCHANGED localVars

\* Lines 122-143, 157-158: a new parser for data, nothing for a code; data that
\* does not start with an AGENT_ID (an executable) is given up at once.  The
\* lock is dropped and taken again without a pause.
PollAnswered(s) ==
    /\ pc[s] = "answer"
    /\ Receive(s)
    /\ Release(s)
    /\ IF IsCode(Oldest(s)) \/ Oldest(s).to # "poll"
       THEN Goto(s, "answer", "poll") /\ UNCHANGED <<aim, batch>>
       ELSE \E p \in Parser :
              /\ pc[p] = "idle"
              /\ pc' = [pc EXCEPT ![s] = "poll", ![p] = "row"]
              /\ aim' = [aim EXCEPT ![p] = s]
              /\ batch' = [batch EXCEPT ![p] = Oldest(s).records]
    /\ UNCHANGED <<registry, poisoned, dbPoisoned, got, table>>

\* Mutant of PollUnanswered: the agent stays in the registry.
PollUnansweredStays(s) ==
    /\ Goto(s, "answer", "ended")
    /\ ReceiveNone(s)
    /\ Release(s)
    /\ UNCHANGED <<registry, poisoned, dbPoisoned, localVars, table>>

\* Lines 147-153: Remove_Agent_Data, then the lock is dropped and the thread ends.
PollUnanswered(s) ==
    /\ Goto(s, "answer", "ended")
    /\ ReceiveNone(s)
    /\ Release(s)
    /\ registry' = registry \ {s}
    /\ UNCHANGED <<poisoned, dbPoisoned, localVars, table>>

-----------------------------------------------------------------------------
(* Parsing_that_DATA, Insert_to_Table_for_AGENT, INSERT_INTO_file_Table    *)

Wanted(p) == Head(batch[p])

Recorded(f) == table[f] # <<>>

\* The record is done: the next one, or the thread ends.
NextRecord(p) ==
    /\ batch' = [batch EXCEPT ![p] = Tail(@)]
    /\ pc' = [pc EXCEPT ![p] = IF Len(batch[p]) = 1 THEN "idle" ELSE "row"]

\* Lines 334-339: the row in process_routine.
InsertRow(p) ==
    /\ Goto(p, "row", "look")
    /\ ~dbPoisoned
    /\ UNCHANGED <<sharedVars, agentVars, localVars, table>>

\* Lines 430-439
LookUp(p) ==
    /\ pc[p] = "look"
    /\ ~dbPoisoned
    /\ IF Recorded(Wanted(p))
       THEN NextRecord(p)
       ELSE Goto(p, "look", "fetch") /\ UNCHANGED batch
    /\ UNCHANGED <<sharedVars, agentVars, aim, got, table>>

\* Line 445
Fetch(p) ==
    /\ Goto(p, "fetch", "reply")
    /\ Ask(p, Wanted(p))
    /\ UNCHANGED localVars

\* Lines 446, 471: with the stream still locked, look again; without an answer
\* the record is given up.
FetchAnswered(p) ==
    \/ /\ Goto(p, "reply", "recheck")
       /\ Receive(p)
       /\ got' = [got EXCEPT ![p] = IF IsCode(Oldest(p)) THEN "command"
                                                         ELSE Oldest(p).to]
       /\ UNCHANGED <<sharedVars, aim, batch, table>>
    \/ /\ pc[p] = "reply"
       /\ ReceiveNone(p)
       /\ Release(p)
       /\ NextRecord(p)
       /\ UNCHANGED <<registry, poisoned, dbPoisoned, aim, got, table>>

\* Lines 449-472: somebody else has inserted the file, or it is a No, or it is
\* going to be saved; the stream is unlocked.
Recheck(p) ==
    /\ pc[p] = "recheck"
    /\ ~dbPoisoned
    /\ Release(p)
    /\ IF Recorded(Wanted(p)) \/ got[p] = "command"
       THEN NextRecord(p)
       ELSE Goto(p, "recheck", "insert") /\ UNCHANGED batch
    /\ UNCHANGED <<registry, poisoned, dbPoisoned, agentVars, aim, got, table>>

\* Mutant of InsertFile: the agent's id is saved in place of the answer.
InsertSender(p) ==
    /\ pc[p] = "insert"
    /\ ~dbPoisoned
    /\ table' = [table EXCEPT ![Wanted(p)] = Append(@, aim[p])]
    /\ NextRecord(p)
    /\ UNCHANGED <<sharedVars, agentVars, aim, got>>

\* Lines 476-492: the bytes are saved and the row is inserted.
InsertFile(p) ==
    /\ pc[p] = "insert"
    /\ ~dbPoisoned
    /\ table' = [table EXCEPT ![Wanted(p)] = Append(@, got[p])]
    /\ NextRecord(p)
    /\ UNCHANGED <<sharedVars, agentVars, aim, got>>

-----------------------------------------------------------------------------
(* GUI_Parsing_data, Send_Command_Process                                  *)

\* Line 264: the agent's stream from the registry; an agent that is not
\* connected is reported as No (line 307) and changes nothing.
FindAgent(g) ==
    /\ \E s \in registry : aim' = [aim EXCEPT ![g] = s]
    /\ Goto(g, "idle", "command")
    /\ UNCHANGED <<sharedVars, agentVars, batch, got, table>>

\* Line 285
Command(g) ==
    /\ Goto(g, "command", "result")
    /\ Ask(g, "command")
    /\ UNCHANGED localVars

\* Lines 286-288, 298-302: any answer at all counts as Yes, none as No.
CommandAnswered(g) ==
    \/ /\ Goto(g, "result", "log")
       /\ Receive(g)
       /\ UNCHANGED <<sharedVars, localVars, table>>
    \/ /\ Goto(g, "result", "idle")
       /\ ReceiveNone(g)
       /\ Release(g)
       /\ UNCHANGED <<registry, poisoned, dbPoisoned, localVars, table>>

\* Lines 290-296: with the stream still locked, the command goes to the log.
LogCommand(g) ==
    /\ Goto(g, "log", "idle")
    /\ ~dbPoisoned
    /\ Release(g)
    /\ UNCHANGED <<registry, poisoned, dbPoisoned, agentVars, localVars, table>>

-----------------------------------------------------------------------------
\* The agent stops answering: it is shut down, or stuck.
AgentStops(s) ==
    /\ s \in up
    /\ up' = up \ {s}
    /\ UNCHANGED <<pc, sharedVars, pending, disturbed, localVars, table>>

SessionStep(s) ==
    \/ Join(s) \/ Enlist(s) \/ Poll(s) \/ PollAnswered(s) \/ PollUnanswered(s)
    \/ DbPanics(s) \/ StreamPanics(s)

ParserStep(p) ==
    \/ InsertRow(p) \/ LookUp(p) \/ Fetch(p) \/ FetchAnswered(p) \/ Recheck(p)
    \/ InsertFile(p) \/ DbPanics(p) \/ StreamPanics(p) \/ SavePanics(p)

GuiStep(g) ==
    \/ Command(g) \/ CommandAnswered(g) \/ LogCommand(g)
    \/ DbPanics(g) \/ StreamPanics(g)

Next ==
    \/ \E s \in Session : Handshake(s) \/ AgentStops(s) \/ SessionStep(s)
    \/ \E p \in Parser : ParserStep(p)
    \/ \E g \in Gui : FindAgent(g) \/ GuiStep(g)

Spec == Init /\ [][Next]_vars

\* Every thread that can run runs; a std::sync::Mutex promises its waiters no
\* more than that, so their fairness is weak.
FairSpec ==
    /\ Spec
    /\ \A s \in Session : WF_vars(SessionStep(s))
    /\ \A p \in Parser : WF_vars(ParserStep(p))
    /\ \A g \in Gui : WF_vars(GuiStep(g))

-----------------------------------------------------------------------------
(* Properties                                                              *)

\* What the holder of stream s has asked for.
Asked(t) == IF t \in Session THEN "poll" ELSE IF t \in Parser THEN Wanted(t) ELSE "command"

\* The threads that have asked and not read yet.
Waiting == {t \in Thread : pc[t] \in {"answer", "reply", "result"}}

\* Requests and answers stay paired on a stream that any number of threads
\* use, as long as no answer came too late and no command was answered twice:
\* a thread that reads an answer reads the one to its own request.
AnswersMatch ==
    \A t \in Waiting :
        /\ lock[Stream(t)] = t
        /\ Stream(t) \notin disturbed /\ pending[Stream(t)] # <<>>
             => Oldest(t).to = Asked(t)

\* What is saved under a SHA256 is the agent's answer to the request for that
\* file, unless some request before had timed out or a command had been answered
\* twice.  Whether the file still has that SHA256 is looked at by nobody.
SavedFileIsTheFile ==
    disturbed = {} => \A f \in File : \A i \in DOMAIN table[f] : table[f][i] = f

\* A session that dies leaves its agent in the registry (only lines 147-153 take
\* it out).  It dies on the database, or on a stream that a thread which died on
\* the database has poisoned; so no server is left that works for the others:
\* from then on no statement succeeds, every thread that comes to one dies there.
LostSessionStopsTheServer ==
    [][(\E s \in registry : pc[s] = "dead") =>
          \A t \in Thread :
             pc[t] \in AtDb /\ pc'[t] # pc[t] =>
                 /\ pc'[t] = IF t \in Parser THEN "idle" ELSE "dead"
                 /\ UNCHANGED batch]_vars

\* The file table has one row per SHA256.
OneRowPerFile == \A f \in File : Len(table[f]) <= 1

\* A stream is poisoned only in the wake of the database: no other panic can
\* happen while a stream is locked.
PoisonComesFromDb == poisoned # {} => dbPoisoned

\* A parser or GUI thread that dies with the stream takes the session with it:
\* the agent is not polled on half an answer.
PoisonEndsSession ==
    \A s \in Session : s \in poisoned ~> pc[s] \in {"ended", "dead"}

\* A session leaves the registry when its agent has stopped answering, whoever
\* holds its stream by then, unless a failed statement stops the threads first
\* or the GUIs go on sending commands for ever (a Mutex promises no turns).
SilentAgentLeaves ==
    <>[](\A g \in Gui : pc[g] = "idle") =>
        \A s \in Session : s \in registry /\ s \notin up ~> s \notin registry \/ dbPoisoned
=============================================================================
