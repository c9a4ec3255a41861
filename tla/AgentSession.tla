---------------------------- MODULE AgentSession ----------------------------
(***************************************************************************)
(* The TCP session of the kernel agent: the thread TCP_conn, which         *)
(* connects, exchanges the ids and starts communication_server, and        *)
(* communication_server itself, which reads a command, answers it and      *)
(* reads the next.  One KMUTEX (TCP_session) covers a command from its     *)
(* first byte to its answer: it is taken inside RECEIVE_TCP_DATA__with_    *)
(* alloc and released at the end of the loop's body.                       *)
(*                                                                         *)
(* The answers travel through FramedStream, which this module extends.     *)
(* The other direction is a queue of commands: the agent reads with        *)
(* WskReceive, twice per command, and does not look at the number of       *)
(* bytes it got; what follows a read that did not get everything is        *)
(* arbitrary (skew).  The server is a thread of CenterServer: a command,   *)
(* then one Receiving_from_Agent.  TCP_Disconnected_conn has no caller, so *)
(* it is no action.  The exchange of ids is UserIoctl's; here it succeeds  *)
(* or fails.                                                               *)
(***************************************************************************)
EXTENDS FramedStream

CONSTANTS
    Data,         \* sizes of collected records and of executables
    Sent,         \* the commands the server sends
    MaxAsks,      \* bound: how many of them while nothing is out of step
    MaxAdrift,    \* bound: how many of them otherwise
    MaxFrames,    \* bound: frames up to which an arbitrary command is answered
    MaxDepth      \* bound: how often the loop has entered TCP_session

Command == {"GET_file_bin", "Are_you_ALIVE", "GET_collected_data",
            "GET_action_process_creation", "Signature_Management"}

ASSUME AgentSessionAssumption ==
    /\ Piece \subseteq Nat /\ Junk \subseteq Nat
    /\ Data \subseteq {n \in Nat : n > 4}
    /\ Sent \subseteq Command
    /\ MaxAsks \in Nat /\ MaxAdrift \in 0..MaxAsks
    /\ MaxFrames \in Nat /\ MaxDepth \in Nat

VARIABLES
    asks,       \* commands the server has sent
    reply,      \* history: reply[j] is the command that frame j answers, 0 for none
    doubles,    \* history: accepted rules of the server, which are answered twice
    down,       \* the commands the agent has not read: <<command, number>>
    skew,       \* the agent's reads do not match the commands' bytes any more
    link,       \* the connection: none yet, up, closed by the server, or reset
    socket,     \* COMMAND_NewSocket
    tcp,        \* where TCP_conn is
    connected,  \* is_connected_2_SERVER
    depth,      \* how often communication_server has acquired TCP_session
    comm,       \* where communication_server is
    cmd,        \* the command it works on
    out,        \* the answers it has still to send: <<size, what to send if that fails>>
    greeted,    \* history: the ids have been exchanged
    fault       \* the machine has stopped

linkVars  == <<asks, down, link>>
connVars  == <<socket, tcp, connected, greeted>>
commVars  == <<comm, cmd, out, depth, skew, reply, doubles>>
vars      == <<streamVars, linkVars, connVars, commVars, fault>>

TypeOK ==
    /\ StreamTypeOK
    /\ asks \in Nat
    /\ reply \in Seq(Nat) /\ Len(reply) = Len(size)
    /\ doubles \in Nat
    /\ down \in Seq(Command \X Nat)
    /\ skew \in BOOLEAN
    /\ link \in {"none", "up", "closed", "reset"}
    /\ socket \in {"null", "live", "unbound", "freed"}
    /\ tcp \in {"connect", "greet", "announce", "spawn", "wait", "gone"}
    /\ connected \in BOOLEAN
    /\ depth \in Nat
    /\ comm \in {"off", "top", "size", "data", "work", "answer"}
    /\ cmd \in (Command \cup {"other"}) \X Nat
    /\ out \in Seq(Nat \X Nat)
    /\ greeted \in BOOLEAN /\ fault \in BOOLEAN

Init ==
    /\ StreamInit
    /\ asks = 0 /\ down = <<>> /\ link = "none"
    /\ socket = "null" /\ tcp = "connect" /\ connected = FALSE /\ greeted = FALSE
    /\ comm = "off" /\ cmd = <<"other", 0>> /\ out = <<>> /\ depth = 0 /\ skew = FALSE
    /\ reply = <<>> /\ doubles = 0
    /\ fault = FALSE

-----------------------------------------------------------------------------
(* TCP_conn                                                                *)

\* Make_TCP_Connection succeeds.
ConnectOK ==
    /\ ~fault /\ tcp = "connect"
    /\ socket' = "live" /\ link' = "up"
    /\ tcp' = "greet"
    /\ UNCHANGED <<streamVars, asks, down, connected, greeted, commVars, fault>>

\* It fails with no socket left (or with a socket it has freed and forgotten):
\* lines 31-34 wait a second and try again.
ConnectRetries ==
    /\ ~fault /\ tcp = "connect"
    /\ socket' = "null"
    /\ UNCHANGED <<streamVars, linkVars, tcp, connected, greeted, commVars, fault>>

\* It fails and leaves the pointer set: to a socket that is not bound (line
\* 238), or to one it has freed (lines 143-144).  TCP_conn goes on as connected.
ConnectLeftOver ==
    /\ ~fault /\ tcp = "connect"
    /\ socket' \in {"unbound", "freed"}
    /\ tcp' = "announce"
    /\ UNCHANGED <<streamVars, linkVars, connected, greeted, commVars, fault>>

\* WskSocket fails (only its success is looked at, line 183) or there is no pool
\* for the address (265): a pointer that is not there is used next.
ConnectStops ==
    /\ ~fault /\ tcp = "connect"
    /\ fault' = TRUE
    /\ UNCHANGED <<streamVars, linkVars, connVars, commVars>>

\* Lines 43-45: GET_AGENT_ID, under TCP_session for each of its three messages.
\* If it fails the thread ends.
Greet ==
    /\ ~fault /\ tcp = "greet"
    /\ \/ link = "up" /\ tcp' = "announce" /\ greeted' = TRUE
       \/ tcp' = "gone" /\ UNCHANGED greeted
    /\ UNCHANGED <<streamVars, linkVars, socket, connected, commVars, fault>>

Announce ==
    /\ ~fault /\ tcp = "announce"
    /\ connected' = TRUE
    /\ tcp' = "spawn"
    /\ UNCHANGED <<streamVars, linkVars, socket, greeted, commVars, fault>>

\* Mutant of Spawn: the event is not waited for.
SpawnLoops ==
    /\ ~fault /\ tcp = "spawn"
    /\ comm' = IF comm = "off" THEN "top" ELSE comm
    /\ tcp' = "connect"
    /\ UNCHANGED <<streamVars, linkVars, socket, connected, greeted, cmd, out, depth, skew, reply, doubles, fault>>

\* Lines 52-58: the status of PsCreateSystemThread is not looked at.  The wait
\* has no end: only TCP_Disconnected_conn sets the event.
Spawn ==
    /\ ~fault /\ tcp = "spawn"
    /\ comm' \in {"top", "off"}
    /\ tcp' = "wait"
    /\ UNCHANGED <<streamVars, linkVars, socket, connected, greeted, cmd, out, depth, skew, reply, doubles, fault>>

-----------------------------------------------------------------------------
(* RECEIVE_TCP_DATA__with_alloc(..., SERVER_DATA_PROCESS)                  *)

\* Line 33: nobody but communication_server uses TCP_session by now.
Enter ==
    /\ ~fault
    /\ comm = "top" /\ connected
    /\ depth < MaxDepth
    /\ depth' = depth + 1
    /\ comm' = "size"
    /\ UNCHANGED <<streamVars, linkVars, connVars, cmd, out, skew, reply, doubles, fault>>

\* Send_TO_TCP_Server through the pointer to a freed socket.
UseFreedSocket ==
    /\ ~fault
    /\ comm \in {"size", "data"} /\ socket = "freed"
    /\ fault' = TRUE
    /\ UNCHANGED <<streamVars, linkVars, connVars, commVars>>

\* Lines 38-40 and 66-68: the receive fails, and communication_server goes back
\* to the top (lines 31-38) with TCP_session still held.
ReceiveFails ==
    /\ ~fault
    /\ comm \in {"size", "data"} /\ socket # "freed"
    /\ link \in {"none", "reset"}
    /\ comm' = "top"
    /\ UNCHANGED <<streamVars, linkVars, connVars, cmd, out, depth, skew, reply, doubles, fault>>

\* The receive succeeds, if only with nothing because the server has closed.
Readable == socket = "live" /\ link \in {"up", "closed"}

\* Mutant of ReceiveEmpty: its caller releases as well.
ReceiveEmptyTwice ==
    /\ ~fault
    /\ comm = "size"
    /\ skew \/ (link = "closed" /\ down = <<>>)
    /\ depth' = depth - 2
    /\ comm' = "top"
    /\ UNCHANGED <<streamVars, linkVars, connVars, cmd, out, skew, reply, doubles, fault>>

\* Lines 43-48: a length of 0, which no command has, or a connection that the
\* server has closed: the receive succeeds with nothing.  This path does release.
ReceiveEmpty ==
    /\ ~fault
    /\ comm = "size"
    /\ skew \/ (link = "closed" /\ down = <<>>)
    /\ depth' = depth - 1
    /\ comm' = "top"
    /\ UNCHANGED <<streamVars, linkVars, connVars, cmd, out, skew, reply, doubles, fault>>

\* Lines 57-61: there is no pool.  The bytes of the command stay in the stream.
AllocationFails ==
    /\ ~fault
    /\ comm = "size" /\ Readable
    /\ down # <<>> \/ skew
    /\ skew' = TRUE
    /\ comm' = "top"
    /\ UNCHANGED <<streamVars, linkVars, connVars, cmd, out, depth, reply, doubles, fault>>

\* Lines 38 and 56: the length is there, or part of it.
ReceiveSize ==
    /\ ~fault
    /\ comm = "size" /\ Readable
    /\ down # <<>> \/ skew
    /\ skew' \in {skew, TRUE}
    /\ comm' = "data"
    /\ UNCHANGED <<streamVars, linkVars, connVars, cmd, out, depth, reply, doubles, fault>>

\* Line 66: the command is there, or part of it, or nothing of it on a closed
\* connection: what is missing is whatever the pool held (memcpy, line 47).
ReceiveData ==
    /\ ~fault
    /\ comm = "data" /\ Readable
    /\ \/ /\ ~skew
          /\ cmd' = Head(down)
          /\ down' = Tail(down)
          /\ UNCHANGED skew
       \/ /\ cmd' \in (Sent \cup {"other"}) \X {0}
          /\ skew' = TRUE
          /\ UNCHANGED down
    /\ comm' = "work"
    /\ UNCHANGED <<streamVars, asks, link, connVars, out, depth, reply, doubles, fault>>

-----------------------------------------------------------------------------
(* communication_server                                                    *)

Flag == <<4, 0>>   \* Yes or No

\* Mutants of Answers: data is followed by No whether it was sent or not; a poll
\* that finds nothing is not answered.
AnswersAndNo(c) == {<<<<n, 0>>, Flag>> : n \in Data}

AnswersDataOnly(c) == IF c = "GET_collected_data" THEN {<<>>} ELSE {<<Flag>>}

\* FILE_bin_process: the executable, which cannot be answered with No any more
\* once it has a buffer, even if reading or sending it fails.
FileAnswers == {<<Flag>>} \cup {<<<<n, 0>>>> : n \in Data}

\* Are_You_ALIVE_process: Yes to the agent's own AGENT_ID, No to another.
AliveAnswers == {<<Flag>>}

\* Send_or_Save: nothing to send, or the records, followed by No if that fails.
CollectedAnswers == {<<Flag>>} \cup {<<<<n, 4>>>> : n \in Data}

\* What the commands send; an accepted rule is answered by its handler, too.
Answers(c) ==
    CASE c = "GET_file_bin" -> FileAnswers
      [] c = "Are_you_ALIVE" -> AliveAnswers
      [] c = "GET_collected_data" -> CollectedAnswers
      [] c = "GET_action_process_creation" -> {<<Flag>>, <<Flag, Flag>>}
      [] c = "Signature_Management" -> {<<Flag>>}
      [] OTHER -> {<<>>}

\* Lines 46-131, but for the sends.
Work ==
    /\ ~fault
    /\ comm = "work"
    /\ out' \in Answers(cmd[1])
    /\ cmd[2] = 0 => Len(size) + Len(out') <= MaxFrames
    /\ doubles' = IF cmd[1] = "GET_action_process_creation" /\ cmd[2] > 0 /\ Len(out') = 2
                THEN doubles + 1
                ELSE doubles
    /\ comm' = "answer"
    /\ UNCHANGED <<streamVars, linkVars, connVars, cmd, depth, skew, reply, fault>>

\* SEND_TCP_DATA, [1/2].  Under TCP_DATA_SEND (FILE_bin_process) it enters and
\* leaves TCP_session once more, which its owner may.
SendLength ==
    /\ ~fault
    /\ comm = "answer" /\ out # <<>> /\ ~half
    /\ link = "up"
    /\ WriteLength(Head(out)[1])
    /\ reply' = Append(reply, cmd[2])
    /\ UNCHANGED <<linkVars, connVars, comm, cmd, out, depth, skew, doubles, fault>>

SendData ==
    /\ ~fault
    /\ comm = "answer" /\ out # <<>>
    /\ link = "up"
    /\ WriteData
    /\ out' = Tail(out)
    /\ UNCHANGED <<linkVars, connVars, comm, cmd, depth, skew, reply, doubles, fault>>

\* Either part fails, or reaches nobody.  The result is ignored, except that of
\* collected data.
SendFails ==
    /\ ~fault
    /\ comm = "answer" /\ out # <<>>
    /\ link # "up"
    /\ IF half THEN WriteFails ELSE UNCHANGED streamVars
    /\ \/ out' = IF Head(out)[2] = 0 THEN Tail(out) ELSE <<Flag>> \o Tail(out)
       \/ link = "closed" /\ out' = Tail(out)
    /\ UNCHANGED <<linkVars, connVars, comm, cmd, depth, skew, reply, doubles, fault>>

\* Mutant of Release: a poll goes on to the next command before line 136.
ReleaseNotPolled ==
    /\ ~fault
    /\ comm = "answer" /\ out = <<>>
    /\ depth' = IF cmd[1] = "GET_collected_data" THEN depth ELSE depth - 1
    /\ comm' = "top"
    /\ UNCHANGED <<streamVars, linkVars, connVars, cmd, out, skew, reply, doubles, fault>>

\* Lines 135-138
Release ==
    /\ ~fault
    /\ comm = "answer" /\ out = <<>>
    /\ depth' = depth - 1
    /\ comm' = "top"
    /\ UNCHANGED <<streamVars, linkVars, connVars, cmd, out, skew, reply, doubles, fault>>

-----------------------------------------------------------------------------
(* The server, and the network                                             *)

MayAsk == asks < IF outOfStep \/ skew THEN MaxAdrift ELSE MaxAsks

\* SEND_DATA_with_SERVER_COMMAND, and on to Receiving_from_Agent.
Ask(c) ==
    /\ link = "up" /\ greeted
    /\ MayAsk
    /\ Call
    /\ asks' = asks + 1
    /\ down' = Append(down, <<c, asks'>>)
    /\ UNCHANGED <<link, connVars, commVars, fault>>

\* SEND_DATA fails in the middle of a command, which is None at once.
AskFails ==
    /\ link = "up" /\ greeted
    /\ MayAsk
    /\ CallRefused
    /\ asks' = asks + 1
    /\ skew' = TRUE
    /\ UNCHANGED <<down, link, connVars, comm, cmd, out, depth, reply, doubles, fault>>

ServerReads ==
    /\ Read
    /\ UNCHANGED <<linkVars, connVars, commVars, fault>>

LinkBreaks ==
    /\ link = "up"
    /\ link' \in {"closed", "reset"}
    /\ UNCHANGED <<streamVars, asks, down, connVars, commVars, fault>>

-----------------------------------------------------------------------------
TcpConn == ConnectOK \/ ConnectRetries \/ ConnectLeftOver \/ ConnectStops \/ Greet \/ Announce \/ Spawn

CommunicationServer ==
    \/ Enter \/ UseFreedSocket \/ ReceiveFails \/ ReceiveEmpty \/ AllocationFails
    \/ ReceiveSize \/ ReceiveData \/ Work \/ SendLength \/ SendData \/ SendFails \/ Release

Next == TcpConn \/ CommunicationServer \/ (\E c \in Sent : Ask(c)) \/ AskFails \/ ServerReads \/ LinkBreaks

Spec == Init /\ [][Next]_vars

\* The kernel runs both threads, and a read of the server returns within its
\* time-out.  Nothing else has to happen.
FairSpec == Spec /\ WF_vars(TcpConn) /\ WF_vars(CommunicationServer) /\ WF_vars(ServerReads)

-----------------------------------------------------------------------------
(* Properties                                                              *)

\* As long as both directions are in step, the server's j-th call returns an
\* answer to one of its first j commands, and each accepted action rule before
\* (answered Yes by processing_action_with_server_Action_Process_Node and again
\* by communication_server) sets the answers back by one, never by more.
StaleOnlyAfterDoubledYes ==
    ~outOfStep /\ ~skew =>
        \A j \in 1..Len(got) : reply[j] \in 1..j /\ j - reply[j] <= doubles

\* communication_server comes back to the top of its loop with TCP_session held
\* only when the connection is lost or unusable or the commands' bytes are out of
\* step: no kind of command and no failing send leaves it held.
HeldOnlyWhenBroken ==
    comm = "top" /\ depth > 0 => link \in {"none", "reset"} \/ skew \/ socket # "live"

\* A thread that has not acquired TCP_session never releases it, and a command
\* is worked on and answered under it.
WorksUnderTheSession == comm \notin {"off", "top"} => depth > 0

\* The lazy creation of TCP_session is not protected; that is sound because
\* TCP_conn is through with the session before the other thread starts, and
\* never comes back to it.  The loop only runs on a session whose ids have been
\* exchanged, unless Make_TCP_Connection has left a socket behind.
OneThreadAtATime ==
    comm # "off" => /\ tcp \notin {"connect", "greet"}
                    /\ greeted \/ socket # "live"

\* While nothing is broken, a command that has been sent is read and answered,
\* also if the server has given up waiting for the answer.
Broken == link # "up" \/ skew \/ fault \/ (tcp = "wait" /\ comm = "off")

AllAnswered == \A n \in 1..asks : \E j \in 1..Len(reply) : reply[j] = n

EveryCommandAnswered == []<>(AllAnswered \/ Broken)
=============================================================================
