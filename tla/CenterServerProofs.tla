-------------------------- MODULE CenterServerProofs --------------------------
(***************************************************************************)
(* Theorems about CenterServer, for any number of agents, parsers, GUI     *)
(* threads and files, and whatever the agents send.                        *)
(*                                                                         *)
(* The heart of it is that a stream is locked exactly while its holder is  *)
(* at a label between the lock and its release, so that the only answer on *)
(* an undisturbed stream is the one to the holder's request.               *)
(***************************************************************************)
EXTENDS CenterServer, SequenceTheorems, TLAPS

SessionLabels == {"connect", "join", "enlist", "poll", "answer", "ended", "dead"}
ParserLabels  == {"idle", "row", "look", "fetch", "reply", "recheck", "insert"}
GuiLabels     == {"idle", "command", "result", "log", "dead"}

\* The labels between a lock of a stream and its release.
Held == {"answer", "reply", "recheck", "result", "log"}

\* The labels between a request and the receipt of its answer.
Asking == {"answer", "reply", "result"}

LabelInv ==
    /\ \A s \in Session : pc[s] \in SessionLabels
    /\ \A p \in Parser : pc[p] \in ParserLabels
    /\ \A g \in Gui : pc[g] \in GuiLabels

\* A thread is at such a label if and only if it holds its stream.
HolderInv ==
    /\ \A t \in Thread : pc[t] \in Held => lock[Stream(t)] = t
    /\ \A s \in Session : lock[s] # NoThread =>
         \E t \in Thread : lock[s] = t /\ Stream(t) = s /\ pc[t] \in Held

\* A parser that works has a record to work on, and so will the next one.
BatchInv ==
    /\ \A p \in Parser : pc[p] # "idle" => batch[p] # <<>>
    /\ \A s \in Session : \A i \in DOMAIN pending[s] :
         pending[s][i].to = "poll" /\ pending[s][i].good => pending[s][i].records # <<>>

\* On an undisturbed stream there is at most one answer, and its holder waits
\* for it.
PairInv ==
    \A s \in Session \ disturbed : pending[s] # <<>> =>
        /\ Len(pending[s]) = 1
        /\ \E t \in Thread : /\ pc[t] \in Asking /\ Stream(t) = s
                             /\ Head(pending[s]).to = Asked(t)

\* What a parser is going to save is what it has asked for.
GotInv ==
    \A p \in Parser :
        /\ pc[p] \in {"recheck", "insert"} /\ aim[p] \notin disturbed
             => got[p] \in {Wanted(p), "command"}
        /\ pc[p] = "insert" => got[p] # "command"

\* Streams are poisoned by threads that died on the database.
PoisonInv ==
    /\ PoisonComesFromDb
    /\ dbPoisoned => DbFails

CenterInv == TypeOK /\ LabelInv /\ HolderInv /\ BatchInv /\ PairInv /\ GotInv /\ PoisonInv

-----------------------------------------------------------------------------
(* The parts of a step                                                     *)

LEMMA TailOfOne ==
  ASSUME NEW S, NEW q \in Seq(S), Len(q) = 1
  PROVE  Tail(q) = <<>>
<1>1. q # <<>>
  BY EmptySeq
<1>2. Tail(q) \in Seq(S) /\ Len(Tail(q)) = 0
  BY <1>1, HeadTailProperties
<1> QED
  BY <1>2, EmptySeq

LEMMA MoreThanOne ==
  ASSUME NEW S, NEW q \in Seq(S), q # <<>>, Len(q) # 1
  PROVE  Tail(q) # <<>>
<1>1. Len(Tail(q)) = Len(q) - 1 /\ Len(q) \in Nat
  BY HeadTailProperties
<1>2. Len(Tail(q)) # 0
  BY <1>1
<1>3. Len(<<>>) = 0
  OBVIOUS
<1> QED
  BY <1>2, <1>3

LEMMA StreamIsASession ==
  ASSUME TypeOK, NEW t \in Thread
  PROVE  Stream(t) \in Session
  BY DEF TypeOK, Stream, Thread

\* What an agent may send for a request.
LEMMA AnswersShape ==
  ASSUME CenterServerAssumption, NEW r \in Request, NEW a \in AnswersTo(r)
  PROVE  /\ a \in Seq(Answer)
         /\ Len(a) \in {1, 2}
         /\ \A i \in DOMAIN a : a[i].to = r
         /\ r = "poll" => \A i \in DOMAIN a : a[i].good => a[i].records # <<>>
<1>0. ASSUME NEW g \in BOOLEAN, NEW b \in Seq(File)
      PROVE  /\ ans(r, g, b) \in Answer
             /\ ans(r, g, b).to = r /\ ans(r, g, b).good = g /\ ans(r, g, b).records = b
  BY DEF ans, Answer
<1>1. CASE \E b \in Batch : r = "poll" /\ a = <<ans(r, TRUE, b)>>
  <2>1. PICK b \in Batch : r = "poll" /\ a = <<ans(r, TRUE, b)>>
    BY <1>1
  <2>2. b \in Seq(File) /\ b # <<>>
    BY DEF CenterServerAssumption
  <2>3. PICK x \in Answer : a = <<x>> /\ x.to = r /\ x.records # <<>>
    BY <1>0, <2>1, <2>2
  <2> QED
    BY <2>3
<1>2. CASE a = <<ans(r, FALSE, <<>>)>>
  <2>0. <<>> \in Seq(File) /\ FALSE \in BOOLEAN
    OBVIOUS
  <2>1. PICK x \in Answer : a = <<x>> /\ x.to = r /\ ~x.good
    BY <1>0, <1>2, <2>0
  <2> QED
    BY <2>1
<1>3. CASE r # "poll" /\ (a = <<ans(r, TRUE, <<>>)>> \/ a = <<ans(r, TRUE, <<>>), ans(r, TRUE, <<>>)>>)
  <2>0. <<>> \in Seq(File) /\ TRUE \in BOOLEAN
    OBVIOUS
  <2>1. PICK x \in Answer : (a = <<x>> \/ a = <<x, x>>) /\ x.to = r
    BY <1>0, <1>3, <2>0
  <2>2. r # "poll"
    BY <1>3
  <2>3. CASE a = <<x>>
    BY <2>1, <2>2, <2>3
  <2>4. CASE a = <<x, x>>
    BY <2>1, <2>2, <2>4
  <2> QED
    BY <2>1, <2>3, <2>4
<1> QED
  BY <1>1, <1>2, <1>3 DEF AnswersTo

\* A request locks the stream and adds at most its own answers to it.
LEMMA AskShape ==
  ASSUME CenterServerAssumption, TypeOK, NEW t \in Thread, NEW r \in Request, Ask(t, r)
  PROVE  /\ lock[Stream(t)] = NoThread
         /\ lock' = [lock EXCEPT ![Stream(t)] = t]
         /\ UNCHANGED <<registry, poisoned, dbPoisoned, up, table>>
         /\ disturbed \subseteq disturbed' /\ disturbed' \subseteq Session
         /\ \/ UNCHANGED <<pending, disturbed>>
            \/ \E a \in Seq(Answer) :
                 /\ pending' = [pending EXCEPT ![Stream(t)] = @ \o a]
                 /\ \A i \in DOMAIN a : a[i].to = r
                 /\ r = "poll" => \A i \in DOMAIN a : a[i].good => a[i].records # <<>>
                 /\ Stream(t) \notin disturbed' => Len(a) = 1
<1>1. Stream(t) \in Session
  BY StreamIsASession
<1>2. /\ lock[Stream(t)] = NoThread
      /\ lock' = [lock EXCEPT ![Stream(t)] = t]
      /\ UNCHANGED <<registry, poisoned, dbPoisoned, up, table>>
  BY DEF Ask
<1>3. CASE UNCHANGED <<pending, disturbed>>
  BY <1>2, <1>3 DEF TypeOK
<1>4. ASSUME NEW a \in AnswersTo(r),
             pending' = [pending EXCEPT ![Stream(t)] = @ \o a],
             disturbed' = IF Len(a) > 1 THEN disturbed \cup {Stream(t)} ELSE disturbed
      PROVE  /\ disturbed \subseteq disturbed' /\ disturbed' \subseteq Session
             /\ a \in Seq(Answer)
             /\ \A i \in DOMAIN a : a[i].to = r
             /\ r = "poll" => \A i \in DOMAIN a : a[i].good => a[i].records # <<>>
             /\ Stream(t) \notin disturbed' => Len(a) = 1
  <2>1. Len(a) \in {1, 2}
    BY AnswersShape
  <2>2. disturbed \subseteq disturbed' /\ disturbed' \subseteq Session
    BY <1>1, <1>4 DEF TypeOK
  <2>3. Stream(t) \notin disturbed' => Len(a) = 1
    BY <1>4, <2>1
  <2> QED
    BY <2>2, <2>3, AnswersShape
<1>5. \/ UNCHANGED <<pending, disturbed>>
      \/ \E a \in AnswersTo(r) :
           /\ pending' = [pending EXCEPT ![Stream(t)] = @ \o a]
           /\ disturbed' = IF Len(a) > 1 THEN disturbed \cup {Stream(t)} ELSE disturbed
  BY DEF Ask
<1> QED
  BY <1>2, <1>3, <1>4, <1>5

\* Receiving takes the oldest answer off the stream.
LEMMA ReceiveShape ==
  ASSUME TypeOK, NEW t \in Thread, Receive(t)
  PROVE  /\ pending[Stream(t)] # <<>>
         /\ Oldest(t) \in Answer
         /\ Oldest(t) = pending[Stream(t)][1]
         /\ pending' = [pending EXCEPT ![Stream(t)] = Tail(@)]
         /\ pending' \in [Session -> Seq(Answer)]
         /\ UNCHANGED <<up, disturbed>>
<1>1. Stream(t) \in Session /\ pending[Stream(t)] \in Seq(Answer)
  BY StreamIsASession DEF TypeOK
<1>2. pending[Stream(t)] # <<>> /\ pending' = [pending EXCEPT ![Stream(t)] = Tail(@)]
      /\ UNCHANGED <<up, disturbed>>
  BY DEF Receive
<1>3. Head(pending[Stream(t)]) \in Answer /\ Tail(pending[Stream(t)]) \in Seq(Answer)
      /\ Head(pending[Stream(t)]) = pending[Stream(t)][1]
  BY <1>1, <1>2, HeadTailProperties
<1> QED
  BY <1>1, <1>2, <1>3 DEF Oldest, TypeOK

-----------------------------------------------------------------------------
(* Types                                                                   *)

LEMMA TypeInit == Init => TypeOK /\ LabelInv
<1> SUFFICES ASSUME Init PROVE TypeOK /\ LabelInv
  OBVIOUS
<1>2. pc \in [Thread -> Labels] /\ LabelInv
  BY CenterServerAssumption
  DEF Init, Thread, Labels, LabelInv, SessionLabels, ParserLabels, GuiLabels,
      CenterServerAssumption
<1>3. aim \in [Parser \cup Gui -> Session]
  BY DEF Init
<1>4. lock \in [Session -> Thread \cup {NoThread}] /\ pending \in [Session -> Seq(Answer)]
      /\ batch \in [Parser -> Seq(File)] /\ got \in [Parser -> Request]
      /\ table \in [File -> Seq(Request)]
  <2>1. <<>> \in Seq(Answer) /\ <<>> \in Seq(File) /\ <<>> \in Seq(Request)
        /\ "poll" \in Request
    BY DEF Request
  <2> HIDE DEF Answer, Request
  <2> QED
    BY <2>1 DEF Init
<1>5. registry \subseteq Session /\ poisoned \subseteq Session /\ dbPoisoned \in BOOLEAN
      /\ up \subseteq Session /\ disturbed \subseteq Session
  BY DEF Init
<1> QED
  BY <1>2, <1>3, <1>4, <1>5 DEF TypeOK

\* A thread moves to a label of its own.
LEMMA GotoLabels ==
  ASSUME CenterServerAssumption, TypeOK, LabelInv, NEW t \in Thread,
         NEW l \in Labels, pc' = [pc EXCEPT ![t] = l],
         t \in Session => l \in SessionLabels,
         t \in Parser => l \in ParserLabels,
         t \in Gui => l \in GuiLabels
  PROVE  pc' \in [Thread -> Labels] /\ LabelInv'
  BY DEF TypeOK, LabelInv, Thread

\* The database, a stream or a file has stopped a thread.
LEMMA PanicShape ==
  ASSUME CenterServerAssumption, TypeOK, LabelInv, NEW t \in Thread, Panic(t)
  PROVE  /\ pc' \in [Thread -> Labels] /\ LabelInv'
         /\ lock' \in [Session -> Thread \cup {NoThread}]
         /\ poisoned' \subseteq Session
         /\ UNCHANGED <<registry, agentVars, localVars, table>>
<1>1. /\ pc' = [pc EXCEPT ![t] = IF t \in Parser THEN "idle" ELSE "dead"]
      /\ lock' = [s \in Session |-> IF lock[s] = t THEN NoThread ELSE lock[s]]
      /\ poisoned' = poisoned \cup {s \in Session : lock[s] = t}
      /\ UNCHANGED <<registry, agentVars, localVars, table>>
  BY DEF Panic
<1>2. lock' \in [Session -> Thread \cup {NoThread}] /\ poisoned' \subseteq Session
  BY <1>1 DEF TypeOK
<1>3. pc' \in [Thread -> Labels] /\ LabelInv'
  BY <1>1, GotoLabels
  DEF Labels, SessionLabels, ParserLabels, GuiLabels, CenterServerAssumption
<1> QED
  BY <1>1, <1>2, <1>3

LEMMA TypeStep ==
  ASSUME CenterServerAssumption, TypeOK, LabelInv, BatchInv, [Next]_vars
  PROVE  TypeOK' /\ LabelInv'
<1> USE CenterServerAssumption DEF sharedVars, agentVars, localVars, SessionLabels,
        ParserLabels, GuiLabels, Labels
<1> DEFINE PcOK == pc' \in [Thread -> Labels] /\ LabelInv'
<1>1. ASSUME UNCHANGED <<sharedVars, agentVars, localVars, table>>, PcOK
      PROVE  TypeOK' /\ LabelInv'
  BY <1>1 DEF TypeOK
<1>2. ASSUME NEW s \in Session, Handshake(s) \/ Enlist(s) PROVE TypeOK' /\ LabelInv'
  <2>1. PcOK
    BY <1>2, GotoLabels DEF Handshake, Enlist, Goto, Thread, CenterServerAssumption
  <2> QED
    BY <1>1, <1>2, <2>1 DEF Handshake, Enlist, Thread
<1>3. ASSUME NEW s \in Session, Join(s) \/ AgentStops(s) PROVE TypeOK' /\ LabelInv'
  <2>1. PcOK
    <3>1. CASE Join(s)
      BY <3>1, GotoLabels DEF Join, Goto, Thread, CenterServerAssumption
    <3>2. CASE AgentStops(s)
      BY <3>2 DEF AgentStops, TypeOK, LabelInv
    <3> QED
      BY <1>3, <3>1, <3>2
  <2> QED
    BY <1>3, <2>1 DEF Join, AgentStops, TypeOK
<1>4. ASSUME NEW t \in Thread, NEW r \in Request, Ask(t, r), PcOK, UNCHANGED localVars
      PROVE  TypeOK' /\ LabelInv'
  <2>1. Stream(t) \in Session
    BY StreamIsASession
  <2>2. pending' \in [Session -> Seq(Answer)]
    <3>1. CASE UNCHANGED pending
      BY <3>1 DEF TypeOK
    <3>2. ASSUME NEW a \in Seq(Answer), pending' = [pending EXCEPT ![Stream(t)] = @ \o a]
          PROVE  pending' \in [Session -> Seq(Answer)]
      <4>1. pending[Stream(t)] \o a \in Seq(Answer)
        BY <2>1, ConcatProperties DEF TypeOK
      <4> QED
        BY <2>1, <3>2, <4>1 DEF TypeOK
    <3> QED
      BY <1>4, <3>1, <3>2, AskShape
  <2>3. lock' \in [Session -> Thread \cup {NoThread}] /\ disturbed' \subseteq Session
        /\ UNCHANGED <<registry, poisoned, dbPoisoned, up, table>>
    <3>1. /\ lock' = [lock EXCEPT ![Stream(t)] = t] /\ disturbed' \subseteq Session
          /\ UNCHANGED <<registry, poisoned, dbPoisoned, up, table>>
      BY <1>4, AskShape
    <3> QED
      BY <2>1, <3>1 DEF TypeOK
  <2> QED
    BY <1>4, <2>2, <2>3 DEF TypeOK
<1>5. ASSUME NEW s \in Session, Poll(s) PROVE TypeOK' /\ LabelInv'
  <2>1. PcOK
    BY <1>5, GotoLabels DEF Poll, Goto, Thread, CenterServerAssumption
  <2> QED
    BY <1>4, <1>5, <2>1 DEF Poll, Thread, Request
<1>6. ASSUME NEW s \in Session, PollAnswered(s) PROVE TypeOK' /\ LabelInv'
  <2>1. /\ pending' \in [Session -> Seq(Answer)] /\ UNCHANGED <<up, disturbed>>
        /\ Oldest(s).records \in Seq(File) /\ Stream(s) = s /\ s \in Thread
    BY <1>6, ReceiveShape DEF PollAnswered, Thread, Answer, Stream
  <2>2. lock' \in [Session -> Thread \cup {NoThread}]
    BY <1>6, <2>1 DEF PollAnswered, Release, TypeOK
  <2>3. CASE Goto(s, "answer", "poll") /\ UNCHANGED <<aim, batch>>
    <3>1. PcOK
      BY <2>1, <2>3, GotoLabels DEF Goto, CenterServerAssumption
    <3> QED
      BY <1>6, <2>1, <2>2, <2>3, <3>1 DEF PollAnswered, TypeOK
  <2>4. ASSUME NEW p \in Parser,
               pc' = [pc EXCEPT ![s] = "poll", ![p] = "row"],
               aim' = [aim EXCEPT ![p] = s],
               batch' = [batch EXCEPT ![p] = Oldest(s).records]
        PROVE  TypeOK' /\ LabelInv'
    <3>1. PcOK
      <4>1. p # s /\ p \in Thread
        BY DEF CenterServerAssumption, Thread
      <4>2. /\ pc' \in [Thread -> Labels]
            /\ \A x \in Thread : pc'[x] = IF x = p THEN "row" ELSE IF x = s THEN "poll" ELSE pc[x]
        BY <2>1, <2>4, <4>1 DEF TypeOK
      <4> QED
        BY <4>1, <4>2 DEF LabelInv, Thread, CenterServerAssumption
    <3>2. aim' \in [Parser \cup Gui -> Session] /\ batch' \in [Parser -> Seq(File)]
      BY <2>1, <2>4 DEF TypeOK
    <3> QED
      BY <1>6, <2>1, <2>2, <3>1, <3>2 DEF PollAnswered, TypeOK
  <2> QED
    BY <1>6, <2>3, <2>4 DEF PollAnswered
<1>7. ASSUME NEW s \in Session, PollUnanswered(s) PROVE TypeOK' /\ LabelInv'
  <2>1. PcOK
    BY <1>7, GotoLabels DEF PollUnanswered, Goto, Thread, CenterServerAssumption
  <2> QED
    BY <1>7, <2>1 DEF PollUnanswered, ReceiveNone, Release, Stream, TypeOK
<1>8. ASSUME NEW p \in Parser, NextRecord(p), pc[p] # "idle", batch[p] # <<>>
      PROVE  PcOK /\ batch' \in [Parser -> Seq(File)]
  <2>1. PcOK
    BY <1>8, GotoLabels DEF NextRecord, Thread, CenterServerAssumption
  <2>2. Tail(batch[p]) \in Seq(File)
    BY <1>8, HeadTailProperties DEF TypeOK
  <2> QED
    BY <1>8, <2>1, <2>2 DEF NextRecord, TypeOK
<1>9. ASSUME NEW p \in Parser, InsertRow(p) PROVE TypeOK' /\ LabelInv'
  <2>1. PcOK
    BY <1>9, GotoLabels DEF InsertRow, Goto, Thread, CenterServerAssumption
  <2> QED
    BY <1>1, <1>9, <2>1 DEF InsertRow
<1>10. ASSUME NEW p \in Parser, LookUp(p) PROVE TypeOK' /\ LabelInv'
  <2>1. PcOK /\ batch' \in [Parser -> Seq(File)]
    <3>1. CASE NextRecord(p)
      BY <1>8, <1>10, <3>1 DEF LookUp, BatchInv
    <3>2. CASE Goto(p, "look", "fetch") /\ UNCHANGED batch
      BY <3>2, GotoLabels DEF Goto, Thread, CenterServerAssumption, TypeOK
    <3> QED
      BY <1>10, <3>1, <3>2 DEF LookUp
  <2> QED
    BY <1>10, <2>1 DEF LookUp, TypeOK
<1>11. ASSUME NEW p \in Parser, Fetch(p) PROVE TypeOK' /\ LabelInv'
  <2>1. PcOK
    BY <1>11, GotoLabels DEF Fetch, Goto, Thread, CenterServerAssumption
  <2>2. Wanted(p) \in Request
    <3>1. pc[p] # "idle"
      BY <1>11 DEF Fetch, Goto
    <3>2. Head(batch[p]) \in File
      BY <3>1, HeadTailProperties DEF BatchInv, TypeOK
    <3> QED
      BY <3>2 DEF Wanted, Request
  <2> QED
    BY <1>4, <1>11, <2>1, <2>2 DEF Fetch, Thread
<1>12. ASSUME NEW p \in Parser, FetchAnswered(p) PROVE TypeOK' /\ LabelInv'
  <2>0. p \in Thread
    BY DEF Thread
  <2>1. CASE /\ Goto(p, "reply", "recheck") /\ Receive(p)
             /\ got' = [got EXCEPT ![p] = IF IsCode(Oldest(p)) THEN "command" ELSE Oldest(p).to]
             /\ UNCHANGED <<sharedVars, aim, batch, table>>
    <3>1. PcOK
      BY <2>0, <2>1, GotoLabels DEF Goto, CenterServerAssumption
    <3>2. pending' \in [Session -> Seq(Answer)] /\ UNCHANGED <<up, disturbed>>
          /\ Oldest(p).to \in Request
      BY <2>0, <2>1, ReceiveShape DEF Answer
    <3>3. got' \in [Parser -> Request]
      BY <2>1, <3>2 DEF TypeOK, Request
    <3> QED
      BY <2>1, <3>1, <3>2, <3>3 DEF TypeOK
  <2>2. CASE /\ pc[p] = "reply" /\ ReceiveNone(p) /\ Release(p) /\ NextRecord(p)
             /\ UNCHANGED <<registry, poisoned, dbPoisoned, aim, got, table>>
    <3>1. PcOK /\ batch' \in [Parser -> Seq(File)]
      BY <1>8, <2>2 DEF BatchInv
    <3>2. Stream(p) \in Session
      BY <2>0, StreamIsASession
    <3> QED
      BY <2>2, <3>1, <3>2 DEF ReceiveNone, Release, TypeOK
  <2> QED
    BY <1>12, <2>1, <2>2 DEF FetchAnswered
<1>13. ASSUME NEW p \in Parser, Recheck(p) PROVE TypeOK' /\ LabelInv'
  <2>1. PcOK /\ batch' \in [Parser -> Seq(File)]
    <3>1. CASE NextRecord(p)
      BY <1>8, <1>13, <3>1 DEF Recheck, BatchInv
    <3>2. CASE Goto(p, "recheck", "insert") /\ UNCHANGED batch
      BY <3>2, GotoLabels DEF Goto, Thread, CenterServerAssumption, TypeOK
    <3> QED
      BY <1>13, <3>1, <3>2 DEF Recheck
  <2>2. lock' \in [Session -> Thread \cup {NoThread}]
    BY <1>13 DEF Recheck, Release, TypeOK
  <2> QED
    BY <1>13, <2>1, <2>2 DEF Recheck, TypeOK
<1>14. ASSUME NEW p \in Parser, InsertFile(p) PROVE TypeOK' /\ LabelInv'
  <2>1. PcOK /\ batch' \in [Parser -> Seq(File)]
    BY <1>8, <1>14 DEF InsertFile, BatchInv
  <2>2. \A f \in File : Append(table[f], got[p]) \in Seq(Request)
    BY DEF TypeOK
  <2>3. table' \in [File -> Seq(Request)]
    BY <1>14, <2>2 DEF InsertFile, TypeOK
  <2> QED
    BY <1>14, <2>1, <2>3 DEF InsertFile, TypeOK
<1>15. ASSUME NEW g \in Gui, FindAgent(g) PROVE TypeOK' /\ LabelInv'
  <2>1. PcOK
    BY <1>15, GotoLabels DEF FindAgent, Goto, Thread, CenterServerAssumption
  <2>2. aim' \in [Parser \cup Gui -> Session]
    BY <1>15 DEF FindAgent, TypeOK
  <2> QED
    BY <1>15, <2>1, <2>2 DEF FindAgent, TypeOK
<1>16. ASSUME NEW g \in Gui, Command(g) PROVE TypeOK' /\ LabelInv'
  <2>1. PcOK
    BY <1>16, GotoLabels DEF Command, Goto, Thread, CenterServerAssumption
  <2> QED
    BY <1>4, <1>16, <2>1 DEF Command, Thread, Request
<1>17. ASSUME NEW g \in Gui, CommandAnswered(g) PROVE TypeOK' /\ LabelInv'
  <2>0. g \in Thread
    BY DEF Thread
  <2>1. CASE /\ Goto(g, "result", "log") /\ Receive(g)
             /\ UNCHANGED <<sharedVars, localVars, table>>
    <3>1. PcOK
      BY <2>0, <2>1, GotoLabels DEF Goto, CenterServerAssumption
    <3>2. pending' \in [Session -> Seq(Answer)] /\ UNCHANGED <<up, disturbed>>
      BY <2>0, <2>1, ReceiveShape
    <3> QED
      BY <2>1, <3>1, <3>2 DEF TypeOK
  <2>2. CASE /\ Goto(g, "result", "idle") /\ ReceiveNone(g) /\ Release(g)
             /\ UNCHANGED <<registry, poisoned, dbPoisoned, localVars, table>>
    <3>1. PcOK
      BY <2>0, <2>2, GotoLabels DEF Goto, CenterServerAssumption
    <3>2. Stream(g) \in Session
      BY <2>0, StreamIsASession
    <3> QED
      BY <2>2, <3>1, <3>2 DEF ReceiveNone, Release, TypeOK
  <2> QED
    BY <1>17, <2>1, <2>2 DEF CommandAnswered
<1>18. ASSUME NEW g \in Gui, LogCommand(g) PROVE TypeOK' /\ LabelInv'
  <2>1. PcOK
    BY <1>18, GotoLabels DEF LogCommand, Goto, Thread, CenterServerAssumption
  <2> QED
    BY <1>18, <2>1 DEF LogCommand, Release, TypeOK
<1>19. ASSUME NEW t \in Thread, Panic(t), dbPoisoned' \in BOOLEAN PROVE TypeOK' /\ LabelInv'
  BY <1>19, PanicShape DEF TypeOK
<1>20. ASSUME NEW t \in Thread, DbPanics(t) \/ StreamPanics(t) PROVE TypeOK' /\ LabelInv'
  BY <1>19, <1>20 DEF DbPanics, StreamPanics, TypeOK
<1>21. ASSUME NEW p \in Parser, SavePanics(p) PROVE TypeOK' /\ LabelInv'
  BY <1>19, <1>21 DEF SavePanics, TypeOK, Thread
<1>22. CASE UNCHANGED vars
  BY <1>22 DEF vars, TypeOK, LabelInv
<1>23. ASSUME NEW s \in Session, Handshake(s) \/ AgentStops(s) \/ SessionStep(s)
       PROVE  TypeOK' /\ LabelInv'
  BY <1>2, <1>3, <1>5, <1>6, <1>7, <1>20, <1>23 DEF SessionStep, Thread
<1>24. ASSUME NEW p \in Parser, ParserStep(p) PROVE TypeOK' /\ LabelInv'
  BY <1>9, <1>10, <1>11, <1>12, <1>13, <1>14, <1>20, <1>21, <1>24 DEF ParserStep, Thread
<1>25. ASSUME NEW g \in Gui, FindAgent(g) \/ GuiStep(g) PROVE TypeOK' /\ LabelInv'
  BY <1>15, <1>16, <1>17, <1>18, <1>20, <1>25 DEF GuiStep, Thread
<1> QED
  BY <1>22, <1>23, <1>24, <1>25 DEF Next

-----------------------------------------------------------------------------
(* Holders and answers                                                     *)

\* As far as holders and requests go, the step does not touch thread u.
Same(u) ==
    pc[u] \in Held \/ pc'[u] \in Held =>
        pc'[u] = pc[u] /\ Stream(u)' = Stream(u) /\ Asked(u)' = Asked(u)

\* Only one thread holds a stream.
LEMMA OneHolder ==
  ASSUME HolderInv, NEW t \in Thread, NEW u \in Thread, pc[t] \in Held, pc[u] \in Held,
         Stream(t) = Stream(u)
  PROVE  t = u
  BY DEF HolderInv

\* Nothing happens to the locks.
LEMMA QuietStep ==
  ASSUME CenterInv, NEW t \in Thread, \A u \in Thread \ {t} : Same(u),
         pc[t] \notin Held, pc'[t] \notin Held, UNCHANGED <<lock, pending, disturbed>>
  PROVE  HolderInv' /\ PairInv'
<1> USE DEF CenterInv
<1>1. \A u \in Thread : Same(u)
  BY DEF Same
<1>2. HolderInv'
  BY <1>1 DEF HolderInv, Same
<1>3. PairInv'
  BY <1>1 DEF PairInv, Same, Asking, Held
<1> QED
  BY <1>2, <1>3

\* A thread locks its stream and asks.
LEMMA AskStep ==
  ASSUME CenterServerAssumption, CenterInv, NEW t \in Thread,
         \A u \in Thread \ {t} : Same(u),
         pc[t] \notin Held, pc'[t] \in Asking, Stream(t)' = Stream(t),
         NEW r \in Request, Ask(t, r), Asked(t)' = r
  PROVE  HolderInv' /\ PairInv'
<1> USE DEF CenterInv
<1>0. Stream(t) \in Session /\ NoThread \notin Thread
  BY StreamIsASession DEF CenterServerAssumption
<1>1. /\ lock[Stream(t)] = NoThread
      /\ lock' = [lock EXCEPT ![Stream(t)] = t]
      /\ disturbed \subseteq disturbed'
  BY AskShape
<1>2. lock'[Stream(t)] = t /\ \A s \in Session \ {Stream(t)} : lock'[s] = lock[s]
  BY <1>0, <1>1 DEF TypeOK
<1>3. ASSUME NEW u \in Thread \ {t}, pc[u] \in Held
      PROVE  Stream(u) \in Session /\ Stream(u) # Stream(t) /\ lock[Stream(u)] = u
  BY <1>0, <1>1, <1>3, StreamIsASession DEF HolderInv
<1>4. HolderInv'
  <2>1. ASSUME NEW u \in Thread, pc'[u] \in Held PROVE lock'[Stream(u)'] = u
    <3>1. CASE u = t
      BY <1>2, <3>1
    <3>2. CASE u # t
      BY <1>2, <1>3, <2>1, <3>2 DEF Same
    <3> QED
      BY <3>1, <3>2
  <2>2. ASSUME NEW s \in Session, lock'[s] # NoThread
        PROVE  \E u \in Thread : lock'[s] = u /\ Stream(u)' = s /\ pc'[u] \in Held
    <3>1. CASE s = Stream(t)
      BY <1>2, <3>1 DEF Held, Asking
    <3>2. CASE s # Stream(t)
      <4>1. PICK u \in Thread : lock[s] = u /\ Stream(u) = s /\ pc[u] \in Held
        BY <1>2, <2>2, <3>2 DEF HolderInv
      <4>2. u # t
        BY <3>2, <4>1
      <4> QED
        BY <1>2, <3>2, <4>1, <4>2 DEF Same
    <3> QED
      BY <3>1, <3>2
  <2> QED
    BY <2>1, <2>2 DEF HolderInv
<1>5. PairInv'
  <2> SUFFICES ASSUME NEW s \in Session, s \notin disturbed', pending'[s] # <<>>
               PROVE  /\ Len(pending'[s]) = 1
                      /\ \E u \in Thread : /\ pc'[u] \in Asking /\ Stream(u)' = s
                                           /\ Head(pending'[s]).to = Asked(u)'
    BY DEF PairInv
  <2>1. s \notin disturbed
    BY <1>1
  <2>2. CASE s # Stream(t)
    <3>1. pending'[s] = pending[s]
      <4>1. \/ UNCHANGED pending
            \/ \E a \in Seq(Answer) : pending' = [pending EXCEPT ![Stream(t)] = @ \o a]
        BY AskShape
      <4> QED
        BY <1>0, <2>2, <4>1 DEF TypeOK
    <3>2. PICK u \in Thread : /\ pc[u] \in Asking /\ Stream(u) = s
                              /\ Head(pending[s]).to = Asked(u)
      BY <2>1, <3>1 DEF PairInv
    <3>3. Len(pending[s]) = 1
      BY <2>1, <3>1 DEF PairInv
    <3>4. pc'[u] = pc[u] /\ Stream(u)' = Stream(u) /\ Asked(u)' = Asked(u)
      BY <2>2, <3>2 DEF Same, Asking, Held
    <3> QED
      BY <3>1, <3>2, <3>3, <3>4
  <2>3. CASE s = Stream(t)
    <3>1. pending[s] = <<>>
      BY <1>0, <1>1, <1>3, <2>1, <2>3 DEF PairInv, Asking, Held
    <3>2. PICK a \in Seq(Answer) :
            /\ pending' = [pending EXCEPT ![Stream(t)] = @ \o a]
            /\ \A i \in DOMAIN a : a[i].to = r
            /\ Len(a) = 1
      <4>1. ~UNCHANGED pending
        BY <3>1
      <4>2. \E a \in Seq(Answer) :
              /\ pending' = [pending EXCEPT ![Stream(t)] = @ \o a]
              /\ \A i \in DOMAIN a : a[i].to = r
              /\ Stream(t) \notin disturbed' => Len(a) = 1
        <5>1. \/ UNCHANGED <<pending, disturbed>>
              \/ \E a \in Seq(Answer) :
                   /\ pending' = [pending EXCEPT ![Stream(t)] = @ \o a]
                   /\ \A i \in DOMAIN a : a[i].to = r
                   /\ r = "poll" => \A i \in DOMAIN a : a[i].good => a[i].records # <<>>
                   /\ Stream(t) \notin disturbed' => Len(a) = 1
          BY AskShape
        <5> QED
          BY <4>1, <5>1
      <4> QED
        BY <2>3, <4>2
    <3>3. pending'[s] = a
      <4>1. pending'[s] = pending[s] \o a
        BY <2>3, <3>2 DEF TypeOK
      <4> QED
        BY <3>1, <4>1, ConcatEmptySeq
    <3>4. Head(a).to = r
      BY <3>2
    <3> QED
      BY <2>3, <3>2, <3>3, <3>4
  <2> QED
    BY <2>2, <2>3
<1> QED
  BY <1>4, <1>5

\* A thread receives and keeps the stream.
LEMMA ReadStep ==
  ASSUME CenterInv, NEW t \in Thread, \A u \in Thread \ {t} : Same(u),
         pc[t] \in Asking, pc'[t] \in Held, Stream(t)' = Stream(t),
         Receive(t), UNCHANGED lock
  PROVE  HolderInv' /\ PairInv'
<1> USE DEF CenterInv
<1>1. HolderInv'
  BY DEF HolderInv, Same, Asking, Held
<1>2. PairInv'
  <2> SUFFICES ASSUME NEW s \in Session, s \notin disturbed', pending'[s] # <<>>
               PROVE  /\ Len(pending'[s]) = 1
                      /\ \E u \in Thread : /\ pc'[u] \in Asking /\ Stream(u)' = s
                                           /\ Head(pending'[s]).to = Asked(u)'
    BY DEF PairInv
  <2>1. /\ s \notin disturbed /\ pending[Stream(t)] # <<>>
        /\ pending' = [pending EXCEPT ![Stream(t)] = Tail(@)]
        /\ Stream(t) \in Session /\ pending[Stream(t)] \in Seq(Answer)
    BY ReceiveShape, StreamIsASession DEF TypeOK
  <2>2. s # Stream(t)
    <3>1. ASSUME s = Stream(t) PROVE FALSE
      <4>1. Len(pending[s]) = 1
        BY <2>1, <3>1 DEF PairInv
      <4>2. Tail(pending[s]) = <<>>
        BY <2>1, <3>1, <4>1, TailOfOne
      <4> QED
        BY <2>1, <3>1, <4>2 DEF TypeOK
    <3> QED
      BY <3>1
  <2>3. pending'[s] = pending[s]
    BY <2>1, <2>2 DEF TypeOK
  <2>4. PICK u \in Thread : /\ pc[u] \in Asking /\ Stream(u) = s
                            /\ Head(pending[s]).to = Asked(u)
    BY <2>1, <2>3 DEF PairInv
  <2>5. pc'[u] = pc[u] /\ Stream(u)' = Stream(u) /\ Asked(u)' = Asked(u)
    BY <2>2, <2>4 DEF Same, Asking, Held
  <2> QED
    BY <2>1, <2>3, <2>4, <2>5 DEF PairInv
<1> QED
  BY <1>1, <1>2

\* A thread gives the stream back, after an answer, after none, or later.
LEMMA ReleaseStep ==
  ASSUME CenterServerAssumption, CenterInv, NEW t \in Thread,
         \A u \in Thread \ {t} : Same(u),
         pc[t] \in Held, pc'[t] \notin Held, Release(t),
         \/ pc[t] \in Asking /\ Receive(t)
         \/ ReceiveNone(t)
         \/ pc[t] \notin Asking /\ UNCHANGED <<pending, disturbed>>
  PROVE  HolderInv' /\ PairInv'
<1> USE DEF CenterInv
<1>0. Stream(t) \in Session /\ NoThread \notin Thread /\ lock[Stream(t)] = t
  BY StreamIsASession DEF CenterServerAssumption, HolderInv
<1>1. lock'[Stream(t)] = NoThread /\ \A s \in Session \ {Stream(t)} : lock'[s] = lock[s]
  BY <1>0 DEF Release, TypeOK
<1>2. ASSUME NEW u \in Thread \ {t}, pc[u] \in Held PROVE Stream(u) # Stream(t)
  BY <1>2, OneHolder
<1>3. HolderInv'
  <2>1. ASSUME NEW u \in Thread, pc'[u] \in Held PROVE lock'[Stream(u)'] = u
    <3>1. u # t /\ pc[u] \in Held /\ Stream(u)' = Stream(u) /\ Stream(u) \in Session
      BY <2>1, StreamIsASession DEF Same
    <3> QED
      BY <1>1, <1>2, <3>1 DEF HolderInv
  <2>2. ASSUME NEW s \in Session, lock'[s] # NoThread
        PROVE  \E u \in Thread : lock'[s] = u /\ Stream(u)' = s /\ pc'[u] \in Held
    <3>1. s # Stream(t) /\ lock'[s] = lock[s]
      BY <1>1, <2>2
    <3>2. PICK u \in Thread : lock[s] = u /\ Stream(u) = s /\ pc[u] \in Held
      BY <2>2, <3>1 DEF HolderInv
    <3> QED
      BY <3>1, <3>2 DEF Same
  <2> QED
    BY <2>1, <2>2 DEF HolderInv
<1>4. PairInv'
  <2> SUFFICES ASSUME NEW s \in Session, s \notin disturbed', pending'[s] # <<>>
               PROVE  /\ Len(pending'[s]) = 1
                      /\ \E u \in Thread : /\ pc'[u] \in Asking /\ Stream(u)' = s
                                           /\ Head(pending'[s]).to = Asked(u)'
    BY DEF PairInv
  <2>1. s \notin disturbed
    BY DEF Receive, ReceiveNone
  <2>2. s # Stream(t) /\ pending'[s] = pending[s]
    <3>1. CASE Receive(t)
      <4>1. /\ pending[Stream(t)] # <<>>
            /\ pending' = [pending EXCEPT ![Stream(t)] = Tail(@)]
            /\ pending[Stream(t)] \in Seq(Answer)
        BY <1>0, <3>1, ReceiveShape DEF TypeOK
      <4>2. s # Stream(t)
        <5>1. ASSUME s = Stream(t) PROVE FALSE
          <6>1. Len(pending[s]) = 1
            BY <2>1, <4>1, <5>1 DEF PairInv
          <6>2. Tail(pending[s]) = <<>>
            BY <4>1, <5>1, <6>1, TailOfOne
          <6> QED
            BY <1>0, <4>1, <5>1, <6>2 DEF TypeOK
        <5> QED
          BY <5>1
      <4> QED
        BY <1>0, <4>1, <4>2 DEF TypeOK
    <3>2. CASE ReceiveNone(t)
      BY <3>2 DEF ReceiveNone
    <3>3. CASE pc[t] \notin Asking /\ UNCHANGED <<pending, disturbed>>
      <4>1. ASSUME s = Stream(t) PROVE FALSE
        <5>1. PICK u \in Thread : pc[u] \in Asking /\ Stream(u) = s
          BY <2>1, <3>3 DEF PairInv
        <5> QED
          BY <1>2, <3>3, <4>1, <5>1 DEF Asking, Held
      <4> QED
        BY <3>3, <4>1
    <3> QED
      BY <3>1, <3>2, <3>3
  <2>3. PICK u \in Thread : /\ pc[u] \in Asking /\ Stream(u) = s
                            /\ Head(pending[s]).to = Asked(u)
    BY <2>1, <2>2 DEF PairInv
  <2>4. pc'[u] = pc[u] /\ Stream(u)' = Stream(u) /\ Asked(u)' = Asked(u)
    BY <2>2, <2>3 DEF Same, Asking, Held
  <2> QED
    BY <2>1, <2>2, <2>3, <2>4 DEF PairInv
<1> QED
  BY <1>3, <1>4

\* A thread dies between asking and asking again.
LEMMA PanicStep ==
  ASSUME CenterServerAssumption, CenterInv, NEW t \in Thread, Panic(t), pc[t] \notin Asking
  PROVE  /\ HolderInv' /\ PairInv'
         /\ pc[t] \notin Held => UNCHANGED <<lock, poisoned>>
<1> USE DEF CenterInv
<1>1. /\ pc' = [pc EXCEPT ![t] = IF t \in Parser THEN "idle" ELSE "dead"]
      /\ lock' = [s \in Session |-> IF lock[s] = t THEN NoThread ELSE lock[s]]
      /\ poisoned' = poisoned \cup {s \in Session : lock[s] = t}
      /\ UNCHANGED <<pending, disturbed, aim, batch>>
  BY DEF Panic, agentVars, localVars
<1>2. pc'[t] \notin Held /\ \A u \in Thread \ {t} : Same(u)
  BY <1>1 DEF Same, Held, TypeOK, Stream, Asked, Wanted
<1>3. CASE pc[t] \notin Held
  <2>1. \A s \in Session : lock[s] # t
    BY <1>3, CenterServerAssumption DEF HolderInv, CenterServerAssumption
  <2>2. UNCHANGED <<lock, poisoned>>
    BY <1>1, <2>1 DEF TypeOK
  <2> QED
    BY <1>1, <1>2, <1>3, <2>2, QuietStep
<1>4. CASE pc[t] \in Held
  <2>1. Stream(t) \in Session /\ lock[Stream(t)] = t
    BY <1>4, StreamIsASession DEF HolderInv
  <2>2. \A s \in Session : lock[s] = t => s = Stream(t)
    BY CenterServerAssumption DEF HolderInv, CenterServerAssumption
  <2>3. Release(t)
    BY <1>1, <2>1, <2>2 DEF Release, TypeOK
  <2> QED
    BY <1>1, <1>2, <1>4, <2>3, ReleaseStep
<1> QED
  BY <1>3, <1>4

\* A thread that moves alone leaves the others as they are.
LEMMA AloneIsSame ==
  ASSUME CenterServerAssumption, TypeOK, NEW t \in Thread, NEW l,
         pc' = [pc EXCEPT ![t] = l],
         \A u \in (Parser \cup Gui) \ {t} : aim'[u] = aim[u],
         \A u \in Parser \ {t} : batch'[u] = batch[u]
  PROVE  /\ pc'[t] = l
         /\ \A u \in Thread \ {t} : Same(u)
  BY DEF Same, TypeOK, Stream, Asked, Wanted, Thread

LEMMA HolderPairStep ==
  ASSUME CenterServerAssumption, CenterInv, [Next]_vars
  PROVE  HolderInv' /\ PairInv'
<1> USE CenterServerAssumption DEF sharedVars, agentVars, localVars, Thread
<1> DEFINE HP == HolderInv' /\ PairInv'
<1>0. TypeOK /\ BatchInv /\ LabelInv
  BY DEF CenterInv
<1>1. ASSUME NEW s \in Session, Handshake(s) \/ Join(s) \/ Enlist(s) PROVE HP
  <2>1. PICK l \in {"join", "ended", "enlist", "poll"} : pc' = [pc EXCEPT ![s] = l]
    BY <1>1 DEF Handshake, Join, Enlist, Goto
  <2>2. UNCHANGED <<lock, pending, disturbed, aim, batch>> /\ pc[s] \notin Held
    BY <1>1 DEF Handshake, Join, Enlist, Goto, Held
  <2>3. pc'[s] = l /\ \A u \in Thread \ {s} : Same(u)
    BY <1>0, <2>1, <2>2, AloneIsSame
  <2> QED
    BY <2>2, <2>3, QuietStep DEF Held
<1>2. ASSUME NEW s \in Session, AgentStops(s) PROVE HP
  BY <1>2 DEF AgentStops, CenterInv, HolderInv, PairInv, Stream, Asked, Wanted
<1>3. ASSUME NEW s \in Session, Poll(s) PROVE HP
  <2>1. pc' = [pc EXCEPT ![s] = "answer"] /\ pc[s] = "poll" /\ UNCHANGED localVars /\ Ask(s, "poll")
    BY <1>3 DEF Poll, Goto
  <2>2. pc'[s] = "answer" /\ \A u \in Thread \ {s} : Same(u)
    BY <1>0, <2>1, AloneIsSame
  <2>3. Stream(s)' = Stream(s) /\ Asked(s)' = "poll" /\ "poll" \in Request /\ s \in Thread
    BY DEF Stream, Asked, Request
  <2> QED
    BY <2>1, <2>2, <2>3, AskStep DEF Held, Asking
<1>4. ASSUME NEW s \in Session, PollAnswered(s) PROVE HP
  <2>1. pc[s] = "answer" /\ Receive(s) /\ Release(s)
    BY <1>4 DEF PollAnswered
  <2>2. pc'[s] = "poll" /\ \A u \in Thread \ {s} : Same(u)
    <3>1. CASE Goto(s, "answer", "poll") /\ UNCHANGED <<aim, batch>>
      BY <1>0, <3>1, AloneIsSame DEF Goto
    <3>2. ASSUME NEW p \in Parser, pc[p] = "idle",
                 pc' = [pc EXCEPT ![s] = "poll", ![p] = "row"],
                 aim' = [aim EXCEPT ![p] = s],
                 batch' = [batch EXCEPT ![p] = Oldest(s).records]
          PROVE  pc'[s] = "poll" /\ \A u \in Thread \ {s} : Same(u)
      <4>1. p # s /\ p \in Thread /\ s \in Thread
        BY DEF CenterServerAssumption
      <4>2. \A x \in Thread : pc'[x] = IF x = p THEN "row" ELSE IF x = s THEN "poll" ELSE pc[x]
        BY <1>0, <3>2, <4>1 DEF TypeOK
      <4>3. Same(p)
        <5>1. pc[p] = "idle" /\ pc'[p] = "row"
          BY <3>2, <4>1, <4>2
        <5>2. pc[p] \notin Held /\ pc'[p] \notin Held
          BY <5>1 DEF Held
        <5> QED
          BY <5>2 DEF Same
      <4>4. ASSUME NEW u \in Thread \ {s, p} PROVE Same(u)
        BY <1>0, <3>2, <4>2 DEF Same, TypeOK, Stream, Asked, Wanted
      <4> QED
        BY <4>1, <4>2, <4>3, <4>4
    <3> QED
      BY <1>4, <3>1, <3>2 DEF PollAnswered
  <2> QED
    BY <2>1, <2>2, ReleaseStep DEF Held, Asking
<1>5. ASSUME NEW s \in Session, PollUnanswered(s) PROVE HP
  <2>1. pc[s] = "answer" /\ pc' = [pc EXCEPT ![s] = "ended"] /\ ReceiveNone(s) /\ Release(s)
        /\ UNCHANGED localVars
    BY <1>5 DEF PollUnanswered, Goto
  <2>2. pc'[s] = "ended" /\ \A u \in Thread \ {s} : Same(u)
    BY <1>0, <2>1, AloneIsSame
  <2> QED
    BY <2>1, <2>2, ReleaseStep DEF Held
<1>6. ASSUME NEW p \in Parser, NextRecord(p)
      PROVE  \E l \in {"idle", "row"} :
               /\ pc' = [pc EXCEPT ![p] = l]
               /\ \A u \in Parser \ {p} : batch'[u] = batch[u]
  BY <1>0, <1>6 DEF NextRecord, TypeOK
<1>7. ASSUME NEW p \in Parser, InsertRow(p) \/ LookUp(p) \/ InsertFile(p) PROVE HP
  <2>1. /\ UNCHANGED <<lock, pending, disturbed, aim>> /\ pc[p] \notin Held
        /\ \A u \in Parser \ {p} : batch'[u] = batch[u]
    BY <1>6, <1>7 DEF InsertRow, LookUp, InsertFile, Goto, Held
  <2>2. PICK l \in {"look", "fetch", "idle", "row"} : pc' = [pc EXCEPT ![p] = l]
    BY <1>6, <1>7 DEF InsertRow, LookUp, InsertFile, Goto
  <2>3. pc'[p] = l /\ \A u \in Thread \ {p} : Same(u)
    BY <1>0, <2>1, <2>2, AloneIsSame
  <2> QED
    BY <2>1, <2>3, QuietStep DEF Held
<1>8. ASSUME NEW p \in Parser, Fetch(p) PROVE HP
  <2>1. pc' = [pc EXCEPT ![p] = "reply"] /\ pc[p] = "fetch" /\ UNCHANGED localVars /\ Ask(p, Wanted(p))
    BY <1>8 DEF Fetch, Goto
  <2>2. pc'[p] = "reply" /\ \A u \in Thread \ {p} : Same(u)
    BY <1>0, <2>1, AloneIsSame
  <2>3. Wanted(p) \in Request
    <3>1. Head(batch[p]) \in File
      BY <1>0, <2>1, HeadTailProperties DEF BatchInv, TypeOK
    <3> QED
      BY <3>1 DEF Wanted, Request
  <2>4. Stream(p)' = Stream(p) /\ Asked(p)' = Wanted(p)
    BY <2>1 DEF Stream, Asked, Wanted, CenterServerAssumption
  <2> QED
    BY <2>1, <2>2, <2>3, <2>4, AskStep DEF Held, Asking
<1>9. ASSUME NEW p \in Parser, FetchAnswered(p) PROVE HP
  <2>1. CASE Goto(p, "reply", "recheck") /\ Receive(p) /\ UNCHANGED <<lock, aim, batch>>
    <3>1. pc'[p] = "recheck" /\ \A u \in Thread \ {p} : Same(u)
      BY <1>0, <2>1, AloneIsSame DEF Goto
    <3>2. Stream(p)' = Stream(p)
      BY <2>1 DEF Stream
    <3> QED
      BY <2>1, <3>1, <3>2, ReadStep DEF Goto, Held, Asking
  <2>2. CASE pc[p] = "reply" /\ ReceiveNone(p) /\ Release(p) /\ NextRecord(p) /\ UNCHANGED aim
    <3>1. PICK l \in {"idle", "row"} : /\ pc' = [pc EXCEPT ![p] = l]
                                       /\ \A u \in Parser \ {p} : batch'[u] = batch[u]
      BY <1>6, <2>2
    <3>2. pc'[p] = l /\ \A u \in Thread \ {p} : Same(u)
      BY <1>0, <2>2, <3>1, AloneIsSame
    <3> QED
      BY <2>2, <3>2, ReleaseStep DEF Held
  <2> QED
    BY <1>9, <2>1, <2>2 DEF FetchAnswered
<1>10. ASSUME NEW p \in Parser, Recheck(p) PROVE HP
  <2>1. pc[p] = "recheck" /\ Release(p) /\ UNCHANGED <<pending, disturbed, aim>>
    BY <1>10 DEF Recheck
  <2>2. PICK l \in {"insert", "idle", "row"} : /\ pc' = [pc EXCEPT ![p] = l]
                                               /\ \A u \in Parser \ {p} : batch'[u] = batch[u]
    BY <1>6, <1>10 DEF Recheck, Goto
  <2>3. pc'[p] = l /\ \A u \in Thread \ {p} : Same(u)
    BY <1>0, <2>1, <2>2, AloneIsSame
  <2> QED
    BY <2>1, <2>3, ReleaseStep DEF Held, Asking
<1>11. ASSUME NEW g \in Gui, FindAgent(g) PROVE HP
  <2>1. PICK s \in registry : aim' = [aim EXCEPT ![g] = s]
    BY <1>11 DEF FindAgent
  <2>2. pc' = [pc EXCEPT ![g] = "command"] /\ pc[g] = "idle"
        /\ UNCHANGED <<lock, pending, disturbed, batch>>
    BY <1>11 DEF FindAgent, Goto
  <2>3. \A u \in (Parser \cup Gui) \ {g} : aim'[u] = aim[u]
    BY <1>0, <2>1 DEF TypeOK
  <2>4. pc'[g] = "command" /\ \A u \in Thread \ {g} : Same(u)
    BY <1>0, <2>2, <2>3, AloneIsSame
  <2> QED
    BY <2>2, <2>4, QuietStep DEF Held
<1>12. ASSUME NEW g \in Gui, Command(g) PROVE HP
  <2>1. pc' = [pc EXCEPT ![g] = "result"] /\ pc[g] = "command" /\ UNCHANGED localVars /\ Ask(g, "command")
    BY <1>12 DEF Command, Goto
  <2>2. pc'[g] = "result" /\ \A u \in Thread \ {g} : Same(u)
    BY <1>0, <2>1, AloneIsSame
  <2>3. Stream(g)' = Stream(g) /\ Asked(g)' = "command" /\ "command" \in Request
    BY <2>1 DEF Stream, Asked, Request, CenterServerAssumption
  <2> QED
    BY <2>1, <2>2, <2>3, AskStep DEF Held, Asking
<1>13. ASSUME NEW g \in Gui, CommandAnswered(g) PROVE HP
  <2>1. CASE Goto(g, "result", "log") /\ Receive(g) /\ UNCHANGED <<lock, aim, batch>>
    <3>1. pc'[g] = "log" /\ \A u \in Thread \ {g} : Same(u)
      BY <1>0, <2>1, AloneIsSame DEF Goto
    <3>2. Stream(g)' = Stream(g)
      BY <2>1 DEF Stream
    <3> QED
      BY <2>1, <3>1, <3>2, ReadStep DEF Goto, Held, Asking
  <2>2. CASE Goto(g, "result", "idle") /\ ReceiveNone(g) /\ Release(g) /\ UNCHANGED localVars
    <3>1. pc'[g] = "idle" /\ \A u \in Thread \ {g} : Same(u)
      BY <1>0, <2>2, AloneIsSame DEF Goto
    <3> QED
      BY <2>2, <3>1, ReleaseStep DEF Goto, Held
  <2> QED
    BY <1>13, <2>1, <2>2 DEF CommandAnswered
<1>14. ASSUME NEW g \in Gui, LogCommand(g) PROVE HP
  <2>1. pc[g] = "log" /\ pc' = [pc EXCEPT ![g] = "idle"] /\ Release(g)
        /\ UNCHANGED <<pending, disturbed, aim, batch>>
    BY <1>14 DEF LogCommand, Goto
  <2>2. pc'[g] = "idle" /\ \A u \in Thread \ {g} : Same(u)
    BY <1>0, <2>1, AloneIsSame
  <2> QED
    BY <2>1, <2>2, ReleaseStep DEF Held, Asking
<1>15. ASSUME NEW t \in Thread, DbPanics(t) \/ StreamPanics(t) \/ SavePanics(t) PROVE HP
  <2>1. Panic(t) /\ pc[t] \notin Asking
    BY <1>15 DEF DbPanics, StreamPanics, SavePanics, AtDb, Asking
  <2> QED
    BY <2>1, PanicStep
<1>16. CASE UNCHANGED vars
  BY <1>16 DEF vars, CenterInv, HolderInv, PairInv, Stream, Asked, Wanted
<1>17. ASSUME NEW s \in Session, Handshake(s) \/ AgentStops(s) \/ SessionStep(s) PROVE HP
  BY <1>1, <1>2, <1>3, <1>4, <1>5, <1>15, <1>17 DEF SessionStep
<1>18. ASSUME NEW p \in Parser, ParserStep(p) PROVE HP
  BY <1>7, <1>8, <1>9, <1>10, <1>15, <1>18 DEF ParserStep
<1>19. ASSUME NEW g \in Gui, FindAgent(g) \/ GuiStep(g) PROVE HP
  BY <1>11, <1>12, <1>13, <1>14, <1>15, <1>19 DEF GuiStep
<1> QED
  BY <1>16, <1>17, <1>18, <1>19 DEF Next

-----------------------------------------------------------------------------
(* Parsers                                                                 *)

\* A step of one parser leaves the other parsers alone.
LEMMA NextRecordShape ==
  ASSUME CenterServerAssumption, TypeOK, NEW p \in Parser, NextRecord(p), batch[p] # <<>>
  PROVE  /\ pc'[p] \in {"idle", "row"}
         /\ pc'[p] # "idle" => batch'[p] # <<>>
         /\ \A q \in Parser \ {p} : pc'[q] = pc[q] /\ batch'[q] = batch[q]
<1>1. p \in Thread /\ Parser \subseteq Thread
  BY DEF Thread
<1>2. batch[p] \in Seq(File)
  BY DEF TypeOK
<1>3. /\ batch' = [batch EXCEPT ![p] = Tail(@)]
      /\ pc' = [pc EXCEPT ![p] = IF Len(batch[p]) = 1 THEN "idle" ELSE "row"]
  BY DEF NextRecord
<1>4. batch'[p] = Tail(batch[p]) /\ pc'[p] = IF Len(batch[p]) = 1 THEN "idle" ELSE "row"
  BY <1>1, <1>3 DEF TypeOK
<1>5. Len(batch[p]) # 1 => Tail(batch[p]) # <<>>
  BY <1>2, MoreThanOne
<1>6. \A q \in Parser \ {p} : pc'[q] = pc[q] /\ batch'[q] = batch[q]
  BY <1>1, <1>3 DEF TypeOK
<1> QED
  BY <1>4, <1>5, <1>6

\* What a step that is not its own does to a parser: nothing, or it starts it
\* on the records of an answer.
LEMMA OtherParser ==
  ASSUME CenterServerAssumption, CenterInv, [Next]_vars, NEW p \in Parser, ~ParserStep(p)
  PROVE  \/ pc'[p] = pc[p] /\ batch'[p] = batch[p] /\ got'[p] = got[p] /\ aim'[p] = aim[p]
         \/ /\ pc'[p] = "row"
            /\ \E s \in Session : /\ Receive(s)
                                  /\ Oldest(s).to = "poll" /\ Oldest(s).good
                                  /\ batch'[p] = Oldest(s).records
<1> USE CenterServerAssumption DEF sharedVars, agentVars, localVars
<1> DEFINE Still == pc'[p] = pc[p] /\ batch'[p] = batch[p] /\ got'[p] = got[p] /\ aim'[p] = aim[p]
<1>0. TypeOK /\ BatchInv /\ p \in Thread
  BY DEF CenterInv, Thread
<1>1. ASSUME NEW t \in Thread \ {p}, NEW l, pc' = [pc EXCEPT ![t] = l],
             UNCHANGED <<batch, got>>, aim' = aim \/ \E s \in Session : aim' = [aim EXCEPT ![t] = s]
      PROVE  Still
  BY <1>0, <1>1 DEF TypeOK
<1>2. ASSUME NEW t \in Thread \ {p}, Panic(t) PROVE Still
  BY <1>1, <1>2 DEF Panic
<1>3. ASSUME NEW s \in Session, Handshake(s) \/ AgentStops(s) \/ SessionStep(s),
             ~PollAnswered(s)
      PROVE  Still
  <2>1. s \in Thread \ {p}
    BY DEF Thread, CenterServerAssumption
  <2>2. CASE DbPanics(s) \/ StreamPanics(s)
    BY <1>2, <2>1, <2>2 DEF DbPanics, StreamPanics
  <2>3. CASE AgentStops(s)
    BY <2>3 DEF AgentStops
  <2>4. CASE Handshake(s) \/ Join(s) \/ Enlist(s) \/ Poll(s) \/ PollUnanswered(s)
    BY <1>1, <2>1, <2>4 DEF Handshake, Join, Enlist, Poll, PollUnanswered, Goto
  <2> QED
    BY <1>3, <2>2, <2>3, <2>4 DEF SessionStep
<1>4. ASSUME NEW s \in Session, PollAnswered(s)
      PROVE  \/ Still
             \/ /\ pc'[p] = "row"
                /\ Receive(s) /\ Oldest(s).to = "poll" /\ Oldest(s).good
                /\ batch'[p] = Oldest(s).records
  <2>0. s \in Thread \ {p} /\ Receive(s) /\ UNCHANGED got
    BY <1>4 DEF PollAnswered, Thread, CenterServerAssumption
  <2>1. CASE Goto(s, "answer", "poll") /\ UNCHANGED <<aim, batch>>
    BY <1>1, <2>0, <2>1 DEF Goto
  <2>2. ASSUME ~(IsCode(Oldest(s)) \/ Oldest(s).to # "poll"), NEW q \in Parser,
               pc' = [pc EXCEPT ![s] = "poll", ![q] = "row"],
               aim' = [aim EXCEPT ![q] = s],
               batch' = [batch EXCEPT ![q] = Oldest(s).records]
        PROVE  \/ Still
               \/ /\ pc'[p] = "row"
                  /\ Receive(s) /\ Oldest(s).to = "poll" /\ Oldest(s).good
                  /\ batch'[p] = Oldest(s).records
    <3>1. CASE q = p
      <4>1. pc'[p] = "row" /\ batch'[p] = Oldest(s).records
        BY <1>0, <2>2, <3>1 DEF TypeOK
      <4>2. Oldest(s).to = "poll" /\ Oldest(s).good
        BY <2>2 DEF IsCode
      <4> QED
        BY <2>0, <4>1, <4>2
    <3>2. CASE q # p
      BY <1>0, <2>0, <2>2, <3>2 DEF TypeOK
    <3> QED
      BY <3>1, <3>2
  <2> QED
    BY <1>4, <2>1, <2>2 DEF PollAnswered
<1>5. ASSUME NEW q \in Parser, ParserStep(q) PROVE Still
  <2>0. q \in Thread \ {p} /\ q # p
    BY <1>5 DEF Thread
  <2>1. CASE DbPanics(q) \/ StreamPanics(q) \/ SavePanics(q)
    BY <1>2, <2>0, <2>1 DEF DbPanics, StreamPanics, SavePanics
  <2>2. CASE InsertRow(q) \/ Fetch(q)
    BY <1>1, <2>0, <2>2 DEF InsertRow, Fetch, Goto
  <2>3. ASSUME NextRecord(q), pc[q] # "idle" PROVE pc'[p] = pc[p] /\ batch'[p] = batch[p]
    BY <1>0, <2>0, <2>3, NextRecordShape DEF BatchInv
  <2>4. CASE LookUp(q) \/ Recheck(q) \/ InsertFile(q)
    <3>1. UNCHANGED <<got, aim>>
      BY <2>4 DEF LookUp, Recheck, InsertFile
    <3>2. pc'[p] = pc[p] /\ batch'[p] = batch[p]
      <4>1. pc[q] # "idle"
        BY <2>4 DEF LookUp, Recheck, InsertFile
      <4>2. \/ NextRecord(q)
            \/ \E l \in Labels : pc' = [pc EXCEPT ![q] = l] /\ UNCHANGED batch
        BY <2>4 DEF LookUp, Recheck, InsertFile, Goto, Labels
      <4> QED
        BY <1>0, <2>0, <2>3, <4>1, <4>2 DEF TypeOK
    <3> QED
      BY <3>1, <3>2
  <2>5. CASE FetchAnswered(q)
    <3>1. CASE /\ Goto(q, "reply", "recheck") /\ UNCHANGED <<aim, batch>>
               /\ got' = [got EXCEPT ![q] = IF IsCode(Oldest(q)) THEN "command" ELSE Oldest(q).to]
      BY <1>0, <2>0, <3>1 DEF Goto, TypeOK
    <3>2. CASE pc[q] = "reply" /\ NextRecord(q) /\ UNCHANGED <<aim, got>>
      BY <2>3, <3>2
    <3> QED
      BY <2>5, <3>1, <3>2 DEF FetchAnswered
  <2> QED
    BY <1>5, <2>1, <2>2, <2>4, <2>5 DEF ParserStep
<1>6. ASSUME NEW g \in Gui, FindAgent(g) \/ GuiStep(g) PROVE Still
  <2>0. g \in Thread \ {p}
    BY DEF Thread, CenterServerAssumption
  <2>1. CASE DbPanics(g) \/ StreamPanics(g)
    BY <1>2, <2>0, <2>1 DEF DbPanics, StreamPanics
  <2>2. CASE FindAgent(g)
    <3>1. \E s \in Session : aim' = [aim EXCEPT ![g] = s]
      BY <1>0, <2>2 DEF FindAgent, TypeOK
    <3> QED
      BY <1>1, <2>0, <2>2, <3>1 DEF FindAgent, Goto
  <2>3. CASE Command(g) \/ CommandAnswered(g) \/ LogCommand(g)
    BY <1>1, <2>0, <2>3 DEF Command, CommandAnswered, LogCommand, Goto
  <2> QED
    BY <1>6, <2>1, <2>2, <2>3 DEF GuiStep
<1>7. CASE UNCHANGED vars
  BY <1>7 DEF vars
<1> QED
  BY <1>3, <1>4, <1>5, <1>6, <1>7 DEF Next

LEMMA DisturbedGrows ==
  ASSUME CenterServerAssumption, CenterInv, [Next]_vars
  PROVE  disturbed \subseteq disturbed'
<1> USE DEF sharedVars, agentVars, localVars
<1>1. ASSUME NEW t \in Thread, \/ Receive(t) \/ ReceiveNone(t) \/ Panic(t)
                               \/ \E r : Ask(t, r)
      PROVE  disturbed \subseteq disturbed'
  BY <1>1 DEF Receive, ReceiveNone, Panic, Ask
<1>2. ASSUME NEW s \in Session, Handshake(s) \/ AgentStops(s) \/ SessionStep(s)
      PROVE  disturbed \subseteq disturbed'
  BY <1>1, <1>2 DEF Handshake, AgentStops, SessionStep, Join, Enlist, Poll, PollAnswered,
                    PollUnanswered, DbPanics, StreamPanics, Thread
<1>3. ASSUME NEW p \in Parser, ParserStep(p) PROVE disturbed \subseteq disturbed'
  BY <1>1, <1>3 DEF ParserStep, InsertRow, LookUp, Fetch, FetchAnswered, Recheck, InsertFile,
                    DbPanics, StreamPanics, SavePanics, Thread
<1>4. ASSUME NEW g \in Gui, FindAgent(g) \/ GuiStep(g) PROVE disturbed \subseteq disturbed'
  BY <1>1, <1>4 DEF FindAgent, GuiStep, Command, CommandAnswered, LogCommand, DbPanics,
                    StreamPanics, Thread
<1>5. CASE UNCHANGED vars
  BY <1>5 DEF vars
<1> QED
  BY <1>2, <1>3, <1>4, <1>5 DEF Next

\* The ways a step may change the answers that are under way.
LEMMA PendingStep ==
  ASSUME CenterServerAssumption, CenterInv, [Next]_vars
  PROVE  \/ UNCHANGED pending
         \/ \E t \in Thread : Receive(t)
         \/ \E t \in Thread : \E r \in Request : Ask(t, r)
<1> USE DEF sharedVars, agentVars, localVars
<1> DEFINE P == \/ UNCHANGED pending
                \/ \E t \in Thread : Receive(t)
                \/ \E t \in Thread : \E r \in Request : Ask(t, r)
<1>1. ASSUME NEW t \in Thread, \/ Receive(t) \/ ReceiveNone(t) \/ Panic(t)
                               \/ \E r \in Request : Ask(t, r)
      PROVE  P
  BY <1>1 DEF ReceiveNone, Panic
<1>2. ASSUME NEW s \in Session, Handshake(s) \/ AgentStops(s) \/ SessionStep(s)
      PROVE  P
  BY <1>1, <1>2 DEF Handshake, AgentStops, SessionStep, Join, Enlist, Poll, PollAnswered,
                    PollUnanswered, DbPanics, StreamPanics, Thread, Request
<1>3. ASSUME NEW p \in Parser, ParserStep(p) PROVE P
  <2>1. CASE Fetch(p)
    <3>1. batch[p] \in Seq(File) /\ batch[p] # <<>>
      BY <2>1 DEF Fetch, Goto, CenterInv, BatchInv, TypeOK
    <3>2. Wanted(p) \in Request
      BY <3>1, HeadTailProperties DEF Wanted, Request
    <3> QED
      BY <1>1, <2>1, <3>2 DEF Fetch, Thread
  <2>2. CASE ~Fetch(p)
    BY <1>1, <1>3, <2>2 DEF ParserStep, InsertRow, LookUp, FetchAnswered, Recheck,
                    InsertFile, DbPanics, StreamPanics, SavePanics, Thread
  <2> QED
    BY <2>1, <2>2
<1>4. ASSUME NEW g \in Gui, FindAgent(g) \/ GuiStep(g) PROVE P
  BY <1>1, <1>4 DEF FindAgent, GuiStep, Command, CommandAnswered, LogCommand, DbPanics,
                    StreamPanics, Thread, Request
<1>5. CASE UNCHANGED vars
  BY <1>5 DEF vars
<1> QED
  BY <1>2, <1>3, <1>4, <1>5 DEF Next

LEMMA BatchStep ==
  ASSUME CenterServerAssumption, CenterInv, [Next]_vars
  PROVE  BatchInv'
<1>0. TypeOK /\ BatchInv
  BY DEF CenterInv
<1>1. ASSUME NEW p \in Parser, pc'[p] # "idle" PROVE batch'[p] # <<>>
  <2>1. CASE ~ParserStep(p)
    <3>1. CASE pc'[p] = pc[p] /\ batch'[p] = batch[p]
      BY <1>0, <1>1, <3>1 DEF BatchInv
    <3>2. ASSUME NEW s \in Session, Receive(s), Oldest(s).to = "poll", Oldest(s).good,
                 batch'[p] = Oldest(s).records
          PROVE  batch'[p] # <<>>
      <4>1. /\ pending[Stream(s)] # <<>> /\ Oldest(s) = pending[Stream(s)][1]
            /\ Stream(s) \in Session /\ pending[Stream(s)] \in Seq(Answer)
        BY <1>0, <3>2, ReceiveShape, StreamIsASession DEF Thread, TypeOK
      <4>2. 1 \in DOMAIN pending[Stream(s)]
        BY <4>1, EmptySeq
      <4> QED
        BY <1>0, <3>2, <4>1, <4>2 DEF BatchInv
    <3> QED
      BY <2>1, <3>1, <3>2, OtherParser
  <2>2. CASE ParserStep(p)
    <3>1. ASSUME Panic(p) PROVE FALSE
      BY <1>0, <1>1, <3>1 DEF Panic, TypeOK, Thread
    <3>2. ASSUME pc[p] # "idle" PROVE batch[p] # <<>>
      BY <1>0, <3>2 DEF BatchInv
    <3>3. ASSUME NextRecord(p), pc[p] # "idle" PROVE batch'[p] # <<>>
      BY <1>0, <1>1, <3>2, <3>3, NextRecordShape
    <3>4. \/ pc[p] # "idle" /\ NextRecord(p)
          \/ pc[p] # "idle" /\ UNCHANGED batch
          \/ Panic(p)
      BY <2>2 DEF ParserStep, InsertRow, LookUp, Fetch, FetchAnswered, Recheck, InsertFile,
                  DbPanics, StreamPanics, SavePanics, Goto, localVars
    <3> QED
      BY <3>1, <3>2, <3>3, <3>4
  <2> QED
    BY <2>1, <2>2
<1>3. ASSUME NEW t \in Thread, NEW r \in Request, Ask(t, r), ~UNCHANGED pending
      PROVE  \E a \in Seq(Answer) :
               /\ pending' = [pending EXCEPT ![Stream(t)] = @ \o a]
               /\ \A i \in DOMAIN a : a[i].to = r
               /\ r = "poll" => \A i \in DOMAIN a : a[i].good => a[i].records # <<>>
  <2>1. \/ UNCHANGED <<pending, disturbed>>
        \/ \E a \in Seq(Answer) :
             /\ pending' = [pending EXCEPT ![Stream(t)] = @ \o a]
             /\ \A i \in DOMAIN a : a[i].to = r
             /\ r = "poll" => \A i \in DOMAIN a : a[i].good => a[i].records # <<>>
             /\ Stream(t) \notin disturbed' => Len(a) = 1
    <3>1. TypeOK /\ Ask(t, r)
      BY <1>0, <1>3
    <3> QED
      BY <3>1, AskShape
  <2> QED
    BY <1>3, <2>1
<1>2. ASSUME NEW s \in Session, NEW i \in DOMAIN pending'[s],
             pending'[s][i].to = "poll", pending'[s][i].good
      PROVE  pending'[s][i].records # <<>>
  <2>1. CASE UNCHANGED pending
    BY <1>0, <1>2, <2>1 DEF BatchInv
  <2>2. ASSUME NEW t \in Thread, Receive(t) PROVE pending'[s][i].records # <<>>
    <3>1. /\ pending[Stream(t)] # <<>> /\ Stream(t) \in Session
          /\ pending' = [pending EXCEPT ![Stream(t)] = Tail(@)]
          /\ pending[s] \in Seq(Answer)
      BY <1>0, <2>2, ReceiveShape, StreamIsASession DEF TypeOK
    <3>2. CASE s # Stream(t)
      BY <1>0, <1>2, <3>1, <3>2 DEF BatchInv, TypeOK
    <3>3. CASE s = Stream(t)
      <4>1. pending'[s] = Tail(pending[s])
        BY <1>0, <3>1, <3>3 DEF TypeOK
      <4>2. i + 1 \in DOMAIN pending[s] /\ pending'[s][i] = pending[s][i + 1]
        <5>1. /\ pending[s] # <<>> /\ pending[s] \in Seq(Answer)
              /\ i \in DOMAIN Tail(pending[s])
          BY <1>2, <3>1, <3>3, <4>1
        <5>2. Len(Tail(pending[s])) = Len(pending[s]) - 1
              /\ i \in 1..Len(Tail(pending[s]))
          BY <5>1, HeadTailProperties
        <5>3. i + 1 \in DOMAIN pending[s] /\ Tail(pending[s])[i] = pending[s][i + 1]
          BY <5>1, <5>2
        <5> QED
          BY <4>1, <5>3
      <4> QED
        BY <1>0, <1>2, <4>2 DEF BatchInv
    <3> QED
      BY <3>2, <3>3
  <2>3. ASSUME NEW t \in Thread, NEW r \in Request, Ask(t, r), ~UNCHANGED pending
        PROVE  pending'[s][i].records # <<>>
    <3>1. PICK a \in Seq(Answer) :
            /\ pending' = [pending EXCEPT ![Stream(t)] = @ \o a]
            /\ \A j \in DOMAIN a : a[j].to = r
            /\ r = "poll" => \A j \in DOMAIN a : a[j].good => a[j].records # <<>>
      BY <1>3, <2>3
    <3>2. Stream(t) \in Session /\ pending[s] \in Seq(Answer)
      BY <1>0, StreamIsASession DEF TypeOK
    <3>3. CASE s # Stream(t)
      BY <1>0, <1>2, <3>1, <3>2, <3>3 DEF BatchInv, TypeOK
    <3>4. CASE s = Stream(t)
      <4>1. pending'[s] = pending[s] \o a
        BY <1>0, <3>1, <3>2, <3>4 DEF TypeOK
      <4>2. CASE i \in DOMAIN pending[s]
        <5>1. pending'[s][i] = pending[s][i]
          BY <3>2, <4>1, <4>2
        <5> QED
          BY <1>0, <1>2, <4>2, <5>1 DEF BatchInv
      <4>3. CASE i \notin DOMAIN pending[s]
        <5>1. i - Len(pending[s]) \in DOMAIN a /\ pending'[s][i] = a[i - Len(pending[s])]
          BY <1>2, <3>1, <3>2, <4>1, <4>3
        <5> QED
          BY <1>2, <3>1, <5>1
      <4> QED
        BY <4>2, <4>3
    <3> QED
      BY <3>3, <3>4
  <2> QED
    BY <2>1, <2>2, <2>3, PendingStep
<1> QED
  BY <1>1, <1>2 DEF BatchInv

LEMMA GotStep ==
  ASSUME CenterServerAssumption, CenterInv, [Next]_vars
  PROVE  GotInv'
<1>0. TypeOK /\ GotInv /\ disturbed \subseteq disturbed'
  BY DisturbedGrows DEF CenterInv
<1> DEFINE Ok(p) ==
      /\ pc[p] \in {"recheck", "insert"} /\ aim[p] \notin disturbed
           => got[p] \in {Wanted(p), "command"}
      /\ pc[p] = "insert" => got[p] # "command"
<1>1. SUFFICES ASSUME NEW p \in Parser PROVE Ok(p)'
  BY <1>1 DEF GotInv
<1>2. Ok(p)
  BY <1>0 DEF GotInv
<1>3. CASE ~ParserStep(p)
  <2>1. CASE pc'[p] = pc[p] /\ batch'[p] = batch[p] /\ got'[p] = got[p] /\ aim'[p] = aim[p]
    BY <1>0, <1>2, <2>1 DEF Wanted
  <2>2. CASE pc'[p] = "row"
    BY <2>2
  <2> QED
    BY <1>3, <2>1, <2>2, OtherParser
<1>4. ASSUME NEW l, pc' = [pc EXCEPT ![p] = l], l \notin {"recheck", "insert"} PROVE Ok(p)'
  BY <1>0, <1>4 DEF TypeOK, Thread
<1>5. ASSUME NextRecord(p) PROVE Ok(p)'
  <2>1. PICK l \in {"idle", "row"} : pc' = [pc EXCEPT ![p] = l]
    BY <1>5 DEF NextRecord
  <2> QED
    BY <1>4, <2>1
<1>6. CASE \/ InsertRow(p) \/ LookUp(p) \/ Fetch(p) \/ InsertFile(p)
           \/ DbPanics(p) \/ StreamPanics(p) \/ SavePanics(p)
  <2>1. \/ NextRecord(p)
        \/ \E l \in {"look", "fetch", "reply", "idle", "dead"} : pc' = [pc EXCEPT ![p] = l]
    <3>1. CASE DbPanics(p) \/ StreamPanics(p) \/ SavePanics(p)
      BY <3>1 DEF DbPanics, StreamPanics, SavePanics, Panic
    <3>2. CASE InsertRow(p) \/ LookUp(p) \/ Fetch(p) \/ InsertFile(p)
      <4>1. \/ NextRecord(p)
            \/ pc' = [pc EXCEPT ![p] = "look"] \/ pc' = [pc EXCEPT ![p] = "fetch"]
            \/ pc' = [pc EXCEPT ![p] = "reply"]
        BY <3>2 DEF InsertRow, LookUp, Fetch, InsertFile, Goto
      <4> QED
        BY <4>1
    <3> QED
      BY <1>6, <3>1, <3>2
  <2> HIDE DEF Ok
  <2> QED
    BY <1>4, <1>5, <2>1
<1>7. CASE FetchAnswered(p)
  <2>1. CASE pc[p] = "reply" /\ NextRecord(p)
    BY <1>5, <2>1
  <2>2. CASE /\ Goto(p, "reply", "recheck") /\ Receive(p)
             /\ got' = [got EXCEPT ![p] = IF IsCode(Oldest(p)) THEN "command" ELSE Oldest(p).to]
             /\ UNCHANGED <<aim, batch>>
    <3>1. p \in Thread /\ pc[p] = "reply" /\ pc'[p] = "recheck" /\ Stream(p) = aim[p]
      BY <1>0, <2>2, CenterServerAssumption
      DEF Goto, TypeOK, Thread, Stream, CenterServerAssumption
    <3>2. aim[p] \notin disturbed => Oldest(p).to = Wanted(p)
      <4>1. HolderInv /\ PairInv
        BY DEF CenterInv
      <4>2. /\ pending[aim[p]] # <<>> /\ aim[p] \in Session
            /\ Oldest(p) = Head(pending[aim[p]])
        BY <1>0, <2>2, <3>1 DEF Receive, TypeOK, Oldest
      <4>3. ASSUME aim[p] \notin disturbed PROVE Oldest(p).to = Wanted(p)
        <5>1. PICK u \in Thread : /\ pc[u] \in Asking /\ Stream(u) = aim[p]
                                  /\ Head(pending[aim[p]]).to = Asked(u)
          BY <4>1, <4>2, <4>3 DEF PairInv
        <5>2. u = p
          BY <3>1, <4>1, <5>1, OneHolder DEF Asking, Held
        <5>3. Asked(p) = Wanted(p)
          BY CenterServerAssumption DEF Asked, CenterServerAssumption
        <5> QED
          BY <4>2, <5>1, <5>2, <5>3
      <4> QED
        BY <4>3
    <3>3. got'[p] = IF IsCode(Oldest(p)) THEN "command" ELSE Oldest(p).to
      BY <1>0, <2>2 DEF TypeOK
    <3>4. aim'[p] = aim[p] /\ Wanted(p)' = Wanted(p)
      BY <2>2 DEF Wanted
    <3> QED
      BY <1>0, <3>1, <3>2, <3>3, <3>4
  <2> QED
    BY <1>7, <2>1, <2>2 DEF FetchAnswered
<1>8. CASE Recheck(p)
  <2>1. CASE NextRecord(p)
    BY <1>5, <2>1
  <2>2. CASE Goto(p, "recheck", "insert") /\ got[p] # "command" /\ UNCHANGED <<batch, aim, got>>
    <3>1. pc[p] = "recheck" /\ Wanted(p)' = Wanted(p)
      BY <2>2 DEF Goto, Wanted
    <3> QED
      BY <1>0, <1>2, <2>2, <3>1
  <2> QED
    BY <1>8, <2>1, <2>2 DEF Recheck
<1> QED
  BY <1>3, <1>6, <1>7, <1>8 DEF ParserStep

-----------------------------------------------------------------------------
(* Panics, the registry and the file table                                 *)

\* A session in the registry is being polled, unless the database has taken it.
RegistryInv ==
    \A s \in registry : \/ pc[s] \in {"enlist", "poll", "answer"}
                        \/ pc[s] = "dead" /\ dbPoisoned

LEMMA PoisonStep ==
  ASSUME CenterServerAssumption, CenterInv, [Next]_vars
  PROVE  PoisonInv' /\ (dbPoisoned => dbPoisoned')
<1> USE DEF sharedVars, agentVars, localVars
<1> DEFINE P == PoisonInv' /\ (dbPoisoned => dbPoisoned')
<1>0. PoisonInv
  BY DEF CenterInv
<1>1. CASE UNCHANGED <<poisoned, dbPoisoned>>
  BY <1>0, <1>1 DEF PoisonInv, PoisonComesFromDb
<1>2. ASSUME NEW t \in Thread, DbPanics(t) PROVE P
  BY <1>0, <1>2 DEF DbPanics, PoisonInv, PoisonComesFromDb
<1>3. ASSUME NEW t \in Thread, StreamPanics(t) \/ SavePanics(t) PROVE P
  <2>1. Panic(t) /\ pc[t] \notin Asking /\ pc[t] \notin Held /\ UNCHANGED dbPoisoned
    BY <1>3 DEF StreamPanics, SavePanics, Asking, Held
  <2>2. UNCHANGED poisoned
    BY <2>1, PanicStep
  <2> QED
    BY <1>1, <2>1, <2>2
<1>4. ASSUME NEW s \in Session, Handshake(s) \/ AgentStops(s) \/ SessionStep(s) PROVE P
  BY <1>1, <1>2, <1>3, <1>4 DEF Handshake, AgentStops, SessionStep, Join, Enlist, Poll, Ask,
                                PollAnswered, PollUnanswered, Thread
<1>5. ASSUME NEW p \in Parser, ParserStep(p) PROVE P
  BY <1>1, <1>2, <1>3, <1>5 DEF ParserStep, InsertRow, LookUp, Fetch, Ask, FetchAnswered,
                                Recheck, InsertFile, Thread
<1>6. ASSUME NEW g \in Gui, FindAgent(g) \/ GuiStep(g) PROVE P
  BY <1>1, <1>2, <1>3, <1>6 DEF FindAgent, GuiStep, Command, Ask, CommandAnswered, LogCommand,
                                Thread
<1>7. CASE UNCHANGED vars
  BY <1>1, <1>7 DEF vars
<1> QED
  BY <1>4, <1>5, <1>6, <1>7 DEF Next

LEMMA CenterInvInit == Init => CenterInv /\ RegistryInv /\ SavedFileIsTheFile
<1> SUFFICES ASSUME Init PROVE CenterInv /\ RegistryInv /\ SavedFileIsTheFile
  OBVIOUS
<1>1. TypeOK /\ LabelInv
  BY TypeInit
<1>2. \A t \in Thread : pc[t] \in {"connect", "idle"}
  BY DEF Init
<1>3. HolderInv
  BY <1>2 DEF Init, HolderInv, Held
<1>4. BatchInv
  BY CenterServerAssumption DEF Init, BatchInv, Thread, CenterServerAssumption
<1>5. PairInv /\ RegistryInv
  BY DEF Init, PairInv, RegistryInv
<1>6. GotInv
  BY <1>2 DEF GotInv, Thread
<1>7. PoisonInv
  BY DEF Init, PoisonInv, PoisonComesFromDb
<1>8. SavedFileIsTheFile
  <2>1. \A f \in File : table[f] = <<>>
    BY DEF Init
  <2> QED
    BY <2>1 DEF SavedFileIsTheFile
<1> QED
  BY <1>1, <1>3, <1>4, <1>5, <1>6, <1>7, <1>8 DEF CenterInv

LEMMA CenterInvStep == CenterInv /\ [Next]_vars => CenterInv'
<1> SUFFICES ASSUME CenterInv, [Next]_vars PROVE CenterInv'
  OBVIOUS
<1>1. TypeOK' /\ LabelInv'
  BY CenterServerAssumption, TypeStep DEF CenterInv
<1>2. HolderInv' /\ PairInv'
  BY CenterServerAssumption, HolderPairStep
<1>3. BatchInv' /\ GotInv' /\ PoisonInv'
  BY CenterServerAssumption, BatchStep, GotStep, PoisonStep
<1> QED
  BY <1>1, <1>2, <1>3 DEF CenterInv

LEMMA RegistryStep ==
  ASSUME CenterServerAssumption, CenterInv, RegistryInv, [Next]_vars
  PROVE  RegistryInv'
<1> USE CenterServerAssumption DEF sharedVars, agentVars, localVars
<1>0. TypeOK /\ LabelInv /\ (dbPoisoned => dbPoisoned')
  BY PoisonStep DEF CenterInv
<1>1. CASE UNCHANGED registry /\ \A s \in Session : pc'[s] = pc[s]
  BY <1>0, <1>1 DEF RegistryInv, TypeOK
<1>2. ASSUME NEW u \in Thread \ Session, NEW l, pc' = [pc EXCEPT ![u] = l], UNCHANGED registry
      PROVE  RegistryInv'
  <2>1. \A s \in Session : pc'[s] = pc[s]
    BY <1>0, <1>2 DEF TypeOK, Thread
  <2> QED
    BY <1>1, <1>2, <2>1
<1>3. ASSUME NEW s \in Session, NEW l, pc' = [pc EXCEPT ![s] = l], UNCHANGED registry,
             s \in registry =>
                \/ l \in {"enlist", "poll", "answer"}
                \/ l = "dead" /\ dbPoisoned'
      PROVE  RegistryInv'
  BY <1>0, <1>3 DEF RegistryInv, TypeOK, Thread
<1>4. ASSUME NEW s \in Session, Handshake(s) \/ AgentStops(s) \/ SessionStep(s)
      PROVE  RegistryInv'
  <2>1. CASE AgentStops(s)
    BY <1>1, <2>1 DEF AgentStops
  <2>2. CASE Handshake(s)
    <3>1. s \notin registry
      BY <2>2 DEF Handshake, Goto, RegistryInv
    <3> QED
      BY <1>3, <2>2, <3>1 DEF Handshake, Goto
  <2>3. CASE Join(s)
    BY <1>0, <2>3 DEF Join, Goto, RegistryInv, TypeOK, Thread
  <2>4. CASE PollUnanswered(s)
    BY <1>0, <2>4 DEF PollUnanswered, Goto, RegistryInv, TypeOK, Thread
  <2>5. CASE Enlist(s) \/ Poll(s)
    BY <1>3, <2>5 DEF Enlist, Poll, Ask, Goto
  <2>6. CASE PollAnswered(s)
    <3>1. CASE Goto(s, "answer", "poll")
      BY <1>3, <2>6, <3>1 DEF PollAnswered, Goto
    <3>2. ASSUME NEW p \in Parser, pc' = [pc EXCEPT ![s] = "poll", ![p] = "row"]
          PROVE  RegistryInv'
      <4>1. \A x \in Session : pc'[x] = IF x = s THEN "poll" ELSE pc[x]
        BY <1>0, <3>2 DEF TypeOK, Thread, CenterServerAssumption
      <4> QED
        BY <1>0, <2>6, <4>1 DEF PollAnswered, RegistryInv, TypeOK
    <3> QED
      BY <2>6, <3>1, <3>2 DEF PollAnswered
  <2>7. CASE DbPanics(s) \/ StreamPanics(s)
    <3>1. pc' = [pc EXCEPT ![s] = "dead"] /\ UNCHANGED registry
      BY <2>7 DEF DbPanics, StreamPanics, Panic, CenterServerAssumption
    <3>2. dbPoisoned'
      BY <2>7 DEF DbPanics, StreamPanics, CenterInv, PoisonInv, PoisonComesFromDb
    <3> QED
      BY <1>3, <3>1, <3>2
  <2> QED
    BY <1>4, <2>1, <2>2, <2>3, <2>4, <2>5, <2>6, <2>7 DEF SessionStep
<1>5. ASSUME NEW p \in Parser, ParserStep(p) PROVE RegistryInv'
  <2>1. p \in Thread \ Session
    BY DEF Thread, CenterServerAssumption
  <2>2. /\ UNCHANGED registry
        /\ \E l : pc' = [pc EXCEPT ![p] = l]
    BY <1>5 DEF ParserStep, InsertRow, LookUp, Fetch, Ask, FetchAnswered, Recheck, InsertFile,
                DbPanics, StreamPanics, SavePanics, Panic, Goto, NextRecord
  <2> QED
    BY <1>2, <2>1, <2>2
<1>6. ASSUME NEW g \in Gui, FindAgent(g) \/ GuiStep(g) PROVE RegistryInv'
  <2>1. g \in Thread \ Session
    BY DEF Thread, CenterServerAssumption
  <2>2. /\ UNCHANGED registry
        /\ \E l : pc' = [pc EXCEPT ![g] = l]
    BY <1>6 DEF FindAgent, GuiStep, Command, Ask, CommandAnswered, LogCommand, DbPanics,
                StreamPanics, Panic, Goto
  <2> QED
    BY <1>2, <2>1, <2>2
<1>7. CASE UNCHANGED vars
  BY <1>1, <1>7 DEF vars
<1> QED
  BY <1>4, <1>5, <1>6, <1>7 DEF Next

LEMMA SavedStep ==
  ASSUME CenterServerAssumption, CenterInv, SavedFileIsTheFile, [Next]_vars
  PROVE  SavedFileIsTheFile'
<1> USE DEF sharedVars, agentVars, localVars
<1>0. TypeOK /\ disturbed \subseteq disturbed'
  BY DisturbedGrows DEF CenterInv
<1>1. CASE UNCHANGED table
  BY <1>0, <1>1 DEF SavedFileIsTheFile
<1>2. ASSUME NEW p \in Parser, InsertFile(p) PROVE SavedFileIsTheFile'
  <2> SUFFICES ASSUME disturbed' = {}, NEW f \in File, NEW i \in DOMAIN table'[f]
               PROVE  table'[f][i] = f
    BY DEF SavedFileIsTheFile
  <2>1. disturbed = {} /\ got[p] = Wanted(p)
    BY <1>0, <1>2 DEF InsertFile, CenterInv, GotInv
  <2>2. table[f] \in Seq(Request) /\ \A j \in DOMAIN table[f] : table[f][j] = f
    BY <1>0, <2>1 DEF SavedFileIsTheFile, TypeOK
  <2>3. CASE f = Wanted(p)
    <3>1. table'[f] = Append(table[f], f)
      BY <1>0, <1>2, <2>1, <2>3 DEF InsertFile, TypeOK
    <3> QED
      BY <2>2, <3>1
  <2>4. CASE f # Wanted(p)
    <3>1. table'[f] = table[f]
      BY <1>0, <1>2, <2>4 DEF InsertFile, TypeOK
    <3> QED
      BY <2>2, <3>1
  <2> QED
    BY <2>3, <2>4
<1>3. ASSUME NEW s \in Session, Handshake(s) \/ AgentStops(s) \/ SessionStep(s)
      PROVE  UNCHANGED table
  BY <1>3 DEF Handshake, AgentStops, SessionStep, Join, Enlist, Poll, Ask, PollAnswered,
              PollUnanswered, DbPanics, StreamPanics, Panic
<1>4. ASSUME NEW p \in Parser, ParserStep(p) PROVE UNCHANGED table \/ InsertFile(p)
  BY <1>4 DEF ParserStep, InsertRow, LookUp, Fetch, Ask, FetchAnswered, Recheck, DbPanics,
              StreamPanics, SavePanics, Panic
<1>5. ASSUME NEW g \in Gui, FindAgent(g) \/ GuiStep(g) PROVE UNCHANGED table
  BY <1>5 DEF FindAgent, GuiStep, Command, Ask, CommandAnswered, LogCommand, DbPanics,
              StreamPanics, Panic
<1>6. CASE UNCHANGED vars
  BY <1>1, <1>6 DEF vars
<1> QED
  BY <1>1, <1>2, <1>3, <1>4, <1>5, <1>6 DEF Next

-----------------------------------------------------------------------------
(* Theorems                                                                *)

LEMMA CenterInvAlways == Spec => [](CenterInv /\ RegistryInv /\ SavedFileIsTheFile)
<1>1. CenterInv /\ RegistryInv /\ SavedFileIsTheFile /\ [Next]_vars
        => (CenterInv /\ RegistryInv /\ SavedFileIsTheFile)'
  BY CenterServerAssumption, CenterInvStep, RegistryStep, SavedStep
<1> QED
  BY <1>1, CenterInvInit, PTL DEF Spec

\* Every thread stays within its own program and every shared variable within
\* its type, whatever the agents answer and whoever panics.
THEOREM CenterTypeCorrect == Spec => []TypeOK
<1>1. CenterInv => TypeOK
  BY DEF CenterInv
<1> QED
  BY <1>1, CenterInvAlways, PTL

\* A thread that reads an answer from TCP_STREAM_Instance holds the stream,
\* and unless an answer to an earlier request is still under way it reads the
\* answer to its own request, for any number of threads that share streams.
THEOREM AnswersStayPaired == Spec => []AnswersMatch
<1>1. CenterInv => AnswersMatch
  <2> SUFFICES ASSUME CenterInv, NEW t \in Thread, pc[t] \in {"answer", "reply", "result"}
               PROVE  /\ lock[Stream(t)] = t
                      /\ Stream(t) \notin disturbed /\ pending[Stream(t)] # <<>>
                           => Oldest(t).to = Asked(t)
    BY DEF AnswersMatch, Waiting
  <2>1. HolderInv /\ PairInv /\ Stream(t) \in Session
    BY StreamIsASession DEF CenterInv
  <2>2. pc[t] \in Held
    BY DEF Held
  <2>3. ASSUME Stream(t) \notin disturbed, pending[Stream(t)] # <<>>
        PROVE  Oldest(t).to = Asked(t)
    <3>1. PICK u \in Thread : /\ pc[u] \in Asking /\ Stream(u) = Stream(t)
                              /\ Head(pending[Stream(t)]).to = Asked(u)
      BY <2>1, <2>3 DEF PairInv
    <3>2. u = t
      BY <2>1, <2>2, <3>1, OneHolder DEF Asking, Held
    <3> QED
      BY <3>1, <3>2 DEF Oldest
  <2> QED
    BY <2>1, <2>2, <2>3 DEF HolderInv
<1> QED
  BY <1>1, CenterInvAlways, PTL

\* An executable is saved under its own SHA256 as long as no answer has been
\* left on a stream, however many parsers fetch over it at the same time.
THEOREM SavedFilesAreRight == Spec => []SavedFileIsTheFile
  BY CenterInvAlways, PTL

\* A thread that panics while it holds a stream panicked on the database.
THEOREM OnlyTheDatabasePoisons == Spec => []PoisonComesFromDb
<1>1. CenterInv => PoisonComesFromDb
  BY DEF CenterInv, PoisonInv
<1> QED
  BY <1>1, CenterInvAlways, PTL

\* With the connection poisoned, a thread that moves on from a statement on the
\* database has died on it.
LEMMA PoisonedStatement ==
  ASSUME CenterServerAssumption, TypeOK, LabelInv, dbPoisoned, [Next]_vars,
         NEW t \in Thread, pc[t] \in AtDb, pc'[t] # pc[t]
  PROVE  pc'[t] = (IF t \in Parser THEN "idle" ELSE "dead") /\ UNCHANGED batch
<1> USE CenterServerAssumption DEF TypeOK, AtDb, sharedVars, agentVars, localVars
<1>1. ASSUME DbPanics(t)
      PROVE  pc'[t] = (IF t \in Parser THEN "idle" ELSE "dead") /\ UNCHANGED batch
  BY <1>1 DEF DbPanics, Panic
<1>2. ASSUME NEW u \in Thread, NEW l, pc' = [pc EXCEPT ![u] = l] PROVE u = t
  BY <1>2
<1>3. ASSUME NEW s \in Session, Handshake(s) \/ AgentStops(s) \/ SessionStep(s)
      PROVE  DbPanics(t)
  <2>0. s \in Thread
    BY DEF Thread
  <2>1. CASE PollAnswered(s)
    <3>1. pc' = [pc EXCEPT ![s] = "poll"] \/ \E p \in Parser :
             pc[p] = "idle" /\ pc' = [pc EXCEPT ![s] = "poll", ![p] = "row"]
      BY <2>1 DEF PollAnswered, Goto
    <3>2. pc[s] = "answer"
      BY <2>1 DEF PollAnswered
    <3> QED
      BY <2>0, <3>1, <3>2 DEF Thread
  <2>2. CASE Join(s) \/ Enlist(s) \/ Poll(s) \/ PollUnanswered(s) \/ Handshake(s)
    <3>1. \E l : pc' = [pc EXCEPT ![s] = l] /\ pc[s] \in {"connect", "join", "poll", "answer"}
      BY <2>2 DEF Join, Enlist, Poll, PollUnanswered, Handshake, Goto
    <3> QED
      BY <1>2, <2>0, <3>1
  <2>3. CASE StreamPanics(s)
    <3>1. pc' = [pc EXCEPT ![s] = "dead"] /\ pc[s] \in {"poll", "fetch", "command"}
      BY <2>3 DEF StreamPanics, Panic, CenterServerAssumption
    <3> QED
      BY <1>2, <2>0, <3>1
  <2>4. CASE DbPanics(s)
    <3>1. pc' = [pc EXCEPT ![s] = "dead"]
      BY <2>4 DEF DbPanics, Panic, CenterServerAssumption
    <3> QED
      BY <1>2, <2>0, <2>4, <3>1
  <2>5. ~AgentStops(s)
    BY DEF AgentStops
  <2> QED
    BY <1>3, <2>1, <2>2, <2>3, <2>4, <2>5 DEF SessionStep
<1>4. ASSUME NEW p \in Parser, ParserStep(p) PROVE DbPanics(t)
  <2>1. \E l : pc' = [pc EXCEPT ![p] = l]
    BY <1>4 DEF ParserStep, InsertRow, LookUp, Fetch, FetchAnswered, Recheck, InsertFile,
                DbPanics, StreamPanics, SavePanics, Panic, Goto, NextRecord
  <2>2. p = t
    BY <1>2, <2>1 DEF Thread
  <2>3. ~StreamPanics(p)
    BY <2>2 DEF StreamPanics
  <2>4. CASE SavePanics(p)
    BY <2>2, <2>4 DEF SavePanics, DbPanics
  <2> QED
    BY <1>4, <2>2, <2>3, <2>4
    DEF ParserStep, InsertRow, LookUp, Fetch, FetchAnswered, Recheck, InsertFile, Goto
<1>5. ASSUME NEW g \in Gui, FindAgent(g) \/ GuiStep(g) PROVE DbPanics(t)
  <2>1. \E l : pc' = [pc EXCEPT ![g] = l]
    BY <1>5 DEF FindAgent, GuiStep, Command, CommandAnswered, LogCommand,
                DbPanics, StreamPanics, Panic, Goto
  <2>2. g = t
    BY <1>2, <2>1 DEF Thread
  <2> QED
    BY <1>5, <2>2 DEF FindAgent, GuiStep, Command, CommandAnswered, LogCommand, StreamPanics, Goto
<1>6. ~UNCHANGED vars
  BY DEF vars
<1> QED
  BY <1>1, <1>3, <1>4, <1>5, <1>6 DEF Next

\* A session that dies while its agent is registered (it stays there for ever) has
\* died of the database; from then on nobody gets through a statement.
THEOREM LostSessionsStopTheServer == Spec => LostSessionStopsTheServer
<1>1. CenterInv /\ RegistryInv /\ [Next]_vars =>
        [(\E s \in registry : pc[s] = "dead") =>
            \A t \in Thread :
               pc[t] \in AtDb /\ pc'[t] # pc[t] =>
                   /\ pc'[t] = IF t \in Parser THEN "idle" ELSE "dead"
                   /\ UNCHANGED batch]_vars
  BY CenterServerAssumption, PoisonedStatement DEF RegistryInv, CenterInv
<1> QED
  BY <1>1, CenterInvAlways, PTL DEF Spec, LostSessionStopsTheServer
=============================================================================
