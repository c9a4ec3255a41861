----------------------------- MODULE ActionRules -----------------------------
(***************************************************************************)
(* The action rules of the agent ("block the termination of the process    *)
(* with this SHA256"), their users, and the directory scan that shares the *)
(* list with them:                                                         *)
(*                                                                         *)
(*   Comm      communication_server, with the rule commands of the server  *)
(*   Loader    IoControl for the loader's first request, which protects    *)
(*             the loader itself                                           *)
(*   Scanner   ListDirectories_with_extension_signature                    *)
(*   Handlers  threads that open or duplicate a process handle, inside of  *)
(*             PreOperationCallback                                        *)
(*                                                                         *)
(* A look-up tests the list without the mutex and searches it with the     *)
(* mutex; between that and what follows from it anything may happen.  A    *)
(* NULL that is followed stops the machine (fault).  At this commit        *)
(* DriverEntry has the registration of the callback and the scan commented *)
(* out; a model without Handlers and Scan is that program.                 *)
(***************************************************************************)
EXTENDS ParallelList

CONSTANTS
    Handlers,
    Image,       \* the SHA256s of the files processes are started from
    LoaderImage, \* that of the loader
    NoImage,     \* the 65 zeros of a SHA256 that could not be computed
    TooLong,     \* a SHA256 of more than 65 bytes
    Commands,    \* the rule commands of the server: sequences of fields
    Asks,        \* handles asked for: op, OriginalDesiredAccess, DesiredAccess
    Files,       \* the paths a scan finds, in its order
    MaxWork,     \* bound: commands of the server and scans, together
    MaxShort     \* bound: allocations that fail, threads that do not start

Feature == {"Create", "Remove"}

Rule == [block : BOOLEAN, sha : Image, feature : Feature]

Right == {"PROCESS_CREATE_PROCESS", "PROCESS_TERMINATE", "PROCESS_VM_OPERATION",
          "PROCESS_VM_READ", "PROCESS_VM_WRITE"}

Ask == [op : {"CREATE", "DUPLICATE"}, original : SUBSET Right, desired : SUBSET Right]

ASSUME ActionRulesAssumption ==
    /\ NoImage \notin Image /\ TooLong \notin Image /\ LoaderImage \in Image
    /\ \A fields \in Commands :
          fields \in Seq(STRING) /\ (Len(fields) >= 4 => fields[3] \in Image \cup {TooLong})
    /\ Asks \subseteq {ask \in Ask : ask.desired \subseteq ask.original}
    /\ Files \in Seq(Contents) /\ Contents = Rule \cup ToSet(Files)
    /\ Handlers \cap {"Comm", "Loader", "Scanner"} = {}
    /\ MaxWork \in Nat /\ MaxShort \in Nat

Comm == "Comm"
Loader == "Loader"
Scanner == "Scanner"
Adder == {Comm, Loader}
Thread == {Comm, Loader, Scanner} \cup Handlers

VARIABLES
    at,          \* at[t]: where thread t is
    actionNode,  \* Dynamic_Node_Action_Process_Node
    wanted,      \* wanted[t]: the rule thread t works on
    command,     \* the fields of the server's command
    handle,      \* handle[h]: the Parameters of the operation, as they are now
    asked,       \* history: asked[h]: as they were when the callback began
    image,       \* image[h]: the SHA256 the worker has computed
    before,      \* history: before[h]: the rules in force when it began
    work,        \* how many commands and scans there have been
    unlisted,    \* what the scan has not listed yet
    output,      \* its output pointer
    isInit,      \* its is_init
    shortages,   \* allocations and threads that have failed
    fault        \* the machine has stopped

adding == <<wanted, command>>
handling == <<handle, asked, image, before>>
scanning == <<unlisted, output, isInit>>
bounds == <<work, shortages>>
vars == <<list, at, actionNode, adding, handling, scanning, bounds, fault>>

Place == {"idle", "parse", "look", "search", "again", "searchAgain", "test", "first",
          "append", "remove", "count", "spin", "over", "hash", "stuck", "skip", "mask",
          "done", "scan", "clean"}

NoAsk == [op |-> "CREATE", original |-> {}, desired |-> {}]

Blocked(sha, feature) == [block |-> TRUE, sha |-> sha, feature |-> feature]

(* The rules that a look-up finds.                                         *)
InForce ==
    IF Listed THEN {node[n].data : n \in {m \in ToSet(Chain(start)) : node[m].tag = "Actn"}}
    ELSE {}

Short == shortages > 0 \/ reused

TypeOK ==
    /\ ListTypeOK
    /\ at \in [Thread -> Place]
    /\ actionNode \in Pointer
    /\ wanted \in [Thread -> [block : BOOLEAN, sha : Image \cup {NoImage}, feature : Feature]]
    /\ command \in Commands \cup {<<>>}
    /\ handle \in [Handlers -> Ask] /\ asked \in [Handlers -> Ask]
    /\ image \in [Handlers -> Image \cup {NoImage}]
    /\ before \in [Handlers -> SUBSET Rule]
    /\ work \in 0..MaxWork
    /\ unlisted \in Seq(ToSet(Files))
    /\ output \in Pointer
    /\ isInit \in BOOLEAN
    /\ shortages \in 0..MaxShort
    /\ fault \in BOOLEAN

Init ==
    /\ ListInit
    /\ at = [t \in Thread |-> "idle"]
    /\ actionNode = Null
    /\ wanted = [t \in Thread |-> Blocked(NoImage, "Remove")]
    /\ command = <<>>
    /\ handle = [h \in Handlers |-> NoAsk] /\ asked = [h \in Handlers |-> NoAsk]
    /\ image = [h \in Handlers |-> NoImage]
    /\ before = [h \in Handlers |-> {}]
    /\ work = 0
    /\ unlisted = <<>>
    /\ output = Null /\ isInit = TRUE
    /\ shortages = 0
    /\ fault = FALSE

-----------------------------------------------------------------------------

(* The mutex of the list, taken for ever by the loop of lines 294-300 that *)
(* does not advance.                                                       *)
Held == at[Comm] = "spin"

Is(t, place) == ~fault /\ at[t] = place

Go(t, from, to) == Is(t, from) /\ at' = [at EXCEPT ![t] = to]

Shortage(short) ==
    /\ short => shortages < MaxShort
    /\ shortages' = IF short THEN shortages + 1 ELSE shortages

(* The tests of Get_Node_2Dim before it takes the mutex.                   *)
Glance(t, from, search, missing) ==
    /\ Go(t, from, IF Listed THEN search ELSE missing)
    /\ UNCHANGED <<list, actionNode, adding, handling, scanning, bounds, fault>>

(* is_exist_program_Action_Process_Node: the look-up proper.  What it      *)
(* finds decides which section the next rule is appended to.               *)
Find(t, from, found, missing) ==
    LET hit == NodeWith("Actn", wanted[t])
    IN  /\ start # Null /\ ~Held
        /\ Go(t, from, IF hit # Null THEN found ELSE missing)
        /\ actionNode' = IF hit # Null THEN node[hit].first ELSE actionNode
        /\ UNCHANGED <<list, adding, handling, scanning, bounds, fault>>

(* The places where external_start_node is followed with the mutex held:   *)
(* it was tested without it.                                               *)
Walks(t) == at[t] \in {"search", "searchAgain", "count", "clean"} /\ start = Null /\ ~Held

(* Those where an output pointer is: that of the rules was tested before   *)
(* the mutex was taken (FirstRule may set it to NULL again), that of a     *)
(* scan is NULL if its first node could not be made.                       *)
Extends(t) ==
    /\ ~Held
    /\ \/ at[t] \in {"append", "count"} /\ actionNode = Null
       \/ at[t] = "scan" /\ unlisted # <<>> /\ ~isInit /\ output = Null

(* A command is refused if its SHA256 is too long or its type not known.   *)
FeatureNamed(type) ==
    CASE type = "process_Create" -> "Create"
      [] type = "process_Remove" -> "Remove"
      [] OTHER                   -> "None"

Refused ==
    \/ Len(command) >= 3 /\ command[3] = TooLong
    \/ Len(command) >= 4 /\ FeatureNamed(command[4]) = "None"

(* Each field of a command is followed without a test that it is there.    *)
Fields(t) == at[t] = "parse" /\ Len(command) < 4 /\ ~Refused

(* A thread follows NULL.                                                  *)
FollowNull(t) ==
    /\ ~fault
    /\ Walks(t) \/ Extends(t) \/ Fields(t)
    /\ fault' = TRUE
    /\ UNCHANGED <<list, at, actionNode, adding, handling, scanning, bounds>>

-----------------------------------------------------------------------------

(* communication_server gets a rule command.                              *)
Receive ==
    /\ work < MaxWork
    /\ Go(Comm, "idle", "parse")
    /\ work' = work + 1
    /\ command' \in Commands
    /\ UNCHANGED <<list, actionNode, wanted, handling, scanning, shortages, fault>>

(* Mutant: nothing is refused.                                             *)
ParseUnknown ==
    /\ Len(command) >= 4
    /\ Go(Comm, "parse", IF command[1] = "DELETE" THEN "again" ELSE "look")
    /\ wanted' = [wanted EXCEPT ![Comm] = [block   |-> command[2] = "BLOCK",
                                           sha     |-> command[3],
                                           feature |-> FeatureNamed(command[4])]]
    /\ command' = <<>>
    /\ UNCHANGED <<list, actionNode, handling, scanning, bounds, fault>>

(* Make_ActionProcessNode_from_length_based_linked_list, and the branch on *)
(* what it says of the first field: "DELETE" registers.                    *)
Parse ==
    /\ Refused \/ Len(command) >= 4
    /\ Go(Comm, "parse", IF Refused THEN "idle"
                         ELSE IF command[1] = "DELETE" THEN "again" ELSE "look")
    /\ wanted' = IF Refused THEN wanted
                 ELSE [wanted EXCEPT ![Comm] = [block   |-> command[2] = "BLOCK",
                                                sha     |-> command[3],
                                                feature |-> FeatureNamed(command[4])]]
    /\ command' = <<>>
    /\ UNCHANGED <<list, actionNode, handling, scanning, bounds, fault>>

(* IoControl with is_init: the rule that protects the loader; none if its  *)
(* file cannot be read.                                                    *)
Protect ==
    /\ Go(Loader, "idle", "look") \/ Go(Loader, "idle", "over")
    /\ wanted' = [wanted EXCEPT ![Loader] = Blocked(LoaderImage, "Remove")]
    /\ UNCHANGED <<list, actionNode, command, handling, scanning, bounds, fault>>

(* Where a thread goes on that is through with its rule.                   *)
Finished(t) == IF t = Comm THEN "idle" ELSE "over"

(* The look-up of the callers: IoControl adds what is missing (the look-up *)
(* of Create_or_Append_Action_Process_Node comes again),                   *)
(* processing_action_with_server_Action_Process_Node removes what is there.*)
LookFirst(t) ==
    LET found   == IF t = Comm THEN "remove" ELSE "over"
        missing == IF t = Comm THEN "idle" ELSE "again"
    IN  Glance(t, "look", "search", missing) \/ Find(t, "search", found, missing)

(* The look-up of Create_or_Append_Action_Process_Node.                    *)
LookAgain(t) ==
    \/ Glance(t, "again", "searchAgain", "test")
    \/ Find(t, "searchAgain", Finished(t), "test")

(* It looks at the pointer, and takes the mutex after that.                *)
TestPointer(t) ==
    /\ Go(t, "test", IF actionNode = Null THEN "first" ELSE "append")
    /\ UNCHANGED <<list, actionNode, adding, handling, scanning, bounds, fault>>

FirstRule(t) ==
    /\ ~Held
    /\ Go(t, "first", Finished(t))
    /\ \E short \in BOOLEAN : Shortage(short) /\ NewSection("Actn", wanted[t], short)
    /\ actionNode' = current'
    /\ UNCHANGED <<reused, adding, handling, scanning, work, fault>>

AppendRule(t) ==
    /\ actionNode # Null /\ ~Held
    /\ Go(t, "append", Finished(t))
    /\ \E short \in BOOLEAN :
          Shortage(short) /\ ToSection("Actn", wanted[t], actionNode, short)
    /\ UNCHANGED <<reused, actionNode, adding, handling, scanning, work, fault>>

(* Remove_1Dim_Node_with_Search_Value: its tests, and its loop, which does *)
(* not leave the first node of the list.  Lines 302-345 are not reached.   *)
TestRemoval ==
    /\ Go(Comm, "remove", IF actionNode = Null \/ start = Null THEN "idle" ELSE "count")
    /\ UNCHANGED <<list, actionNode, adding, handling, scanning, bounds, fault>>

CountNodes ==
    /\ start # Null /\ actionNode # Null /\ ~Held
    /\ Go(Comm, "count", "spin")
    /\ UNCHANGED <<list, actionNode, adding, handling, scanning, bounds, fault>>

Add(t) == LookFirst(t) \/ LookAgain(t) \/ TestPointer(t) \/ FirstRule(t) \/ AppendRule(t)

-----------------------------------------------------------------------------

RightOf(feature) ==
    IF feature = "Create" THEN "PROCESS_CREATE_PROCESS" ELSE "PROCESS_TERMINATE"

(* TMP_feature.                                                            *)
Features(ask) == {feature \in Feature : RightOf(feature) \in ask.original}

(* Mutant: actionNode is not tested.                                       *)
EnterAlways(h) ==
    /\ Go(h, "idle", "hash")
    /\ \E ask \in Asks :
          /\ Features(ask) # {}
          /\ ask.op = "CREATE" => ask.desired # {}
          /\ handle' = [handle EXCEPT ![h] = ask]
          /\ asked' = [asked EXCEPT ![h] = ask]
    /\ before' = [before EXCEPT ![h] = InForce]
    /\ UNCHANGED <<list, actionNode, adding, image, scanning, bounds, fault>>

(* PreOperationCallback up to the wait.  A callback that returns before    *)
(* that leaves the operation as it is, and is no step.                     *)
Enter(h) ==
    /\ actionNode # Null
    /\ Go(h, "idle", "hash")
    /\ \E ask \in Asks :
          /\ Features(ask) # {}
          /\ ask.op = "CREATE" => ask.desired # {}
          /\ handle' = [handle EXCEPT ![h] = ask]
          /\ asked' = [asked EXCEPT ![h] = ask]
    /\ before' = [before EXCEPT ![h] = InForce]
    /\ UNCHANGED <<list, actionNode, adding, image, scanning, bounds, fault>>

(* The worker computes the SHA256 of the process' file, or fails and       *)
(* leaves the zeros; either way it sets the event.                         *)
Hash(h) ==
    /\ Go(h, "hash", "look")
    /\ \E sha \in Image \cup {NoImage} :
          /\ image' = [image EXCEPT ![h] = sha]
          /\ wanted' = [wanted EXCEPT ![h] =
                 Blocked(sha, IF "Create" \in Features(asked[h]) THEN "Create" ELSE "Remove")]
    /\ UNCHANGED <<list, actionNode, command, handle, asked, before, scanning,
                   bounds, fault>>

(* The result of PsCreateSystemThread is not looked at: without a worker   *)
(* the wait has no end.                                                    *)
NoWorker(h) ==
    /\ Go(h, "hash", "stuck")
    /\ Shortage(TRUE)
    /\ UNCHANGED <<list, actionNode, adding, handling, scanning, work, fault>>

LookUp(h) == Glance(h, "look", "search", "skip") \/ Find(h, "search", "mask", "skip")

(* What Action_PROCESSING_on_RegisterCallback takes from a handle.  For a  *)
(* duplicated one, "Create" takes PROCESS_CREATE_PROCESS from              *)
(* OriginalDesiredAccess, which grants nothing.                            *)
Masked(op, feature) ==
    CASE feature = "Create" ->
            [original |-> IF op = "CREATE" THEN {} ELSE {"PROCESS_CREATE_PROCESS"},
             desired  |-> {"PROCESS_VM_OPERATION", "PROCESS_VM_READ", "PROCESS_VM_WRITE"}
                              \cup IF op = "CREATE" THEN {"PROCESS_CREATE_PROCESS"} ELSE {}]
      [] feature = "Remove" ->
            [original |-> {}, desired |-> {"PROCESS_TERMINATE", "PROCESS_VM_OPERATION"}]

(* Mutant: the loop over the features ends after the first.                *)
ProceedOnce(h, from) ==
    /\ Go(h, from, "done")
    /\ UNCHANGED <<list, actionNode, adding, asked, image, before, scanning, bounds, fault>>

(* ... and the next feature, or the end.                                   *)
Proceed(h, from) ==
    LET more == wanted[h].feature = "Create" /\ "Remove" \in Features(asked[h])
    IN  /\ Go(h, from, IF more THEN "look" ELSE "done")
        /\ wanted' = [wanted EXCEPT ![h].feature = IF more THEN "Remove" ELSE @]
        /\ UNCHANGED <<list, actionNode, command, asked, image, before, scanning,
                       bounds, fault>>

Mask(h) ==
    LET masked == Masked(handle[h].op, wanted[h].feature)
    IN  /\ handle' = [handle EXCEPT ![h].desired = @ \ (masked.desired \cap handle[h].original),
                                    ![h].original = @ \ masked.original]
        /\ Proceed(h, "mask")

Skip(h) == Proceed(h, "skip") /\ UNCHANGED handle

Return(h) ==
    /\ Go(h, "done", "idle")
    /\ handle' = [handle EXCEPT ![h] = NoAsk] /\ asked' = [asked EXCEPT ![h] = NoAsk]
    /\ image' = [image EXCEPT ![h] = NoImage] /\ before' = [before EXCEPT ![h] = {}]
    /\ wanted' = [wanted EXCEPT ![h] = Blocked(NoImage, "Remove")]
    /\ UNCHANGED <<list, actionNode, command, scanning, bounds, fault>>

-----------------------------------------------------------------------------

(* ListDirectories_with_extension_signature for one drive and extension:   *)
(* some of the files match.                                                *)
BeginScan ==
    /\ work < MaxWork
    /\ Go(Scanner, "idle", "scan")
    /\ work' = work + 1
    /\ \E n \in 0..Len(Files) : unlisted' = SubSeq(Files, 1, n)
    /\ output' = Null /\ isInit' = TRUE
    /\ UNCHANGED <<list, actionNode, adding, handling, shortages, fault>>

(* ListDirectories has a file that matches.                                *)
ListFile ==
    /\ Is(Scanner, "scan") /\ unlisted # <<>> /\ ~Held
    /\ \E short \in BOOLEAN :
          /\ Shortage(short)
          /\ \/ isInit /\ NewSection("Dirs", Head(unlisted), short)
             \/ ~isInit /\ output # Null /\ ToSection("Dirs", Head(unlisted), output, short)
    /\ output' = IF isInit THEN current' ELSE output
    /\ isInit' = FALSE
    /\ unlisted' = Tail(unlisted)
    /\ UNCHANGED <<reused, at, actionNode, adding, handling, work, fault>>

(* It returns 0 where it has no memory for a path: what is listed stays.   *)
BreakOff ==
    /\ Go(Scanner, "scan", "idle")
    /\ unlisted # <<>>
    /\ unlisted' = <<>> /\ output' = Null
    /\ UNCHANGED <<list, actionNode, adding, handling, isInit, bounds, fault>>

(* Otherwise the paths are compared (which changes nothing here), and the  *)
(* list is looked at before the mutex is taken.                            *)
EndList ==
    /\ unlisted = <<>>
    /\ Go(Scanner, "scan", IF output = Null \/ start = Null THEN "idle" ELSE "clean")
    /\ UNCHANGED <<list, actionNode, adding, handling, scanning, bounds, fault>>

Clean ==
    /\ start # Null /\ ~Held
    /\ Go(Scanner, "clean", "idle")
    /\ \/ current # Null /\ RemoveDirs
       \/ current = Null /\ RemoveRefused
    /\ output' = Null
    /\ UNCHANGED <<actionNode, adding, handling, unlisted, isInit, bounds, fault>>

-----------------------------------------------------------------------------

Communicate == Parse \/ Add(Comm) \/ TestRemoval \/ CountNodes

Scan == ListFile \/ EndList \/ Clean

Callback(h) == Hash(h) \/ LookUp(h) \/ Mask(h) \/ Skip(h) \/ Return(h)

Next ==
    \/ Receive \/ Communicate
    \/ Protect \/ Add(Loader)
    \/ BeginScan \/ BreakOff \/ Scan
    \/ \E h \in Handlers : Enter(h) \/ NoWorker(h) \/ Callback(h)
    \/ \E t \in Thread : FollowNull(t)

Spec == Init /\ [][Next]_vars

(* A thread that can go on does.  Nobody has to send commands, to ask for  *)
(* handles or to begin scans.                                              *)
FairSpec ==
    /\ Spec
    /\ WF_vars(Communicate) /\ WF_vars(Add(Loader)) /\ WF_vars(Scan)
    /\ \A h \in Handlers : WF_vars(Callback(h))
    /\ \A t \in Thread : WF_vars(FollowNull(t))

-----------------------------------------------------------------------------

(* The list promises what RuleSet does: a rule that is in force stays in   *)
(* force, whatever the two threads that add rules and the scans that share *)
(* the list do to it, until an allocation fails (Append_Node then returns  *)
(* NULL, and the list looks empty) or Remove_Node_with_Search_Value has    *)
(* read memory it had freed.                                               *)
Promise == INSTANCE RuleSet WITH inForce <- InForce, short <- Short

ImplementsRuleSet == Promise!Spec

(* What PreOperationCallback leaves of a handle follows the rules although *)
(* it consults them without the mutex in between: the right of a rule that *)
(* was in force when it began is gone, and something is gone only for a    *)
(* rule in force.  PROCESS_CREATE_PROCESS of a duplicated handle is the    *)
(* exception (Masked).                                                     *)
HandlesFollowTheRules ==
    \A h \in Handlers : at[h] = "done" /\ ~Short =>
        /\ \A feature \in Features(asked[h]) :
              /\ Blocked(image[h], feature) \in before[h]
              /\ feature = "Create" => asked[h].op = "CREATE"
              => RightOf(feature) \notin handle[h].desired
        /\ handle[h].desired # asked[h].desired =>
              \E feature \in Features(asked[h]) : Blocked(image[h], feature) \in InForce

(* A NULL is followed by communication_server in a command with too few    *)
(* fields, after an allocation has failed, or by the look-up before the    *)
(* first rule, when a scan empties the list between its test and its       *)
(* search: never by a callback.                                            *)
StopsOnlyBeforeTheFirstRule ==
    fault => \/ Short
             \/ at[Comm] = "parse"
             \/ InForce = {} /\ \A h \in Handlers : at[h] = "idle"

(* A command to remove a rule comes to an end: the rule is removed, or the *)
(* server told that there is none (the comment of                          *)
(* processing_action_with_server_Action_Process_Node).                     *)
RemovalEnds == at[Comm] = "remove" ~> at[Comm] = "idle" \/ fault
=============================================================================
