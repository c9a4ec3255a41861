------------------------------ MODULE DlpFilter ------------------------------
(***************************************************************************)
(* The file filter of the driver (minifilter_handlers_logic.c) with the    *)
(* list of file types it keeps up to date and the command of the server    *)
(* that changes the list (RUST_DLP_Get_File_Signatures_logic.c).           *)
(*                                                                         *)
(* A handler runs with MUTEX_signature from its first use of shared state  *)
(* to its return, so handlers follow each other and one that waits for the *)
(* mutex has nothing but its operation.  What happens between the steps of *)
(* a handler is what does not take the mutex: the server's command, and    *)
(* files that change under it (operations it has let through, kernel-mode  *)
(* ones, and those on names it does not watch).  Each call of              *)
(* Policy_Signature_Compare is a step, since each asks the file system     *)
(* anew; the pointer the first call gets as an argument is read in a step  *)
(* of its own, since the call tests the global one.                        *)
(*                                                                         *)
(* Paths holds watched names only (is_file); of the shared record          *)
(* Pre_struct_Share_variable the fields some code reads are kept.          *)
(***************************************************************************)
EXTENDS SignaturePolicies

CONSTANTS
    External,   \* paths on a drive that is_Drives_PATH finds and knows as USB
    ShortNames, \* names shorter than every type
    Remembered, \* external paths whose last CREATE the history keeps
    MaxNodes,   \* bound: the file nodes there is pool for
    MaxFields   \* bound: the extensions in one command

ASSUME DlpAssumption ==
    /\ External \subseteq Paths
    /\ Remembered \subseteq External /\ ShortNames \subseteq Names
    /\ MaxNodes \in Nat /\ MaxFields \in Nat

VARIABLES
    sigs,     \* Policy_Signature_Start_Node: the types with their files
    server,   \* the thread of the server's commands: "ready" or "spinning"
    disk,     \* disk[p]: the file that has path p
    openOk,   \* is_Success_open_that_FILE_when_IRP_MJ_CREATE
    keep,     \* keep_DENIED
    pc, h,    \* where the handler that has the mutex is, and what it knows
    fault,    \* a NULL pointer was used: the system has stopped
    calm,     \* history: since the handler began nothing failed or changed
    starved,  \* history: an allocation has failed
    failed    \* history: failed[p]: p could not be opened at its last CREATE

policy == <<sigs, server>>

flags == <<openOk, keep>>

vars == <<policy, disk, flags, pc, h, fault, calm, starved, failed>>

File == [index: Indices, content: Contents]

Operation == {"CREATE", "COPY", "RENAME", "BASIC", "VOLUME", "ATTRIBUTE", "OTHER"}

\* What a handler knows: its operation, the name a renaming asks for, the
\* content it has read, whether the list existed when it took the argument,
\* and in what the file differs from its node.
Local == [op: Operation, path: Paths, new: Names, sha: Contents \cup {None},
          list: BOOLEAN, diff: SUBSET {"sha", "path"}]

Blank == LET p == CHOOSE p \in Paths : TRUE
         IN  [op |-> "OTHER", path |-> p, new |-> p, sha |-> None,
              list |-> FALSE, diff |-> {}]

\* No handler has the mutex; the last one has returned this.
Idle == pc \in {"allowed", "denied"}

Steps == {"allowed", "denied", "begin", "rename", "argument", "compare", "save",
          "again", "track", "sha", "path", "set"}

TypeOK ==
    /\ sigs \in Seq(Signature)
    /\ server \in {"ready", "spinning"}
    /\ disk \in [Paths -> File \cup {None}]
    /\ openOk \in BOOLEAN /\ keep \in BOOLEAN /\ fault \in BOOLEAN
    /\ pc \in Steps /\ h \in Local
    /\ calm \in BOOLEAN /\ starved \in BOOLEAN
    /\ failed \in [Remembered -> BOOLEAN]

Init ==
    /\ sigs = <<>> /\ server = "ready"
    /\ disk \in [Paths -> {None}]
    /\ openOk = FALSE /\ keep = FALSE
    /\ pc = "allowed"
    /\ h = Blank
    /\ fault = FALSE
    /\ calm = TRUE /\ starved = FALSE
    /\ failed = [p \in Remembered |-> FALSE]

-----------------------------------------------------------------------------
\* What the file system may answer about a file: its index, its content, or
\* an error, which it may also give for a file that is there.
Index(p) == {None} \cup (IF disk[p] = None THEN {} ELSE {disk[p].index})

Content(p) == {None} \cup (IF disk[p] = None THEN {} ELSE {disk[p].content})

\* is_valid_FILE.
Opens(p) == {FALSE} \cup {disk[p] # None}

Goto(step) == pc' = step /\ UNCHANGED fault

\* return_pre: what the handler knew is gone.
Return(verdict) ==
    /\ Goto(verdict)
    /\ h' = Blank

Crash == fault' = TRUE /\ UNCHANGED <<pc, h>>

\* What a handler after its decision leaves alone.
Looks == UNCHANGED <<server, disk, flags, failed>>

Reads == Looks /\ UNCHANGED <<sigs, starved>>

-----------------------------------------------------------------------------
\* is_file lets a user-mode operation on a watched name in; it gets the mutex.
Begin ==
    /\ Idle /\ ~fault
    /\ pc' = "begin"
    /\ \E op \in Operation, p \in Paths :
         \E new \in (IF op = "RENAME" THEN Names ELSE {p}) :
            h' = [Blank EXCEPT !.op = op, !.path = p, !.new = new]
    /\ calm' = TRUE
    /\ UNCHANGED <<policy, disk, flags, fault, starved, failed>>

\* IRP_MJ_CREATE ends a denial that was to be kept; COPY is one with an access mask of is_copy_move.  A name whose
\* buffer is too long for the record leaves before that test.
Create ==
    /\ pc = "begin" /\ h.op \in {"CREATE", "COPY"} /\ ~fault
    /\ \E ok \in Opens(h.path), long \in BOOLEAN :
         /\ openOk' = ok
         /\ keep' = FALSE
         /\ failed' = [p \in Remembered |-> IF p = h.path THEN ~ok ELSE failed[p]]
         /\ IF h.op = "COPY" /\ ~ok /\ ~long /\ h.path \in External
            THEN Return("denied")
            ELSE Return("allowed")
    /\ UNCHANGED <<policy, disk, calm, starved>>

\* Every other operation while keep_DENIED is set.
Kept ==
    /\ pc = "begin" /\ h.op \notin {"CREATE", "COPY"} /\ ~fault
    /\ keep
    /\ Return("denied")
    /\ UNCHANGED <<policy, disk, flags, calm, starved, failed>>

\* IRP_MJ_QUERY_INFORMATION for FileBasicInformation and
\* IRP_MJ_QUERY_VOLUME_INFORMATION: on a USB drive they are denied, and what
\* follows too, as a rule only if the last CREATE could not open its file.
Suspicious(ok) ==
    /\ ~openOk \/ h.op = "ATTRIBUTE"
    /\ h.op = "BASIC" => ok
    /\ h.path \in External

Query ==
    /\ pc = "begin" /\ h.op \in {"BASIC", "VOLUME", "ATTRIBUTE"} /\ ~fault
    /\ ~keep
    /\ \E ok \in BOOLEAN :
         /\ calm' = (calm /\ ok)
         /\ IF Suspicious(ok)
            THEN keep' = TRUE /\ Return("denied")
            ELSE Goto("argument") /\ UNCHANGED <<keep, h>>
    /\ UNCHANGED <<policy, disk, openOk, starved, failed>>

\* READ, WRITE, CLOSE and the rest.
Other ==
    /\ pc = "begin" /\ h.op = "OTHER" /\ ~fault
    /\ ~keep
    /\ Goto("argument")
    /\ UNCHANGED <<policy, disk, flags, h, calm, starved, failed>>

\* IRP_MJ_SET_INFORMATION that renames: the content is hashed and the argument
\* of the call is taken.
Rename ==
    /\ pc = "begin" /\ h.op = "RENAME" /\ ~fault
    /\ ~keep
    /\ \/ /\ FALSE \in Opens(h.path)
          /\ Goto("argument") /\ UNCHANGED h
          /\ calm' = FALSE
       \/ /\ TRUE \in Opens(h.path)
          /\ \E sha \in Content(h.path) :
               /\ calm' = (calm /\ sha # None)
               /\ IF sha = None
                  THEN Return("allowed")
                  ELSE /\ Goto("rename")
                       /\ h' = [h EXCEPT !.sha = sha, !.list = sigs # <<>>]
    /\ UNCHANGED <<policy, disk, flags, starved, failed>>

\* Policy_Signature_Compare in the mode of renaming.
CompareNewName ==
    /\ pc = "rename" /\ ~fault
    /\ Reads /\ UNCHANGED calm
    /\ IF sigs # <<>> /\ ~h.list
       THEN Crash
       ELSE IF h.new \notin ShortNames /\ LeavesItsType(sigs, h.new, h.sha)
       THEN Return("denied")
       ELSE Goto("argument") /\ UNCHANGED h

-----------------------------------------------------------------------------
\* The pointer to the first signature, on its way to the first comparison.
Argument ==
    /\ pc = "argument" /\ ~fault
    /\ Goto("compare")
    /\ h' = [h EXCEPT !.op = "OTHER", !.new = h.path, !.sha = None,
                      !.list = sigs # <<>>]
    /\ Reads /\ UNCHANGED calm

\* COMPARE mode with index i ends at a signature of the path's type.
Matches(i) ==
    /\ i # None
    /\ ComparedTo(sigs, h.path, i) # 0
    /\ sigs[ComparedTo(sigs, h.path, i)].ext \in Suffix[h.path]

\* Mutant: the path is compared too.
KnownByPath(i) ==
    /\ Matches(i)
    /\ IsRecorded(sigs[ComparedTo(sigs, h.path, i)], i, LAMBDA n : n.path = h.path)

\* ... and finds the file there.
Known(i) == Matches(i) /\ HasNode(sigs[ComparedTo(sigs, h.path, i)], i)

\* A file of a registered type that is not recorded yet is to be saved.
Compare ==
    /\ pc = "compare" /\ ~fault
    /\ Reads
    /\ \E i \in Index(h.path) :
         /\ calm' = (calm /\ i # None)
         /\ IF sigs # <<>> /\ ~h.list THEN Crash
            ELSE IF ~Matches(i) THEN Return("allowed")
            ELSE /\ Goto(IF Known(i) THEN "track" ELSE "save")
                 /\ UNCHANGED h

\* SAVE mode, from the content to the node.  A node that cannot be allocated
\* is an answer like any other.
SaveNode(j, i, sha) ==
    \/ /\ Len(sigs[j].files) < MaxNodes
       /\ IF AppendsToNull(sigs[j])
          THEN Crash /\ UNCHANGED sigs
          ELSE /\ sigs' = [sigs EXCEPT ![j] = Recorded(@, i, h.path, sha)]
               /\ Goto("again") /\ UNCHANGED h
       /\ UNCHANGED <<starved, calm>>
    \/ /\ sigs' = [sigs EXCEPT ![j] = NotRecorded(@)]
       /\ Goto("again") /\ UNCHANGED h
       /\ starved' = TRUE /\ calm' = FALSE

Refused(i, sha) ==
    \/ i = None
    \/ sha = None
    \/ SignatureOf(sigs, h.path) = 0
    \/ IsRecorded(sigs[SignatureOf(sigs, h.path)], i, LAMBDA n : n.path = h.path)

\* The test for a duplicate compares the path of the first node of the file.
Save ==
    /\ pc = "save" /\ ~fault
    /\ Looks
    /\ \E i \in Index(h.path), sha \in Content(h.path) :
         \/ /\ Refused(i, sha)
            /\ Return("allowed")
            /\ calm' = FALSE
            /\ UNCHANGED <<sigs, starved>>
         \/ /\ LostItsPath(sigs, i)
            /\ Crash
            /\ UNCHANGED <<sigs, starved, calm>>
         \/ /\ ~Refused(i, sha)
            /\ SaveNode(SignatureOf(sigs, h.path), i, sha)

\* The second comparison: one that does not match is not looked at.
CompareAgain ==
    /\ pc = "again" /\ ~fault
    /\ Reads
    /\ \E i \in Index(h.path) :
         /\ calm' = (calm /\ i # None)
         /\ IF Matches(i) /\ ~Known(i)
            THEN Return("allowed")
            ELSE Goto("track") /\ UNCHANGED h

\* The file is opened and hashed.
Track ==
    /\ pc = "track" /\ ~fault
    /\ Reads
    /\ \E sha \in Content(h.path) :
         /\ calm' = (calm /\ sha # None)
         /\ IF sha = None
            THEN Return("allowed")
            ELSE Goto("sha") /\ h' = [h EXCEPT !.sha = sha]

\* Does the node have this SHA256?  An error counts as No.
CompareSha ==
    /\ pc = "sha" /\ ~fault
    /\ Reads
    /\ \E i \in Index(h.path) :
         /\ calm' = (calm /\ i # None)
         /\ h' = [h EXCEPT !.diff = IF i # None /\ HasSha(sigs, i, h.sha)
                                    THEN {} ELSE {"sha"}]
    /\ Goto("path")

\* Does it have this path?
ComparePath ==
    /\ pc = "path" /\ ~fault
    /\ Reads
    /\ \E i \in Index(h.path) :
         /\ calm' = (calm /\ i # None)
         /\ \/ LET same == i # None /\ HasPath(sigs, i, h.path)
               IN  IF same /\ h.diff = {}
                   THEN Return("allowed")
                   ELSE /\ Goto("set")
                        /\ h' = [h EXCEPT !.diff = IF same THEN @
                                                   ELSE @ \cup {"path"}]
            \/ LostItsPath(sigs, i) /\ Crash

\* The set modes: a path that cannot be allocated is lost, and the SHA256 that
\* was to follow is not set.
SetNode ==
    /\ pc = "set" /\ ~fault
    /\ Looks
    /\ \E i \in Index(h.path) :
         LET withPath == IF "path" \in h.diff THEN SetPath(sigs, i, h.path) ELSE sigs
         IN  \/ /\ sigs' = IF "sha" \in h.diff THEN SetSha(withPath, i, h.sha)
                           ELSE withPath
                /\ calm' = (calm /\ i # None)
                /\ Return("allowed")
                /\ UNCHANGED starved
             \/ /\ "path" \in h.diff
                /\ sigs # <<>> /\ HasNode(sigs[1], i)
                /\ sigs' = SetPath(sigs, i, None)
                /\ Return("allowed")
                /\ starved' = TRUE /\ calm' = FALSE
             \/ /\ "path" \in h.diff
                /\ LostItsPath(sigs, i)
                /\ Crash
                /\ UNCHANGED <<sigs, starved, calm>>

-----------------------------------------------------------------------------
Command == server = "ready" /\ ~fault

Commands == UNCHANGED <<disk, flags, pc, h, fault, calm, failed>>

\* is_register: after the first field the loop stays at the second one, which
\* is refused if the first has been stored.
RegisterType ==
    /\ Command
    /\ \E fields \in SeqOf(Types, MaxFields) :
         \/ \E k \in DOMAIN fields :
              /\ k <= 2 /\ ~RefusesToRegister(sigs)
              /\ sigs' = Append(sigs, NewSignature(fields[k]))
              /\ starved' = (starved \/ k = 2)
         \/ /\ Len(fields) = 1 /\ ~RefusesToRegister(sigs)
            /\ starved' = TRUE
            /\ UNCHANGED sigs
    /\ Commands /\ UNCHANGED server

\* is_remove: a field looks for a type that differs from it, and removes a
\* type that differs from that one.
Differs(field) == SelectInSeq(sigs, LAMBDA s : s.ext # field)

RemoveType ==
    /\ Command /\ sigs # <<>>
    /\ \E fields \in SeqOf(Types, MaxFields) :
         \/ \E k \in DOMAIN fields :
              /\ k <= 2 /\ Differs(fields[k]) # 0
              /\ k = 2 => Differs(fields[1]) = 0
              /\ sigs' = Without(sigs, sigs[Differs(fields[k])].ext)
              /\ UNCHANGED server
         \/ /\ Len(fields) > 1
            /\ \A k \in 1..2 : Differs(fields[k]) = 0
            /\ server' = "spinning"
            /\ UNCHANGED sigs
    /\ Commands /\ UNCHANGED starved

\* is_get: nothing is done yet, and a second field is never passed.
GetTypes ==
    /\ Command /\ sigs # <<>>
    /\ \E fields \in SeqOf(Types, MaxFields) : Len(fields) > 1
    /\ server' = "spinning"
    /\ Commands /\ UNCHANGED <<sigs, starved>>

\* A file appears, goes away or gets another content, at any time.
FileChanges ==
    /\ ~fault
    /\ \E p \in Paths, f \in File \cup {None} :
         /\ disk[p] # f
         /\ disk' = [disk EXCEPT ![p] = f]
    /\ calm' = FALSE
    /\ UNCHANGED <<policy, flags, pc, h, fault, starved, failed>>

Handle ==
    \/ Create \/ Kept \/ Query \/ Other \/ Rename \/ CompareNewName
    \/ Argument \/ Compare \/ Save \/ CompareAgain
    \/ Track \/ CompareSha \/ ComparePath \/ SetNode

Next == Begin \/ Handle \/ RegisterType \/ RemoveType \/ GetTypes \/ FileChanges

Spec == Init /\ [][Next]_vars

-----------------------------------------------------------------------------
UpToDate(p) ==
    /\ disk[p] # None
    /\ IsRecorded(sigs[1], disk[p].index,
                  LAMBDA n : n.path = p /\ n.sha = disk[p].content)

\* A file that is handled undisturbed ends up recorded: when a handler that
\* compared it with its node returns, and no answer was an error and nothing
\* changed meanwhile, the first node of the file has its path and content.
RecordedAsSeen ==
    [][ /\ pc \in {"path", "set"} /\ pc' = "allowed" /\ calm'
        => \A p \in Paths : h.path = p => UpToDate(p)' ]_vars

\* A second node for a file needs a file that changed between the search that
\* did not find it and the test for duplicates before it is saved.
OneNodePerFile ==
    \A s \in DOMAIN sigs : \A m, n \in DOMAIN sigs[s].files :
        sigs[s].files[m].index = sigs[s].files[n].index => m = n

DuplicateNeedsAChange == [][ OneNodePerFile /\ calm => OneNodePerFile' ]_vars

\* The filter uses a NULL pointer only after an allocation has failed, however
\* long ago, or when the first type was registered between the two looks of a
\* first comparison at the list.
FaultNeedsACause ==
    [][ fault' /\ ~fault =>
          \/ starved
          \/ pc \in {"rename", "compare"} /\ sigs # <<>> /\ ~h.list ]_vars

\* "Block all external disks" (line 421): a query of the basic information of
\* a file on a USB drive, that could not be opened at its own CREATE, is
\* denied.
ExternalIsBlocked ==
    [][ /\ pc = "begin" /\ pc' # "begin" /\ calm'
        /\ h.op = "BASIC" /\ h.path \in Remembered /\ failed[h.path]
        => pc' = "denied" ]_vars

\* The list is one of several types, and a command is refused for a type that is
\* in it already ("duplicate check", "FALSE if there is a duplicate": lines 32 and
\* 47 of RUST_DLP_Get_File_Signatures_logic.c): the server can always add a type
\* that the list lacks.
NewTypeCanBeAdded ==
    Command /\ (\E e \in Types : \A j \in DOMAIN sigs : sigs[j].ext # e)
        => ENABLED RegisterType
=============================================================================
