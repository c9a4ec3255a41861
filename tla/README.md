# C.ProtegoAI: a verification development

C.ProtegoAI is an endpoint protection system: a Windows kernel agent (C,
`AGENT/Windows_Kernel`), the program that loads it and talks to it from user mode
(`AGENT/Windows_User_KernelLoader`), and a center server (Rust,
`Center_Server/Rust`) that polls the agents, stores what they report and relays
the commands of GUI programs. This directory models the parts whose correctness
depends on the order in which threads, callbacks and messages meet.

## 1. Inventory

| Component | State | Operations | Interacts with | Hard behaviour |
|---|---|---|---|---|
| Lock helper (`Mutex_with_Lock_logic.c`) | `{PKMUTEX, is_Lock}` | lock (creates on first use), release | the collector, the lists | lazy creation and `is_Lock` are unprotected |
| Event collection (`ProcessNotifyRoutine_logic.c`, `SEND_or_SAVE_logic.c`, `PLIST_to_append_or_send.c`) | one global buffer, a record per callback | notify callback, worker, append, send and free | lock helper, TCP session | stack record shared with a worker; appends race with sends |
| Agent TCP session (`TCP_conn_logic.c`, `TCP_send_or_Receiver_logic.c`, `Build_Socket_logic.c`, `communication_with_RUST_logic.c`) | socket, session mutex, `is_connected_2_SERVER` | connect, handshake, receive a command, answer | everything a command reaches | early returns with the mutex held, partial reads |
| User-mode channel (`my_ioctl_logic.c`, `License_Agent_struct_logic.c`, `ioctl_process_sender_logic.c`, `query_process_logic.c`, `main.c`) | pointer to the pending request, two flags, an event | `IoControl`, ids, hook requests | loader, TCP handshake | the pointer outlives the request; four threads share it |
| Loader (`Windows_User_KernelLoader`) | its request buffer, `move_data` | first request, keep-alive loop, injection threads | channel | the argument of a thread is overwritten by the next answer |
| List (`Parallel_Linked_List_logic.c`) | one doubly linked list of sections, told apart by a search value | build up, look up, remove | action rules, directory scan | tests before the mutex, section numbers, freed nodes |
| Action rules (`Process_ObRegisterCallback_processing_logic.c`, `Pre_ObRegisterCallback_logic.c`) | a pointer to the first rule | add, remove, look up, mask access rights | server commands, loader, object callbacks, the list | check-then-act, endless counting loop |
| Directory scan (`Query_Files_in_Directories*.c`) | its output pointer | list paths, compare, remove them | the list, policies | shares the list with the rules |
| File signature policies (`policy_signature_list_manager_logic.c`, `RUST_DLP_Get_File_Signatures_logic.c`) | a list of file types, each with a list of the files the driver has met | register, remove and list types; compare, save and update files | server commands, minifilter | every call asks the file system anew; NULL pointers left by failed allocations; the server's command does not take the filter's mutex |
| DLP minifilter (`minifilter_handlers_logic.c`, `minifilter_register_logic.c`) | one global record of the last CREATE, `keep_DENIED`, a mutex | create, copy, rename, query, cleanup | policies, drives | the record is shared by all files and threads |
| Drives (`PNP_mount_management_logic.c`, `Get_Volumes_logic.c`) | list of volumes with letter, path, serial number and class | scan of `\??`, notification of a USB device, look-up of a path | minifilter | scans share the list with unlocked readers; the directory changes under a scan; letters move |
| Length-based codec (`Length_Based_*`, `PLIST_*`) | none | encode and decode field lists | all of the above | boundaries |
| Server: agent sessions (`Agent_1vs1_Manager.rs`) | one thread per agent, parsers | handshake, poll, parse, fetch an executable | stream, registry, database | three kinds of threads share a stream; panics poison |
| Server: stream (`AGENT_MANAGEMENT_functions.rs`) | TCP stream, reader with a timeout | request and answer | agent | late answers, frames in pieces |
| Server: registry (`Share_TCP_and_AGENT_ID.rs`) | AGENT_ID to stream | insert, remove, get | sessions, GUI | entries that outlive a session |
| Server: database (`MYSQL.rs`) | one connection behind a mutex | query | all server threads | `unwrap` of a failed statement |
| Server: GUI manager (`communication_GUI_program_for_connection.rs`) | GUI accounts in the database | login, relay a command | registry, stream | what counts as the agent's Yes |
| Server: AI analyser (`connect_AI_analyser.rs`) | rows not analysed yet | send a file, receive a verdict | database | not started by `main.rs` |

The properties that make each part correct are those of section 3 for the parts
that are modelled; sections 6 and 7 say what the others would need. `PROJECT.json` lists
every component with its status, and under `hazards` each hard spot of the code
with the line where it bites.

## 2. Modules

`ExclusiveUse` is the abstract specification of a lock: a resource with at most
one user. `KernelMutex` is the lock helper, statement by statement, and
implements it (`ImplementsExclusiveUse`, a refinement mapping that names the
thread inside the critical section as the user).

`CollectedData` composes the lock (through `INSTANCE KernelMutex`) with the
notify callback, its worker, the two operations of `Send_or_Save`, and the poll
of the server. An event stands for its record; the global buffer is the
sequence of what has been copied into it, the agent's id first. The lock starts as
`SEND_or_SAVE_logic.c:3-7` leaves it, `{NULL, 0}`: whoever uses it first creates it,
and two threads may do so at once and be inside together. Nothing in the code keeps
two workers from being first. From then on the module goes on: appends and sends
overtake each other between the copy and the replacement of the global, and a
block that is freed under the other thread's hands may stop the machine (`Clash`).

`CenterServer` has the threads of the server: a session per agent, parsers, GUI
threads. Streams are held over several steps (a guard of a Rust `match` lives
until the end of the `match`, which is why the second look-up of a SHA256 and
the log entry of a command run with the stream locked); the registry and the
database are locked and unlocked within one expression, so a statement is a
step. Panics poison what the thread holds. The agent is the environment: it
answers in order, late, or not at all.

`UserIoctl` has `IoControl` for the loader's request and for those of hooked
processes, `DriverEntry`, the list of processes, the sender of hook requests,
`GET_AGENT_ID`, and the loader's own threads. A `START_HOOKING` thread reads its
argument twice: for the test that leaves a PID of at most 1000 alone
(`Hooking_logic.c:7`), and for the process that it opens, allocates in, writes to and
starts a thread in, each of which Windows may refuse (lines 21-48). Nobody hears
which of the three ends, `refused`, `failed` or `hooked`, it came to. Memory that
is gone is modelled by `alive`: a use of a dead buffer is undefined, and the model
stops there (`fault`).

`FrameDelivery` is the abstract specification of a stream of length-prefixed
frames: a reader takes the next whole frame until a call fails. `FramedStream`
is the direction from an agent to the server: `SEND_TCP_DATA` writes a length
and the data, `Receiving_from_Agent` reads them in whatever pieces TCP returns.
Bytes are positions in the stream, not values, so that frames of real sizes cost
nothing. The buffer of line 81 is sized by what the *last* read returned and not
by what all reads have, so from the third piece on a read may swallow bytes of
the next frame; the module keeps that.

`AgentSession` extends it with the agent's two threads: `TCP_conn` (connect, ids,
start of `communication_server`) and `communication_server` (receive a command
under `TCP_session`, work, answer, release), with sends and receives that fail, a
connection that breaks, and a server that sends a command and reads once. Its
`doubles` counts the action rules that are accepted, and answered Yes by
`processing_action_with_server_Action_Process_Node` as well as by
`communication_server`. `skew` marks the other direction, the commands, as out of
step: the agent does not look at how much a receive returned, and what it then
takes for a command is arbitrary. `socket = "unbound"` and `"freed"` are what
`Make_TCP_Connection` leaves in the pointer when it fails, and `TCP_conn` takes
for connected.

`ParallelList` is the list: nodes with their two pointers, the section they belong
to and the mark of its last node, the pool they come from, and what
`Build_up_Node` and `Remove_Node_with_Search_Value` do to them with the mutex
held. `RuleSet` is what the rules promise: a set that grows and loses nothing
until memory runs out. `ActionRules` has the threads that use the list: the
server's commands, the request that registers the loader for protection, a
directory scan, and threads in `PreOperationCallback`. A look-up is two steps,
the test of line 542 and the search under the mutex; adding a rule is a look-up,
the test of `Dynamic_Node_Action_Process_Node`, and the append. A NULL that is
followed stops the machine (`fault`). Reading the index of a node after freeing
it (line 385) gives the index if nobody has got the memory in between, and
anything otherwise; `reused` remembers the latter, since the number of the next
section is then arbitrary.

`SignaturePolicies` has the two-dimensional list of file types and their files,
as operators: the walk of each mode of `Policy_Signature_Compare`, with what it
asks the file system given as an argument. `DlpFilter` puts the two actors on
top: the handlers of the file filter, which run one at a time because
`MUTEX_signature` is held to their end, and the server's command, which changes
the same list without that mutex. A handler is one step per call of
`Policy_Signature_Compare`, because every call asks for the file's index and
SHA256 again; between two of them the file, or the list, may have changed. What
a file system answers is chosen from the truth and from an error (`Index`,
`Content`, `Opens`). `calm` remembers whether anything failed or changed since
the handler began, `starved` whether an allocation has ever failed.

`Drives` is the list of drives and the threads that scan the object directory
`\??` entry by entry under `Get_Volume_KMUTEX`: the one of `DriverEntry`, and one
per USB device that arrives, which scans until the list has its serial number.
The directory may change under a scan. A node's letter is freed before it is
allocated again, and the pass after each entry frees what a letter shares with
another node and then reads on from there: both are uses of memory that is gone
(`fault`).

Modules named `MC...` give TLC the values of constants that are not model
values, and symmetry; modules named `...Proofs` hold theorems.

Modelling decisions a reader should know:

* `main.rs` at this commit starts only the listener for agents: the GUI listener
  (lines 62-65) and the AI client (67-68) are commented out. `Gui = {}` is that
  program; a larger set is the one with those lines enabled.
* `initialize_NotifyRoutine` is commented out in the driver's `main.c`;
  `CollectedData` models the routine as if it were registered.
* The handshakes of the two sides do not fit at this commit (the agent sends 768
  bytes and waits for a verdict; the server expects 128 bytes and sends none).
  Each side is modelled against the protocol it implements itself.
* The session loop sets a pause of five seconds after a No and never sleeps; the
  model has no pause either.
* The registration of `PreOperationCallback` (`main.c`, line 124) and the scan of
  the drives (line 89) are commented out. `Handlers = {}` without `BeginScan` is
  that program; `rules` checks the one with both, `rules_removal` one without a
  callback.
* The agent takes the field "DELETE" as the request to *register* a rule and
  everything else as the request to remove one, and it follows four fields where
  the server sends three: such a command stops the machine, which
  `StopsOnlyBeforeTheFirstRule` names as its first exception. `Create` of a
  duplicated handle takes `PROCESS_CREATE_PROCESS` from
  `OriginalDesiredAccess` (`Pre_ObRegisterCallback_logic.c`, line 230), which
  grants nothing; `HandlesFollowTheRules` names that exception. What
  `Build_up_Node` returns does not tell whether there was memory for the node.
* A command is followed by its answer: what that answer is, is `AgentSession`'s
  part, and `ActionRules` leaves it out.
* The registration of the file filter (`main.c`, lines 102 and 145) and the
  initialisation of `MUTEX_signature` (`minifilter_register_logic.c`, line 72) are
  commented out; `DlpFilter` models the filter as if both were there. The walk
  over files of a directory that would save them has no caller.
* In the filter, record fields nobody reads are left out, and a file's times,
  which every caller passes as NULL. Indices need not be unique, since two drives
  may give the same one. At this commit a command can make only a list of one type
  (a finding, and `FirstTypeStays` in `DlpFilterProofs`), so the removal of a type from the middle of the
  list (`policy_signature_list_manager_logic.c`, line 793) cannot be reached and
  has no action. A file handle that the rename path does not close
  (`minifilter_handlers_logic.c`, line 313) is not counted.
* `PNP_Register` has no caller at this commit: only the scan of `DriverEntry`
  (`main.c`, line 63) runs. `Drives` models the notification as if it were
  registered, after that scan has created the mutex. The readers of the list that
  take no mutex (`is_Drives_PATH`, the search of a device's thread) are single
  steps. The thread of a device that has been unplugged scans for ever, and
  `MyNotificationRoutine` waits for ever for a thread that could not copy its
  arguments (`PNP_mount_management_logic.c`, lines 34-37); `PlugIsNoticed` names
  the first as its exception. Unmounting changes nothing in the code and is not an
  action.
* The server asks for an executable by its path and saves what comes under the
  SHA256 of the record; neither side compares the two, and an agent that cannot read
  a file it has opened sends zeros of its length
  (`EXE_bin_reqeust_processing_logic.c:40`). `SavedFileIsTheFile` is about which
  request an answer belongs to, not about its content.
* KMUTEX, the I/O manager, the pool and the agent's machine are external. An
  allocation may fail wherever the code tests for it, and where it does not the
  failure stops the machine.

## 3. Runs

| Run | What it shows | Bounds |
|---|---|---|
| `kmutex` | From its first use on, the lock implements `ExclusiveUse` unless two threads have created it (`ImplementsExclusiveUse`); releases that are skipped because another thread's late line 29 has cleared `is_Lock` never pile up (`OrphanDepthBounded`). | three threads, looping |
| `collected` | From the lock's first use on: unless two threads have created it, nothing appended is lost, repeated or reordered (`Accounting`), answers are well formed, and the communication thread always comes back, also after a skipped release (`PollComesBack`). In any case the worker never uses a stack record whose callback has returned, and no worker ends while its callback waits (`CallbackIsReleased`). | two events, two polls, send failures with and without delivery |
| `center` | With statements that may fail: every thread reads the answer to its own request and saves it for the file it asked for, unless the stream was disturbed by a late answer or a doubled Yes (`AnswersMatch`, `SavedFileIsTheFile`); a session that dies without leaving the registry is one of a server in which no statement succeeds any more (`LostSessionStopsTheServer`); a poisoned stream ends its session; a silent agent leaves the registry. | a session, two parsers, a GUI thread, one file, two unread answers |
| `center_duplicate_rows` | `OneRowPerFile` is violated: two parsers insert the same SHA256. | two sessions, two parsers |
| `ioctl` | As long as nothing is late (`calm`): nobody uses a completed request (`NoFault`); the n-th `START_HOOKING` works on the n-th process the driver asked for, although request and argument are shared (`HookedAsAsked`); every process asked for gets one, and goes without the DLL only for a low PID or when Windows refuses (`EveryRequestTried`). With any timing: the loader hears only the server's verdict. | four processes when calm, one with a PID of 1000, two otherwise; one hooked process that reports |
| `session` | The answers of a session are delivered whole, once and in order until a call fails (`ImplementsFrameDelivery`), and the end of a frame is passed only with a third piece when another frame is behind it (`OverreadNeedsThreePieces`); the j-th answer is late by at most the rules accepted before (`StaleOnlyAfterDoubledYes`); `TCP_session` is used by one thread at a time and left held only by a lost connection; while nothing is broken every command is answered. | three commands (one once something is out of step), pieces of one byte or of all there is, records of nine bytes |
| `rules` | A rule in force stays in force, whatever the threads that add rules and a scan do to the list they share (`ImplementsRuleSet`); what a callback leaves of a handle follows the rules, although it consults them one at a time (`HandlesFollowTheRules`); a callback never follows a NULL, and a look-up only before the first rule (`StopsOnlyBeforeTheFirstRule`). | two commands or scans, two paths, one callback, one failure, five nodes |
| `rules_removal` | `RemovalEnds` is violated: the removal of a rule spins with the mutex of the list held. | two commands, no callback |
| `dlp` | What an undisturbed handler records is what the file held (`RecordedAsSeen`), although it reads the SHA256 once and looks the file up in three calls; a second node for a file needs a change between two of them (`DuplicateNeedsAChange`); a NULL is used only after an allocation failed, or when the first type is registered between the two looks a handler takes at the list (`FaultNeedsACause`). | a file on the system drive and one on a USB drive, which may have the same index; two types, two contents, two nodes, commands of up to two fields |
| `dlp_types` | `NewTypeCanBeAdded` is violated: once a type is registered, the server can add no other. | the same |
| `dlp_external` | `ExternalIsBlocked` is violated: a query of a USB file that could not be opened passes once any other file has been opened. | the same |
| `drives` | After a scan of a directory that stayed as it was, each volume with a letter is found, with its last letter and the class of the last entry about it, of its own path or of its serial number (`ScanClassifies`); the list breaks only after a failure or when a letter has moved (`BreaksOnlyWithACause`); the thread of a device that stays plugged in ends (`PlugIsNoticed`). | three directories of up to six entries, one change, two devices, one failure |

Why the bounds are enough to be interesting. The lock's code has no counter: the
third thread is there because the skipped release needs an owner, a late
releaser and a newcomer. Two events and two polls cover an append before,
during and after a send, and a poll that finds nothing; the first users of the
lock may be any of the three threads. In `center`, the session, two parsers and a
GUI thread compete for one stream, and `MaxPending = 2` gives a doubled Yes; two
sessions are needed for the race of parsers of different agents that
`center_duplicate_rows` shows. In `ioctl` the behaviour of one process
repeats; `calm` is an assumption that is chosen in the initial state and never
changes, and `MaxRaced` bounds the list for the behaviours without it. In `session`, nine bytes are enough for a first, a second
and a third piece of which the third passes the end; a doubled Yes and two more
commands show that answers stay late by one; `MaxAdrift` and `MaxFrames` bound
only what happens after a direction is out of step, about which no property but
those of the mutex says anything, and `MaxDepth = 2` shows `TCP_session` held
once too often and then again.

In `rules`, two commands or scans
besides the loader's rule give two rules in one section, a section of paths in
front of it or behind it, and a callback that begins before a rule and ends
after it; one failure shows each path out of an allocation.

In `dlp`, a list has at most one type, so two types show that the second is
refused, and a command of two fields that only its first counts. Two nodes give a
file of each drive one, or one file two. Two contents are enough for "the file has
changed". Handlers and commands are not bounded. In `drives` the directories hold a
hard disk with a stick and a second device whose path begins with the stick's; a
stick with two partitions under one serial number, whose second entry comes after
the letter of the first partition and so decides its class; and a letter that has gone to
another stick. One change of the directory during any scan, and one failure
anywhere, show each way a node can be left half made.

`collected` follows a lock that two threads have created only as long as at most
two threads have come near it (the constraint `Followed`, with `MaxRaced = 2`). No
property is checked on less for it: those that need the lock hold trivially once
two threads have created it, and the two about a callback and its worker concern
one event at a time. A state that the constraint cuts off is one with `~CreatedOnce`,
where `PollComesBack` has been fulfilled.

`CHECK_DEADLOCK FALSE` is set where the system stops: the machine has been
stopped, the bounded inputs are used up, or every session has ended.

### Fairness

* `CollectedData`: the kernel runs every worker that can run (weak fairness), and
  a KMUTEX is given to its waiters in the order they came, so the communication
  thread is not overtaken for ever (strong fairness of its steps, the lock's
  included). No process has to start and no server has to poll.
* `CenterServer`: every thread that can run runs. `std::sync::Mutex` promises no
  turns, so the fairness of waiters is weak, and `SilentAgentLeaves` excepts GUI
  programs that keep taking the stream for ever.
* `AgentSession`: the kernel runs both threads, and a read of the server returns
  within its time-out. Nothing has to be sent and the connection need not break.
* `ActionRules` (for `rules_removal`): the kernel runs a thread that can go on.
  Nobody has to send a command, to open a handle or to start a scan.
* `Drives`: the threads run, and `Get_Volume_KMUTEX` goes to the thread that has
  waited longest, so entering is strongly fair: a device's thread that scans again
  and again cannot keep another out. Devices need not come or go.
* `UserIoctl`: weak fairness of the threads of the driver and the loader. None
  for hooked processes and for the server.

## 4. Findings

Each of these is a run that TLC must find violated, with the line of the
repository that says otherwise:

* `center_duplicate_rows`: the unique rows of `Agent_1vs1_Manager.rs:429` against a
  look-up and an insert in separate statements.
* `rules_removal`: the removal of a rule
  (`Process_ObRegisterCallback_processing_logic.c:127`) against the loop of
  `Parallel_Linked_List_logic.c:294` that does not advance.
* `dlp_types`: the "duplicate check" of `RUST_DLP_Get_File_Signatures_logic.c:32` and
  the list of several types (line 58) against an `is_same` that is TRUE from
  line 34 on: after the first type every other one is refused as registered.
* `dlp_external`: "block all external disks" (`minifilter_handlers_logic.c:421`)
  against one flag for all files, which the CREATE of any other file sets.

What follows was met while modelling, is part of the models, and has no run of
its own:

* The exclusion `SEND_or_SAVE_logic.c:11` relies on holds only if two threads do
  not create the lock at once (`Mutex_with_Lock_logic.c:6`). If the first two users
  do, both are inside, and a record can be lost: `Accounting` and everything else
  that needs the lock has `CreatedOnce` as its condition, in the run and in the
  theorems.
* `TCP_conn_logic.c:58` means to go on when the connection breaks, and waits for an
  event nobody sets.
* `communication_GUI_program_for_connection.rs:287` calls the branch that tells a
  GUI Yes the one for a success answer, and the match distinguishes only `Some`
  from `None`; a No of the agent is `Some` too.
* A renaming that changes the extension is compared with the SHA256 of the first
  file of a type only (`policy_signature_list_manager_logic.c`, lines 161-165, for
  the call in `minifilter_handlers_logic.c:345`).
* `keep_DENIED` is meant to stay through later calls (`minifilter_handlers.h:41`), and
  the CREATE of any file clears it (`minifilter_handlers_logic.c:213`).
* `is_Drives_PATH` compares all but the last character of a drive's path
  (`Get_Volumes_logic.c:658`), so drives whose paths differ only there are one; the
  filter believes it has the drive of the file.
* A USB device that was plugged in keeps its node under the path of the device,
  and its volume is never found by that node's path.
* When two nodes have one letter, the second one is freed while the walk stands
  on it (`Get_Volumes_logic.c`, lines 782-786).

## 5. Proofs

`KernelMutexProofs` is about any set of threads, from the uncreated lock on. The
invariant is that as long as one object exists, its creator initialises it
before anybody passes, every waiter aims at it, and whoever is critical owns it
(`ColdInv`, `OneObject`); mutual exclusion follows from ownership alone, and
`is_Lock` plays no part. `LockImplementsExclusiveUse` is the refinement: the
wait is `Take`, the call of (or the skipped) `KeReleaseMutex` is `Give`, and a
second creation gives the promise up. `CollectedDataProofs` builds on the step
lemma of `ColdInv`.

`OrphansStayShallow` bounds how often an orphaned mutex is acquired by its owner
(`OrphanDepthBounded`) by the number of threads, which has to be finite
(`ThreadsAreFinite`, the only hypothesis). The depth grows only when a release is
skipped, which takes a thread that clears `is_Lock` late; a thread is late once,
because its next call waits for the orphan. `DepthInv` says so as a budget: the
depth, and the depth still to come from the owner's own call and from the late
threads (`Reserve`), stay within the number of threads.

`CollectedDataProofs` is about any set of events and any number of polls, and
about the lock from its first use on. Its invariant says that a thread inside an
operation is in the critical section, whatever the lock has come to (`SectionInv`);
as long as the lock has been created once, `ColdInv` makes that one thread, and the
invariant says what its draft is at each label, what is in the buffer and what has
reached the server (`DraftInv`, `WireInv`, `Accounting`). `NothingIsLost`,
`AnswersAreWellFormed` and `SentBufferIsFreed` follow, with that condition. A second
creation cannot be undone, since `created` only grows (`OnceBefore`), so every step
to a state with one creation comes from one. `StackRecordStaysAlive` and
`CallbacksAreReleased` need no lock: a record is used only while its callback waits,
and a worker that is through has set the event.

`CenterServerProofs` is about any sets of sessions, parsers, GUI threads and
files. The invariant ties the label of a thread to the stream it holds, and the
unread answers of an undisturbed stream to the request of its holder.
`LostSessionsStopTheServer` rests on where a panic comes from: a session that has
died while registered died on a poisoned stream or in a statement, and a stream is
poisoned only after the database (`OnlyTheDatabasePoisons`); with the database's
mutex poisoned, every `lock().unwrap()` on it kills its thread (`PoisonedStatement`).

The first part of `AgentSessionProofs` is about a stream of its own, with frames
of any sizes read in any pieces. Its invariant is `StreamInv`: `Layout`
says that frames stand one behind the other; while nothing has failed the reader
stands at the end of the frame it returned last, or `trace` bytes into the data
of the next (`ReaderInv`), and `BufferInv` gives the size of the buffer for each
number of pieces. `StreamImplementsFrameDelivery` is the refinement: the read that
makes the lengths equal is `Take`, the write of a length is `Send`. The only
hypothesis is that what is taken for a length is a number (`JunkIsLength`, which
`AgentSession` assumes of its constant).

The second part is about any commands, answers and bounds. Every step of
the session is a step of the stream or leaves it alone (`StreamStep`), so the
theorems on streams carry over. `HoldInv` counts the acquisitions of `TCP_session`
against the place in the loop, with the observation that a lost session is lost
for good (`Lost`); `AnswerInv` numbers the commands (`Taken`) and the answers
there will be (`Planned`), and `SessionStale` follows.

`DlpFilterProofs` is about any names, types, files and commands. A list has at
most one type (`FirstTypeStays`), so each walk is a question about its first
element, and a search among the files is `SelectInSeq`, whose result exists
because the naturals are well founded (`MinExists`); nothing else is needed of
sequences, and no induction. For `FaultHasACause` the invariant says which
pointers may be NULL: without a failed allocation every node has a path and the
current pointer is the last one's. For `OneNodeUndisturbed` and `SeenIsRecorded` it
says what an undisturbed handler knows at each step (`Saw`): the content it has
read is the file's, and the node it is about to compare or change is the first
one with the file's index.

`ActionRulesProofs` is about any commands, paths, callbacks and number of nodes,
and about the pointers themselves. Until an allocation fails or freed memory is
read (`~Short`), the pool is one list (`Listing`): the next pointers from the
first node on go through every node of the pool once, each node's previous
pointer leads back, the current pointer is the last node, and a section's nodes
name its first one, which stands before them and after the first nodes of all
smaller sections (`Linked`, `Sections`). `Build_up_Node` extends such a list by a
node, and the walk of `Remove_Node_with_Search_Value`, which relinks a node's
neighbours before it frees the node, keeps the nodes it passes over, in their
order. Both walks are recursive functions of the number of steps. What they
compute is proved by the least counterexample (`MinExists`), which needs no
induction theorem: the naturals are well founded, a set of numbers at which the
claim fails would have a least member, and the equation of the function refutes
it. The other invariants are `Base`, which holds with any failures and gives
`RulesTypeCorrect`, and `Handling`, which says of each feature a callback is
through with what has become of the handle's right: no rule in force when the
callback began leaves it its right, and a handle that has lost one has a rule for it.
`RulesImplementRuleSet` is the refinement: the append of a rule is the step of the
abstract set, every other step, a removal by the scan included, leaves it alone,
and the first shortage, or read of freed memory, gives the promise up.

`DrivesProofs` is about any volumes, devices and serial numbers, and directories of
any content and order. For `BreaksOnlyWithACause` its invariant is `Sound`: every
letter of a node has stood for the node's volume, and no node but the first of its
path has one; so two nodes with one letter mean that the letter has moved. What
the pass after an entry keeps is some of the nodes, in their order (`Picked`). For
`ScanClassifies`, as long as nothing has failed, every node stays and each volume
and each serial number has one node (`Whole`); `Effect` says what an entry of each
kind does to such a list, and `Known` what the scan has read of a volume and its
node still says. It assumes that no USB device has the path of a volume
(`PathsApart`, an assumption of `Drives`): `UsbEntry` looks for the serial number
only, and would add a second node for such a path. The entries have to be
those *about* a volume, not those of its path: the second partition of a stick,
listed after the letter of the first, finds the first one's node by the serial
number they share and overwrites its class. The run has such a directory.

`UserIoctlProofs` is about any list of processes and any hooked processes that
report. `LoaderHearsTheVerdict` and `SuppliedIdSent` hold with any timing: before
the server has answered no buffer holds a verdict (`VerdictInv`), and a request
with an AGENT_ID never turns into one without (`IdInv`). `CalmHasNoFault` and
`HookedInOrder` (the n-th `START_HOOKING` works on the n-th process asked for, from
its first look at the PID to whatever end) assume that nothing is late. Their
invariant has four parts:
only the loader's request exists and the pointer is to it from `Point` on
(`LoaderInv`); the event is set only for a request that waits, and the first one
is completed before the server can answer (`WakeInv`); while a sender writes, the
request stays where it can be answered (`SenderInv`); and the last PID sent is in
the request, or is the argument of the last injector, or that injector is through
(`HookInv`).
Neither the shared pointer nor `move_data` is protected by anything else.

Every constant's assumption is named in its module, and TLC evaluates it in the
module's runs. Some theorems state what no run lists: the exclusion of the lock
(`ExclusionFromTheFirstUse`, `SettledLockNeverStops`), `SentBufferIsFreed`,
`OnlyTheDatabasePoisons`, `SessionIsHeld`, and `SuppliedIdSent`.

Every invariant and action property of a passing run, and every refinement, is
stated by a theorem. Model-checked only is liveness (`PollComesBack`,
`PoisonEndsSession`, `SilentAgentLeaves`, `EveryRequestTried`,
`EveryCommandAnswered`, `PlugIsNoticed`), which is out of the prover's reach, and
what the four runs with an expected violation show.

## 6. Plan

1. Done: the lock, the collector, the server's threads, the user-mode channel.
2. Done: framed streams, and the agent's session with its mutex.
3. Done: the list, and the action rules with the object callback and the scan
   that share it; abstract specification: a set of rules.
4. Done: file signature policies with the minifilter and its global record; drives
   and the notification of devices.
5. Done: proofs of every safety property the runs check, the list's pointers and
   the scan of the drives included. Left: what still holds of the
   list of rules after a shortage.
6. Modules left: the length-based codec with PLIST, and the AI client.

## 7. Not modelled

* The length-based codec and PLIST (`Length_Based_*`, `PLIST_*`): sequential
  conversions without state of their own; the models that use them take a
  record for what it encodes to. Two things a reader of them should know:
  `REMOVE__ALL_LIST` leaves the head node allocated although its comment
  (`PLIST_node_logic.c:64`) says that all nodes are deleted, and a node that
  `APPENDLIST` could not allocate is a NULL the next call follows.
* The AI client of the server (`connect_AI_analyser.rs`): not started by `main.rs`.
* System queries, hashing and string conversions: no state.
* The legacy action list: no longer called.
* The hook DLL and the AI service: the repository holds only a Readme of each.
* Parts of modelled components that are left out are named in the `note` of each
  component in `PROJECT.json`.
