-------------------------- MODULE SignaturePolicies --------------------------
(***************************************************************************)
(* The two-dimensional list of policy_signature_list_manager_logic.c: a    *)
(* list of file types (signatures), each with the list of the files of     *)
(* that type the driver has met.  A file node holds the index the file     *)
(* system gave the file, its path and the SHA256 of its content.           *)
(*                                                                         *)
(* The operators are the modes of Policy_Signature_Compare and what they   *)
(* call; the index of the file and its SHA256 are arguments, since the     *)
(* caller's step decides what the file system answers.  A content stands   *)
(* for its SHA256.  The times of a file are left out: every caller passes  *)
(* NULL for them.                                                          *)
(***************************************************************************)
EXTENDS Naturals, SequencesExt

CONSTANTS
    Names,     \* names of files, also of those that a renaming asks for
    Paths,     \* the names files have
    None,      \* no path, no file, no answer
    Types,     \* extensions that the server registers
    Indices,   \* what the file system calls a file
    Contents,  \* what a file can hold
    Suffix     \* Suffix[p]: the types that name p ends with

ASSUME SignatureAssumption ==
    /\ Paths # {} /\ Paths \subseteq Names
    /\ None \notin Names /\ None \notin Indices /\ None \notin Contents
    /\ None \notin [index: Indices, content: Contents]
    /\ Suffix \in [Names -> SUBSET Types]

FileNode == [index: Indices, path: Paths \cup {None}, sha: Contents]

\* tail is FALSE when the current pointer is NULL although there are files
Signature == [ext: Types, files: Seq(FileNode), tail: BOOLEAN]

\* Create_Policy_Signature_Node.
NewSignature(e) == [ext |-> e, files |-> <<>>, tail |-> FALSE]

-----------------------------------------------------------------------------
\* The number of the first node of the file with index i, 0 if there is none:
\* the comparison Get_or_Set makes in every mode but the one of renaming.
NodeOf(files, i) == SelectInSeq(files, LAMBDA n : n.index = i)

HasNode(sig, i) == NodeOf(sig.files, i) # 0

IsRecorded(sig, i, Test(_)) ==
    /\ HasNode(sig, i)
    /\ Test(sig.files[NodeOf(sig.files, i)])

\* COMPARE mode: the signature the walk ends at.  It goes past one whose type
\* the path does not have, unless the file is recorded there.
ComparedTo(sigs, p, i) ==
    SelectInSeq(sigs, LAMBDA s : s.ext \in Suffix[p] \/ HasNode(s, i))

\* SAVE mode: the signature of the path's type.
SignatureOf(sigs, p) == SelectInSeq(sigs, LAMBDA s : s.ext \in Suffix[p])

\* The modes that look for a SHA256 or for a path: the walk gives up at the
\* first signature without files.
Found(sigs, i, Test(_)) ==
    LET end == SelectInSeq(sigs, LAMBDA s : s.files = <<>> \/ IsRecorded(s, i, Test))
    IN  end # 0 /\ sigs[end].files # <<>>

\* Mutant: the result of memcmp taken the wrong way.
HasOtherSha(sigs, i, sha) == Found(sigs, i, LAMBDA n : n.sha # sha)

HasSha(sigs, i, sha) == Found(sigs, i, LAMBDA n : n.sha = sha)

HasPath(sigs, i, p) == Found(sigs, i, LAMBDA n : n.path = p)

\* The mode of renaming: types the new name has end the walk, and of the
\* others only the first file is compared.
LeavesItsType(sigs, new, sha) ==
    LET end == SelectInSeq(sigs, LAMBDA s :
                   \/ s.ext \in Suffix[new]
                   \/ s.files # <<>> /\ s.files[1].sha = sha)
    IN  end # 0 /\ sigs[end].ext \notin Suffix[new]

\* A node that lost its path keeps the length of it: comparing it with a path
\* of that length, or replacing it, uses the NULL pointer.
LostItsPath(sigs, i) ==
    \E j \in DOMAIN sigs : IsRecorded(sigs[j], i, LAMBDA n : n.path = None)

-----------------------------------------------------------------------------
\* Mutants: the SHA256 and the path swapped; the current pointer not stored.
RecordedSwapped(sig, i, p, sha) ==
    [sig EXCEPT !.files = Append(@, [index |-> i, path |-> sha, sha |-> p]),
                !.tail = TRUE]

RecordedBehind(sig, i, p, sha) ==
    [sig EXCEPT !.files = Append(@, [index |-> i, path |-> p, sha |-> sha])]

\* Create_ or Append_Policy_Signature_files_Node, when there is pool for it.
Recorded(sig, i, p, sha) ==
    [sig EXCEPT !.files = Append(@, [index |-> i, path |-> p, sha |-> sha]),
                !.tail = TRUE]

\* The same when there is none: the current pointer is NULL then.
NotRecorded(sig) == [sig EXCEPT !.tail = FALSE]

\* Append_ writes through its argument, the current pointer.
AppendsToNull(sig) == sig.files # <<>> /\ ~sig.tail

\* The three set modes: the first signature only, whatever the type.
WithNode(sigs, i, Edit(_)) ==
    IF sigs # <<>> /\ HasNode(sigs[1], i)
    THEN [sigs EXCEPT ![1].files[NodeOf(sigs[1].files, i)] = Edit(@)]
    ELSE sigs

SetSha(sigs, i, sha) ==
    WithNode(sigs, i, LAMBDA n : [n EXCEPT !.sha = sha])

SetPath(sigs, i, p) ==
    WithNode(sigs, i, LAMBDA n : [n EXCEPT !.path = p])

-----------------------------------------------------------------------------
\* is_same of the registration: TRUE before the loop, which only sets it.
RefusesToRegister(sigs) == sigs # <<>>

\* Remove_Specified_Policy_Signature_Node: the first type that differs from e.
Without(sigs, e) ==
    LET victim == SelectInSeq(sigs, LAMBDA s : s.ext # e)
    IN  IF victim = 0 THEN sigs ELSE RemoveAt(sigs, victim)
=============================================================================
