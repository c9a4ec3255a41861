---------------------------- MODULE ParallelList ----------------------------
(***************************************************************************)
(* The driver's shared list (Parallel_Linked_List_logic.c): one doubly     *)
(* linked list that holds the nodes of several users, told apart by a      *)
(* search value ('Actn' for action rules, 'Dirs' for paths of a directory  *)
(* scan).  Nodes that were added through the same output pointer form a    *)
(* section: they share an index and the address of their first node, and   *)
(* the last of them is marked.                                             *)
(*                                                                         *)
(* The operations here are what the functions do with the mutex held; the  *)
(* tests they make before they take it are steps of their callers.  That   *)
(* the mutex excludes is KernelMutex's business.  NODE_RELATION_INDEX is   *)
(* left out: only a function without a caller reads it.                    *)
(***************************************************************************)
EXTENDS Naturals, FiniteSets, SequencesExt

CONSTANTS
    Null,      \* the NULL pointer
    MaxNodes,  \* bound: the nodes there is pool for at a time
    Contents   \* what a node can hold

Node == 1..MaxNodes

Tag == {"Actn", "Dirs"}

ASSUME ParallelListAssumption ==
    /\ MaxNodes \in Nat
    /\ Null \notin Node

VARIABLES
    node,     \* node[n]: the memory of node n, freed or not
    pool,     \* the nodes that are allocated
    start,    \* external_start_node
    current,  \* external_current_node: the last node, NULL if the list is empty
    section,  \* external_current_NODE_SECTION_INDEX
    reused    \* history: freed memory was read after somebody else had got it

list == <<node, pool, start, current, section, reused>>

Pointer == Node \cup {Null}

Memory == [prev : Pointer, next : Pointer, first : Pointer, index : Nat,
           tag : Tag, data : Contents, last : BOOLEAN]

ListTypeOK ==
    /\ node \in [Node -> Memory]
    /\ pool \subseteq Node
    /\ start \in Pointer /\ current \in Pointer
    /\ section \in Nat
    /\ reused \in BOOLEAN

ListInit ==
    /\ node = [n \in Node |-> [prev |-> Null, next |-> Null, first |-> Null, index |-> 0,
                              tag |-> "Dirs", data |-> CHOOSE content \in Contents : TRUE,
                              last |-> FALSE]]
    /\ pool = {}
    /\ start = Null /\ current = Null
    /\ section = 0
    /\ reused = FALSE

-----------------------------------------------------------------------------

(* Where a walk goes on; NULL stays NULL.                                  *)
Following == [m \in Pointer |-> IF m = Null THEN Null ELSE node[m].next]

(* The pointers a walk from n on meets, in the order of Next_Node.         *)
Walk(n) ==
    LET met[k \in Node] == IF k = 1 THEN n ELSE Following[met[k - 1]]
    IN  met

(* ... and the nodes among them, which come first.                         *)
Chain(n) == [k \in {j \in Node : Walk(n)[j] # Null} |-> Walk(n)[k]]

(* The list has nodes, as far as the tests before the mutex can tell.      *)
Listed == start # Null /\ current # Null

(* Get_Node_2Dim from line 546 on: the first node with this search value   *)
(* and these contents, NULL if there is none.                              *)
NodeWith(tag, data) ==
    LET chain == Chain(start)
        hit   == SelectInSeq(chain, LAMBDA n : node[n].tag = tag /\ node[n].data = data)
    IN  IF hit = 0 THEN Null ELSE chain[hit]

-----------------------------------------------------------------------------

Fresh == Min(Node \ pool)

(* Create_Node, and the end of Append_Node: a node at the end of the list. *)
(* Those of the section that were marked as its last are not any more.     *)
Link(tag, data, index, first, ends) ==
    /\ pool # Node
    /\ pool' = pool \cup {Fresh}
    /\ node' = [n \in Node |->
           IF n = Fresh
           THEN [prev |-> current, next |-> Null, index |-> index, tag |-> tag,
                 first |-> IF first = Null THEN n ELSE first, data |-> data, last |-> TRUE]
           ELSE [node[n] EXCEPT !.next = IF n = current THEN Fresh ELSE @,
                                !.last = @ /\ n \notin ends]]
    /\ start' = IF current = Null THEN Fresh ELSE start
    /\ current' = Fresh

(* They return NULL, and external_current_node becomes it.                 *)
LinkFails(ends) ==
    /\ node' = [n \in Node |-> [node[n] EXCEPT !.last = @ /\ n \notin ends]]
    /\ start' = IF current = Null THEN Null ELSE start
    /\ current' = Null
    /\ UNCHANGED pool

(* Build_up_Node with *is_init: a new section.                             *)
NewSection(tag, data, short) ==
    /\ section' = section + 1
    /\ IF short THEN LinkFails({}) ELSE Link(tag, data, section', Null, {})

(* What Append_Node takes for the ends of output's section: its walk goes  *)
(* on behind the first.                                                    *)
Section(output) == Chain(node[output].first)

Ends(output) ==
    {n \in ToSet(Section(output)) : node[n].index = node[output].index /\ node[n].last}

(* Build_up_Node without it: a node for the section of output.  A list     *)
(* that looks empty is begun anew.  The walk allocates a node for every    *)
(* end it meets, links the last of them and gives up where one fails.      *)
ToSection(tag, data, output, short) ==
    /\ UNCHANGED section
    /\ LET index    == node[output].index
           ends     == Ends(output)
           until(k) == {Section(output)[j] : j \in 1..(k - 1)}
       IN  IF current = Null
           THEN IF short THEN LinkFails({}) ELSE Link(tag, data, index, Null, {})
           ELSE \/ ~short /\ ends # {} /\ Link(tag, data, index, node[output].first, ends)
                \/ ~short /\ ends = {} /\ LinkFails({})
                \/ /\ short
                   /\ \E k \in DOMAIN Section(output) :
                         Section(output)[k] \in ends /\ LinkFails(ends \cap until(k))

-----------------------------------------------------------------------------

IsDirs(n) == node[n].tag = "Dirs"

(* The place of the first node of 'Dirs' in the chain, 0 if there is none. *)
Detected == SelectInSeq(Chain(start), IsDirs)

Behind == {Chain(start)[k] : k \in {j \in DOMAIN Chain(start) : 0 < Detected /\ Detected < j}}

(* Mutant: every node behind the first of 'Dirs' goes.                     *)
DoomedBehind == Behind \cup {n \in ToSet(Chain(start)) : IsDirs(n)}

Doomed == {n \in ToSet(Chain(start)) : IsDirs(n)}

(* The nodes behind the first of 'Dirs' whose index is higher: the walk    *)
(* lowers it.                                                              *)
Lowered ==
    {n \in Behind : ~IsDirs(n) /\ node[n].index > node[Chain(start)[Detected]].index}

(* The places of the nodes that stay, and the nodes at the ends of a part  *)
(* of them.                                                                *)
Stay == {k \in DOMAIN Chain(start) : Chain(start)[k] \notin Doomed}

FirstOf(places) == IF places = {} THEN Null ELSE Chain(start)[Min(places)]

LastOf(places) == IF places = {} THEN Null ELSE Chain(start)[Max(places)]

(* What Remove_Node_internal, called for the doomed nodes, makes of the    *)
(* one at place k.                                                         *)
Relinked(k) ==
    LET n == Chain(start)[k]
    IN  [node[n] EXCEPT !.prev = LastOf({j \in Stay : j < k}),
                        !.next = FirstOf({j \in Stay : j > k}),
                        !.index = IF n \in Lowered THEN @ - 1 ELSE @]

(* The highest index of all that the walk has met behind the first node of *)
(* 'Dirs', if it reads these for the nodes removed.                        *)
Highest(removed) == Max({node[n].index - 1 : n \in Lowered} \cup removed \cup {0})

(* Remove_Node_with_Search_Value: every node of 'Dirs' goes, whichever     *)
(* section it belongs to.  The walk reads the index of a node it has just  *)
(* freed.  Where the memory has a new owner by then it reads anything; a   *)
(* number beyond those in use stands for all of them (bound).              *)
RemoveDirs ==
    /\ node' = [n \in Node |->
           IF \E k \in Stay : Chain(start)[k] = n
           THEN Relinked(CHOOSE k \in Stay : Chain(start)[k] = n)
           ELSE node[n]]
    /\ pool' = pool \ Doomed
    /\ start' = FirstOf(Stay)
    /\ current' = LastOf(Stay)
    /\ \/ section' = Highest({node[n].index : n \in Doomed}) /\ UNCHANGED reused
       \/ /\ Doomed # {}
          /\ section' \in Highest({})..(section + 1)
          /\ reused' = TRUE

(* With external_current_node NULL the first Remove_Node_internal refuses, *)
(* and the function returns; without a node of 'Dirs' nothing is removed,  *)
(* and the highest index of none is stored.                                *)
RemoveRefused ==
    /\ section' = IF Doomed = {} THEN 0 ELSE section
    /\ UNCHANGED <<node, pool, start, current, reused>>
=============================================================================
