---------------------------- MODULE DrivesProofs ----------------------------
(***************************************************************************)
(* Theorems about Drives, for any volumes, devices, serial numbers and     *)
(* contents of \??.                                                        *)
(*                                                                         *)
(* The pass after each entry frees nodes, and reads on from a node it has  *)
(* freed when two have one letter.  Until something fails, or a letter     *)
(* passes from one volume to another, no two have: a letter stood for the  *)
(* volume of the node that has it, and a volume's first node is the only   *)
(* one that has a letter (Sound).  What a pass keeps is some of the nodes, *)
(* in their order (Picked), by induction over the list.                    *)
(*                                                                         *)
(* While nothing has failed a pass frees nothing but a node just added: a  *)
(* volume and a serial number each have one node (Whole), so an entry is   *)
(* about one volume at most, and what a scan has read of a volume is what  *)
(* its node says (Known).                                                  *)
(***************************************************************************)
EXTENDS Drives, WellFoundedInduction, TLAPS

LEMMA MinExists ==
  ASSUME NEW S \in SUBSET Nat, S # {}
  PROVE  Min(S) \in S /\ \A k \in S : Min(S) <= k
<1>1. PICK x \in S : \A y \in S : <<y, x>> \notin OpToRel(<, Nat)
  BY NatLessThanWellFounded, WFMin
<1>2. ASSUME NEW y \in S PROVE x <= y
  <2>1. <<y, x>> \notin OpToRel(<, Nat)
    BY <1>1
  <2> QED BY <2>1 DEF OpToRel
<1> QED BY <1>2 DEF Min

-----------------------------------------------------------------------------
(* What Complete_ALL_DEVICE_DRIVED_Node keeps                              *)

\* f goes through the nodes and collects those that stay.
Collects(f, nodes) ==
  f = [k \in 0..Len(nodes) |->
         IF k = 0 THEN <<>>
         ELSE IF Stays(nodes[k]) THEN Append(f[k - 1], nodes[k]) ELSE f[k - 1]]

Collector(nodes) ==
  LET kept[k \in 0..Len(nodes)] ==
        IF k = 0 THEN <<>>
        ELSE IF Stays(nodes[k]) THEN Append(kept[k - 1], nodes[k]) ELSE kept[k - 1]
  IN  kept

LEMMA CollectorCollects ==
  ASSUME NEW nodes, NEW f, Collects(f, nodes)
  PROVE  Collects(Collector(nodes), nodes)
BY DEF Collects, Collector

\* s is some of the first k nodes, in their order.
Picked(s, nodes, k) ==
  /\ s \in Seq(Node)
  /\ \E places \in [1..Len(s) -> 1..k] :
        /\ \A i \in 1..Len(s) : s[i] = nodes[places[i]]
        /\ \A i, j \in 1..Len(s) : i < j => places[i] < places[j]

LEMMA PickNone ==
  ASSUME NEW nodes
  PROVE  Picked(<<>>, nodes, 0)
<1> DEFINE g == [i \in 1..0 |-> 0]
<1>1. g \in [1..Len(<<>>) -> 1..0] /\ \A i \in 1..Len(<<>>) : FALSE
  OBVIOUS
<1> HIDE DEF g
<1>2. <<>> \in Seq(Node) /\ Len(<<>>) = 0
  OBVIOUS
<1>3. /\ \A i \in 1..Len(<<>>) : <<>>[i] = nodes[g[i]]
      /\ \A i, j \in 1..Len(<<>>) : i < j => g[i] < g[j]
  BY <1>1
<1> QED BY ONLY <1>1, <1>2, <1>3, Zenon DEF Picked

LEMMA PickOn ==
  ASSUME NEW nodes \in Seq(Node), NEW k \in 1..Len(nodes), NEW s, Picked(s, nodes, k - 1)
  PROVE  Picked(s, nodes, k) /\ Picked(Append(s, nodes[k]), nodes, k)
<1>0. nodes[k] \in Node /\ s \in Seq(Node) /\ k \in Nat /\ Len(nodes) \in Nat
  BY DEF Picked
<1>1. PICK f \in [1..Len(s) -> 1..(k - 1)] :
        /\ \A i \in 1..Len(s) : s[i] = nodes[f[i]]
        /\ \A i, j \in 1..Len(s) : i < j => f[i] < f[j]
  BY DEF Picked
<1>2. f \in [1..Len(s) -> 1..k]
  BY <1>0, <1>1
<1>3. Picked(s, nodes, k)
  BY <1>0, <1>1, <1>2 DEF Picked
<1> DEFINE r == Append(s, nodes[k])
           g == [i \in 1..Len(r) |-> IF i = Len(r) THEN k ELSE f[i]]
<1>4. /\ r \in Seq(Node) /\ Len(r) = Len(s) + 1 /\ Len(s) \in Nat
      /\ r[Len(r)] = nodes[k] /\ \A i \in 1..Len(s) : r[i] = s[i]
  BY <1>0
<1> HIDE DEF r
<1>5. g \in [1..Len(r) -> 1..k]
  BY <1>0, <1>2, <1>4
<1>6. \A i \in 1..Len(r) : r[i] = nodes[g[i]]
  BY <1>0, <1>1, <1>4
<1>7. \A i, j \in 1..Len(r) : i < j => g[i] < g[j]
  <2> SUFFICES ASSUME NEW i \in 1..Len(r), NEW j \in 1..Len(r), i < j
               PROVE  g[i] < g[j]
    OBVIOUS
  <2>1. i \in 1..Len(s) /\ g[i] = f[i] /\ f[i] \in 1..(k - 1)
    BY <1>0, <1>1, <1>4
  <2>2. CASE j = Len(r)
    BY <2>1, <2>2, <1>0
  <2>3. CASE j # Len(r)
    BY <2>1, <2>3, <1>0, <1>1, <1>4
  <2> QED BY <2>2, <2>3
<1>8. Picked(r, nodes, k)
  <2> HIDE DEF g
  <2> QED BY <1>4, <1>5, <1>6, <1>7 DEF Picked
<1> QED BY <1>3, <1>8 DEF r

\* The nodes can be gone through.
LEMMA CollectorExists ==
  ASSUME NEW nodes \in Seq(Node)
  PROVE  \E f : Collects(f, nodes)
<1> DEFINE n == Len(nodes)
           Part(f, m) == /\ f \in [0..m -> Seq(Node)]
                         /\ \A k \in 0..m :
                              f[k] = IF k = 0 THEN <<>>
                                     ELSE IF Stays(nodes[k]) THEN Append(f[k - 1], nodes[k])
                                          ELSE f[k - 1]
           Bad == {m \in 0..n : ~ \E f : Part(f, m)}
<1>0. n \in Nat
  OBVIOUS
<1>1. \E f : Part(f, 0)
  <2> DEFINE f == [k \in 0..0 |-> <<>>]
  <2>1. Part(f, 0)
    OBVIOUS
  <2> QED BY <2>1
<1>2. ASSUME NEW m \in 1..n, NEW f, Part(f, m - 1) PROVE \E g : Part(g, m)
  <2>0. m \in Nat /\ nodes[m] \in Node /\ f[m - 1] \in Seq(Node)
    BY <1>0, <1>2
  <2> DEFINE end == IF Stays(nodes[m]) THEN Append(f[m - 1], nodes[m]) ELSE f[m - 1]
             g == [k \in 0..m |-> IF k = m THEN end ELSE f[k]]
  <2>1. end \in Seq(Node)
    BY <2>0
  <2>a. f \in [0..(m - 1) -> Seq(Node)]
    BY <1>2
  <2>2. g \in [0..m -> Seq(Node)]
    <3> HIDE DEF end
    <3> QED BY <2>0, <2>1, <2>a
  <2>3. \A k \in 0..m : g[k] = IF k = 0 THEN <<>>
                               ELSE IF Stays(nodes[k]) THEN Append(g[k - 1], nodes[k])
                                    ELSE g[k - 1]
    <3> TAKE k \in 0..m
    <3>1. CASE k = m
      BY <3>1, <2>0, <1>2
    <3>2. CASE k # m
      <4>1. k \in 0..(m - 1) /\ g[k] = f[k] /\ (k # 0 => g[k - 1] = f[k - 1])
        BY <3>2, <2>0
      <4> HIDE DEF g
      <4> QED BY <4>1, <1>2
    <3> QED BY <3>1, <3>2
  <2> HIDE DEF g
  <2> QED BY <2>2, <2>3
<1>3. \E f : Part(f, n)
  <2> HIDE DEF Part
  <2> SUFFICES ASSUME Bad # {} PROVE FALSE
    BY <1>0
  <2> DEFINE m == Min(Bad)
  <2>0. Bad \in SUBSET Nat
    BY <1>0
  <2>1. m \in Bad /\ \A k \in Bad : m <= k
    <3> HIDE DEF Bad
    <3> QED BY <2>0, MinExists
  <2> HIDE DEF m
  <2>2. m \in 1..n /\ m - 1 \in 0..n
    BY <2>1, <1>0, <1>1
  <2>3. \E f : Part(f, m - 1)
    BY <2>1, <2>2, <1>0
  <2> QED BY <2>1, <2>2, <2>3, <1>2
<1>4. PICK f : Part(f, n)
  BY <1>3
<1>5. Collects(f, nodes)
  BY <1>4 DEF Collects
<1> QED BY <1>5

\* What is kept are some of the nodes, in their order.
LEMMA KeptIsPicked ==
  ASSUME NEW nodes \in Seq(Node)
  PROVE  Picked(Kept(nodes), nodes, Len(nodes))
<1> DEFINE n == Len(nodes)
           f == Collector(nodes)
           Bad == {m \in 0..n : ~Picked(f[m], nodes, m)}
<1>0. n \in Nat
  OBVIOUS
<1>1. Collects(f, nodes)
  BY CollectorExists, CollectorCollects
<1>2. Kept(nodes) = f[n]
  BY DEF Kept, Collector
<1> HIDE DEF f
<1>3. \A k \in 0..n : f[k] = IF k = 0 THEN <<>>
                             ELSE IF Stays(nodes[k]) THEN Append(f[k - 1], nodes[k])
                                  ELSE f[k - 1]
  BY <1>1 DEF Collects
<1>4. Bad = {}
  <2> SUFFICES ASSUME Bad # {} PROVE FALSE
    OBVIOUS
  <2> DEFINE m == Min(Bad)
  <2>0. Bad \in SUBSET Nat
    BY <1>0
  <2>1. m \in Bad /\ \A k \in Bad : m <= k
    <3> HIDE DEF Bad
    <3> QED BY <2>0, MinExists
  <2> HIDE DEF m
  <2>2. m # 0
    BY <2>1, <1>3, <1>0, PickNone
  <2>3. m \in 1..n /\ m - 1 \in 0..n
    BY <2>1, <2>2, <1>0
  <2>4. Picked(f[m - 1], nodes, m - 1)
    BY <2>1, <2>3, <1>0
  <2>5. Picked(f[m - 1], nodes, m) /\ Picked(Append(f[m - 1], nodes[m]), nodes, m)
    BY <2>3, <2>4, PickOn
  <2>6. f[m] = IF Stays(nodes[m]) THEN Append(f[m - 1], nodes[m]) ELSE f[m - 1]
    BY <2>3, <1>0, <1>3
  <2> QED BY <2>1, <2>5, <2>6
<1> QED BY <1>0, <1>2, <1>4

-----------------------------------------------------------------------------
(* The searches                                                            *)

Place(I) == IF I # {} THEN Min(I) ELSE 0

LEMMA FirstPlace ==
  ASSUME NEW N \in Nat, NEW I \in SUBSET (1..N)
  PROVE  /\ Place(I) \in 0..N
         /\ Place(I) = 0 => I = {}
         /\ Place(I) # 0 => Place(I) \in I /\ \A i \in I : Place(I) <= i
<1>1. I \in SUBSET Nat
  OBVIOUS
<1>2. CASE I = {}
  BY <1>2 DEF Place
<1>3. CASE I # {}
  <2>1. Min(I) \in I /\ \A i \in I : Min(I) <= i
    BY <1>1, <1>3, MinExists
  <2>2. Place(I) = Min(I)
    BY <1>3 DEF Place
  <2>3. Min(I) \in 1..N
    BY <2>1
  <2> QED BY <2>1, <2>2, <2>3, <1>3
<1> QED BY <1>2, <1>3

LEMMA FirstByPath ==
  ASSUME NEW nodes \in Seq(Node), NEW p
  PROVE  /\ ByPath(nodes, p) \in 0..Len(nodes)
         /\ ByPath(nodes, p) = 0 => \A i \in 1..Len(nodes) : nodes[i].path # p
         /\ ByPath(nodes, p) # 0 =>
               /\ nodes[ByPath(nodes, p)].path = p
               /\ \A i \in 1..Len(nodes) : nodes[i].path = p => ByPath(nodes, p) <= i
<1> DEFINE I == {i \in 1..Len(nodes) : nodes[i].path = p}
<1>1. ByPath(nodes, p) = Place(I)
  BY DEF ByPath, SelectInSeq, Place
<1>2. Len(nodes) \in Nat /\ I \in SUBSET (1..Len(nodes))
  OBVIOUS
<1>3. \A i \in 1..Len(nodes) : i \in I <=> nodes[i].path = p
  OBVIOUS
<1> HIDE DEF I
<1> QED BY <1>1, <1>2, <1>3, FirstPlace

LEMMA FirstBySerial ==
  ASSUME NEW nodes \in Seq(Node), NEW s
  PROVE  BySerial(nodes, s) \in 0..Len(nodes)
<1> DEFINE I == {i \in 1..Len(nodes) : nodes[i].serial = s}
<1>1. BySerial(nodes, s) = Place(I)
  BY DEF BySerial, SelectInSeq, Place
<1>2. Len(nodes) \in Nat /\ I \in SUBSET (1..Len(nodes))
  OBVIOUS
<1> HIDE DEF I
<1> QED BY <1>1, <1>2, FirstPlace

-----------------------------------------------------------------------------
(* The invariant                                                           *)

\* Two volumes have had the same letter.
Moved == \E h, g \in homes : h[1] = g[1] /\ h[2] # g[2]

\* No letter is lost, each one stood for the volume of its node, and only the
\* first node of a volume has one.
Sound(nodes) ==
  /\ \A n \in 1..Len(nodes) :
       /\ nodes[n].letter # Lost
       /\ nodes[n].letter # None => <<nodes[n].letter, nodes[n].path>> \in homes
  /\ \A m, n \in 1..Len(nodes) :
       m < n /\ nodes[m].path = nodes[n].path => nodes[n].letter = None

IInv ==
  /\ TypeOK
  /\ Homes(directory) \subseteq homes
  /\ ~starved /\ ~Moved => /\ ~fault
                           /\ Sound(list)
                           /\ list # <<>> => tail

LEMMA SoundIsWhole ==
  ASSUME NEW nodes \in Seq(Node), Sound(nodes), ~Moved
  PROVE  ~Breaks(nodes)
<1>0. DOMAIN nodes = 1..Len(nodes)
  OBVIOUS
<1>a. \A n \in 1..Len(nodes) : nodes[n].letter # Lost
  BY DEF Sound
<1> SUFFICES ASSUME NEW l \in Letters, NEW m \in 1..Len(nodes), NEW n \in 1..Len(nodes),
                    m < n, nodes[m].letter = l, nodes[n].letter = l
             PROVE  FALSE
  BY <1>0, <1>a DEF Breaks, TwoHave
<1>1. l # None
  BY DrivesAssumption DEF DrivesAssumption
<1>2. <<l, nodes[m].path>> \in homes /\ <<l, nodes[n].path>> \in homes
  BY <1>1 DEF Sound
<1>3. nodes[m].path # nodes[n].path
  BY <1>1 DEF Sound
<1> DEFINE h == <<l, nodes[m].path>>
           g == <<l, nodes[n].path>>
<1>4. h[1] = g[1] /\ h[2] # g[2]
  BY <1>3
<1> QED BY <1>2, <1>4 DEF Moved

LEMMA PickedSound ==
  ASSUME NEW nodes \in Seq(Node), NEW s, Picked(s, nodes, Len(nodes)), Sound(nodes)
  PROVE  Sound(s)
<1>1. PICK f \in [1..Len(s) -> 1..Len(nodes)] :
        /\ \A i \in 1..Len(s) : s[i] = nodes[f[i]]
        /\ \A i, j \in 1..Len(s) : i < j => f[i] < f[j]
  BY DEF Picked
<1>2. s \in Seq(Node) /\ Len(s) \in Nat
  BY DEF Picked
<1>3. ASSUME NEW n \in 1..Len(s)
      PROVE  /\ s[n].letter # Lost
             /\ s[n].letter # None => <<s[n].letter, s[n].path>> \in homes
  BY <1>1 DEF Sound
<1>4. ASSUME NEW m \in 1..Len(s), NEW n \in 1..Len(s), m < n, s[m].path = s[n].path
      PROVE  s[n].letter = None
  <2>1. f[m] < f[n] /\ s[m] = nodes[f[m]] /\ s[n] = nodes[f[n]]
        /\ f[m] \in 1..Len(nodes) /\ f[n] \in 1..Len(nodes)
    BY <1>1, <1>4
  <2> QED BY <2>1, <1>4 DEF Sound
<1> QED BY <1>3, <1>4 DEF Sound

\* What the end of a step makes of the nodes.
LEMMA CompleteType ==
  ASSUME NEW nodes \in Seq(Node), NEW last \in BOOLEAN, fault \in BOOLEAN,
         Complete(nodes, last)
  PROVE  list' \in Seq(Node) /\ tail' = last /\ fault' \in BOOLEAN
  BY KeptIsPicked DEF Complete, Picked

LEMMA CompleteSound ==
  ASSUME NEW nodes \in Seq(Node), NEW last \in BOOLEAN, Complete(nodes, last),
         Sound(nodes), ~Moved, ~fault, nodes # <<>> => last, homes' = homes
  PROVE  ~fault' /\ Sound(list)' /\ (list' # <<>> => tail')
<1>1. ~Breaks(nodes)
  BY SoundIsWhole
<1>2. tail' = last /\ fault' = fault /\ list' = IF last THEN Kept(nodes) ELSE nodes
  BY <1>1 DEF Complete
<1>3. Sound(Kept(nodes))
  BY KeptIsPicked, PickedSound
<1>4. Sound(list')
  BY <1>2, <1>3
<1>5. Sound(list)'
  BY <1>4 DEF Sound
<1> QED BY <1>2, <1>5

-----------------------------------------------------------------------------
(* The entries of the directory                                            *)

LEMMA AddType ==
  ASSUME TypeOK, NEW new \in Node, Add(new)
  PROVE  list' \in Seq(Node) /\ tail' \in BOOLEAN /\ fault' \in BOOLEAN /\ starved' \in BOOLEAN
<1>1. Append(list, new) \in Seq(Node)
  BY DEF TypeOK
<1> QED BY <1>1, CompleteType DEF Add, Fails, TypeOK, drives

LEMMA RenameType ==
  ASSUME TypeOK, NEW n \in 1..Len(list), NEW l \in Letters, NEW type \in Types,
         Rename(n, l, type)
  PROVE  list' \in Seq(Node) /\ tail' \in BOOLEAN /\ fault' \in BOOLEAN /\ starved' \in BOOLEAN
<1>0. list \in Seq(Node) /\ list[n] \in Node
  BY DEF TypeOK
<1>1. ASSUME NEW k \in Letters \cup {None, Lost}
      PROVE  SetLetter(list, n, k) \in Seq(Node)
  <2>1. [list[n] EXCEPT !.letter = k] \in Node
    BY <1>0 DEF Node
  <2> QED BY <1>0, <2>1 DEF SetLetter
<1>2. SetType(SetLetter(list, n, l), n, type) \in Seq(Node)
  <2>1. SetLetter(list, n, l) \in Seq(Node) /\ n \in 1..Len(SetLetter(list, n, l))
    BY <1>0, <1>1 DEF SetLetter
  <2> DEFINE x == SetLetter(list, n, l)[n]
  <2>x. x \in Node
    BY <2>1
  <2>2. [x EXCEPT !.type = type] \in Node
    <3> HIDE DEF x
    <3> QED BY <2>x DEF Node
  <2> QED BY <2>1, <2>2 DEF SetType
<1> QED BY <1>1, <1>2, CompleteType DEF Rename, Fails, TypeOK, drives

LEMMA RetypeType ==
  ASSUME TypeOK, NEW n \in 1..Len(list), NEW type \in Types, Retype(n, type)
  PROVE  list' \in Seq(Node) /\ tail' \in BOOLEAN /\ fault' \in BOOLEAN /\ starved' \in BOOLEAN
<1>0. list \in Seq(Node) /\ list[n] \in Node
  BY DEF TypeOK
<1>1. SetType(list, n, type) \in Seq(Node)
  <2>1. [list[n] EXCEPT !.type = type] \in Node
    BY <1>0 DEF Node
  <2> QED BY <1>0, <2>1 DEF SetType
<1> QED BY <1>1, CompleteType DEF Retype, TypeOK

\* A node for a volume that has none, or a node without a letter.
LEMMA AddSound ==
  ASSUME TypeOK, NEW new \in Node, Add(new), ~starved', ~Moved, ~fault, Sound(list),
         list # <<>> => tail, homes' = homes, new.letter # Lost,
         new.letter # None => /\ <<new.letter, new.path>> \in homes
                              /\ \A i \in 1..Len(list) : list[i].path # new.path
  PROVE  ~fault' /\ Sound(list)' /\ (list' # <<>> => tail')
<1> DEFINE nodes == Append(list, new)
<1>1. /\ nodes \in Seq(Node) /\ Len(nodes) = Len(list) + 1 /\ Len(list) \in Nat
      /\ nodes[Len(nodes)] = new /\ \A i \in 1..Len(list) : nodes[i] = list[i]
  BY DEF TypeOK
<1>2. Complete(nodes, TRUE)
  BY DEF Add, Fails
<1> HIDE DEF nodes
<1>3. ASSUME NEW n \in 1..Len(nodes)
      PROVE  /\ nodes[n].letter # Lost
             /\ nodes[n].letter # None => <<nodes[n].letter, nodes[n].path>> \in homes
  BY <1>1 DEF Sound
<1>4. ASSUME NEW m \in 1..Len(nodes), NEW n \in 1..Len(nodes), m < n,
             nodes[m].path = nodes[n].path
      PROVE  nodes[n].letter = None
  <2>1. m \in 1..Len(list) /\ nodes[m] = list[m]
    BY <1>1, <1>4
  <2>2. CASE n = Len(nodes)
    BY <2>1, <2>2, <1>1, <1>4
  <2>3. CASE n # Len(nodes)
    BY <2>1, <2>3, <1>1, <1>4 DEF Sound
  <2> QED BY <2>2, <2>3
<1>5. Sound(nodes)
  BY <1>3, <1>4 DEF Sound
<1> QED BY <1>1, <1>2, <1>5, CompleteSound

\* A change of a node's class is none to its letter.
LEMMA TypeSound ==
  ASSUME NEW nodes \in Seq(Node), NEW n \in 1..Len(nodes), NEW type \in Types, Sound(nodes)
  PROVE  SetType(nodes, n, type) \in Seq(Node) /\ Sound(SetType(nodes, n, type))
<1> DEFINE r == SetType(nodes, n, type)
<1>1. r \in Seq(Node) /\ Len(r) = Len(nodes)
  <2>0. nodes[n] \in Node
    OBVIOUS
  <2>1. [nodes[n] EXCEPT !.type = type] \in Node
    BY <2>0 DEF Node
  <2> QED BY <2>1 DEF SetType
<1>2. \A i \in 1..Len(nodes) : r[i].letter = nodes[i].letter /\ r[i].path = nodes[i].path
  BY DEF SetType, Node
<1> HIDE DEF r
<1>3. Sound(r)
  BY <1>1, <1>2 DEF Sound
<1> QED BY <1>1, <1>3 DEF r

LEMMA RetypeSound ==
  ASSUME TypeOK, NEW n \in 1..Len(list), NEW type \in Types, Retype(n, type), ~Moved,
         ~fault, Sound(list), list # <<>> => tail, homes' = homes
  PROVE  ~fault' /\ Sound(list)' /\ (list' # <<>> => tail')
<1> DEFINE nodes == SetType(list, n, type)
<1>1. list \in Seq(Node) /\ tail = TRUE
  BY DEF TypeOK
<1>2. nodes \in Seq(Node) /\ Sound(nodes)
  BY <1>1, TypeSound
<1> QED BY <1>1, <1>2, CompleteSound DEF Retype

\* The first node of a volume gets its letter.
LEMMA RenameSound ==
  ASSUME TypeOK, NEW n \in 1..Len(list), NEW l \in Letters, NEW type \in Types,
         Rename(n, l, type), ~starved', ~Moved,
         ~fault, Sound(list), list # <<>> => tail, homes' = homes,
         <<l, list[n].path>> \in homes,
         \A i \in 1..Len(list) : list[i].path = list[n].path => n <= i
  PROVE  ~fault' /\ Sound(list)' /\ (list' # <<>> => tail')
<1> DEFINE mid == SetLetter(list, n, l)
<1>1. list \in Seq(Node) /\ tail = TRUE /\ list[n] \in Node
  BY DEF TypeOK
<1>2. mid \in Seq(Node) /\ Len(mid) = Len(list)
  <2>1. [list[n] EXCEPT !.letter = l] \in Node
    BY <1>1 DEF Node
  <2> QED BY <1>1, <2>1 DEF SetLetter
<1>3. \A i \in 1..Len(list) : /\ mid[i].letter = IF i = n THEN l ELSE list[i].letter
                              /\ mid[i].path = list[i].path
  BY <1>1 DEF SetLetter, Node
<1> HIDE DEF mid
<1>4. Sound(mid)
  <2>1. l # Lost
    BY DrivesAssumption DEF DrivesAssumption
  <2>2. ASSUME NEW i \in 1..Len(mid)
        PROVE  /\ mid[i].letter # Lost
               /\ mid[i].letter # None => <<mid[i].letter, mid[i].path>> \in homes
    BY <1>2, <1>3, <2>1 DEF Sound
  <2>3. ASSUME NEW i \in 1..Len(mid), NEW j \in 1..Len(mid), i < j, mid[i].path = mid[j].path
        PROVE  mid[j].letter = None
    <3>1. list[i].path = list[j].path
      BY <1>2, <1>3, <2>3
    <3>2. j # n
      BY <1>1, <1>2, <2>3, <3>1
    <3> QED BY <1>2, <1>3, <2>3, <3>1, <3>2 DEF Sound
  <2> QED BY <2>2, <2>3 DEF Sound
<1>5. SetType(mid, n, type) \in Seq(Node) /\ Sound(SetType(mid, n, type))
  BY <1>2, <1>4, TypeSound
<1>6. Complete(SetType(mid, n, type), tail)
  BY DEF Rename, Fails, Sound, mid
<1> QED BY <1>1, <1>5, <1>6, CompleteSound

LEMMA EntryFields ==
  ASSUME TypeOK, NEW k \in DOMAIN directory
  PROVE  /\ directory[k] \in Entry
         /\ (directory[k].letter # None) <=> (directory[k].kind = "letter")
         /\ directory[k].kind = "letter" => directory[k].letter \in Letters
<1>1. directory \in Seq(Entry) /\ directory \in Directories
  BY DrivesAssumption DEF DrivesAssumption, TypeOK
<1>2. directory[k] \in Entry
  BY <1>1
<1>3. (directory[k].letter # None) <=> (directory[k].kind = "letter")
  BY <1>1, DrivesAssumption DEF DrivesAssumption
<1> QED BY <1>2, <1>3 DEF Entry

\* Whatever an entry is taken for, the list stays one of nodes.
LEMMA ProcessType ==
  ASSUME TypeOK, NEW t, NEW e \in Entry, Process(t, e),
         e.kind = "letter" => e.letter \in Letters
  PROVE  list' \in Seq(Node) /\ tail' \in BOOLEAN /\ fault' \in BOOLEAN /\ starved' \in BOOLEAN
<1>0. list \in Seq(Node) /\ tail \in BOOLEAN /\ fault \in BOOLEAN /\ starved \in BOOLEAN
      /\ e.path \in Paths /\ e.serial \in Serials \cup {None}
  BY DEF TypeOK, Entry
<1>1. CASE e.kind = "letter" /\ LetterEntry(e)
  <2> DEFINE n == ByPath(list, e.path)
             new == [letter |-> e.letter, path |-> e.path, serial |-> None,
                     type |-> "JUST_VOLUME_DISK"]
  <2>1. n \in 0..Len(list)
    BY <1>0, FirstByPath
  <2>2. new \in Node
    BY <1>0, <1>1 DEF Node, Types
  <2>3. n = 0 => Add(new)
    BY <1>1 DEF LetterEntry
  <2>4. n # 0 => Rename(n, e.letter, "JUST_VOLUME_DISK")
    BY <1>1 DEF LetterEntry
  <2> HIDE DEF n, new
  <2>5. n # 0 => n \in 1..Len(list)
    BY <2>1, <1>0
  <2>6. "JUST_VOLUME_DISK" \in Types
    BY DEF Types
  <2> QED BY <2>2, <2>3, <2>4, <2>5, <2>6, <1>1, AddType, RenameType
<1>2. CASE e.kind = "volume" /\ VolumeEntry(e)
  <2> DEFINE n == ByPath(list, e.path)
             new == [letter |-> None, path |-> e.path, serial |-> None,
                     type |-> "Internal_DISK"]
  <2>1. n \in 0..Len(list)
    BY <1>0, FirstByPath
  <2>2. new \in Node
    BY <1>0 DEF Node, Types
  <2>3. (n = 0 => Add(new)) /\ (n # 0 => Retype(n, "Internal_DISK"))
    BY <1>2 DEF VolumeEntry
  <2> HIDE DEF n, new
  <2>5. n # 0 => n \in 1..Len(list)
    BY <2>1, <1>0
  <2>6. "Internal_DISK" \in Types
    BY DEF Types
  <2> QED BY <2>2, <2>3, <2>5, <2>6, AddType, RetypeType
<1>3. CASE e.kind = "usb" /\ UsbEntry(t, e)
  <2> DEFINE new == [letter |-> None, path |-> e.path, serial |-> e.serial,
                     type |-> "USB_DEVICE_from_PNP"]
  <2>1. new \in Node
    BY <1>0 DEF Node, Types
  <2>2. Add(new) \/ Ignore
    BY <1>3 DEF UsbEntry
  <2> HIDE DEF new
  <2> QED BY <1>0, <2>1, <2>2, AddType, CompleteType DEF Ignore
<1>4. CASE e.kind = "usbstor" /\ UsbStorEntry(e)
  <2> DEFINE n == Holder(e)
             new == [letter |-> None, path |-> e.path, serial |-> e.serial,
                     type |-> "External_DISK_USB"]
  <2>1. n \in 0..Len(list)
    BY <1>0, FirstByPath, FirstBySerial DEF Holder
  <2>2. new \in Node
    BY <1>0 DEF Node, Types
  <2>3. (n = 0 => Add(new)) /\ (n # 0 => Retype(n, "External_DISK_USB"))
    BY <1>4 DEF UsbStorEntry
  <2> HIDE DEF n, new
  <2>5. n # 0 => n \in 1..Len(list)
    BY <2>1, <1>0
  <2>6. "External_DISK_USB" \in Types
    BY DEF Types
  <2> QED BY <2>2, <2>3, <2>5, <2>6, AddType, RetypeType
<1> QED BY <1>1, <1>2, <1>3, <1>4 DEF Process

\* The drive is one of the entries of \??: its letter is the volume's.
LEMMA ProcessSound ==
  ASSUME TypeOK, NEW t, NEW e \in Entry, Process(t, e), ~starved', ~Moved, ~fault,
         Sound(list), list # <<>> => tail, homes' = homes,
         e.kind = "letter" => e.letter \in Letters /\ <<e.letter, e.path>> \in homes
  PROVE  ~fault' /\ Sound(list)' /\ (list' # <<>> => tail')
<1>0. list \in Seq(Node) /\ e.path \in Paths /\ e.serial \in Serials \cup {None}
      /\ None # Lost /\ Lost \notin Letters /\ tail \in BOOLEAN
  BY DrivesAssumption DEF TypeOK, Entry, DrivesAssumption
<1>1. CASE e.kind = "letter" /\ LetterEntry(e)
  <2> DEFINE n == ByPath(list, e.path)
             new == [letter |-> e.letter, path |-> e.path, serial |-> None,
                     type |-> "JUST_VOLUME_DISK"]
  <2>1. /\ n \in 0..Len(list)
        /\ n = 0 => \A i \in 1..Len(list) : list[i].path # e.path
        /\ n # 0 => /\ list[n].path = e.path
                    /\ \A i \in 1..Len(list) : list[i].path = e.path => n <= i
    BY <1>0, FirstByPath
  <2>2. new \in Node /\ new.letter = e.letter /\ new.path = e.path
    BY <1>0, <1>1 DEF Node, Types
  <2>3. n = 0 => Add(new)
    BY <1>1 DEF LetterEntry
  <2>4. n # 0 => Rename(n, e.letter, "JUST_VOLUME_DISK")
    BY <1>1 DEF LetterEntry
  <2> HIDE DEF n, new
  <2>5. n # 0 => n \in 1..Len(list)
    BY <2>1, <1>0
  <2>6. "JUST_VOLUME_DISK" \in Types
    BY DEF Types
  <2>7. CASE n = 0
    <3>1. new.letter # Lost
      BY <1>0, <1>1, <2>2
    <3>2. <<new.letter, new.path>> \in homes /\ \A i \in 1..Len(list) : list[i].path # new.path
      BY <1>1, <2>1, <2>2, <2>7
    <3> QED BY <2>2, <2>3, <2>7, <3>1, <3>2, AddSound
  <2>8. CASE n # 0
    <3>1. <<e.letter, list[n].path>> \in homes
          /\ \A i \in 1..Len(list) : list[i].path = list[n].path => n <= i
      BY <1>1, <2>1, <2>8
    <3> QED BY <1>1, <2>4, <2>5, <2>6, <2>8, <3>1, RenameSound
  <2> QED BY <2>7, <2>8
<1>2. CASE e.kind = "volume" /\ VolumeEntry(e)
  <2> DEFINE n == ByPath(list, e.path)
             new == [letter |-> None, path |-> e.path, serial |-> None,
                     type |-> "Internal_DISK"]
  <2>1. n \in 0..Len(list)
    BY <1>0, FirstByPath
  <2>2. new \in Node /\ new.letter = None
    BY <1>0 DEF Node, Types
  <2>3. (n = 0 => Add(new)) /\ (n # 0 => Retype(n, "Internal_DISK"))
    BY <1>2 DEF VolumeEntry
  <2> HIDE DEF n, new
  <2>5. n # 0 => n \in 1..Len(list)
    BY <2>1, <1>0
  <2>6. "Internal_DISK" \in Types
    BY DEF Types
  <2> QED BY <1>0, <2>2, <2>3, <2>5, <2>6, AddSound, RetypeSound
<1>3. CASE e.kind = "usb" /\ UsbEntry(t, e)
  <2> DEFINE new == [letter |-> None, path |-> e.path, serial |-> e.serial,
                     type |-> "USB_DEVICE_from_PNP"]
  <2>1. new \in Node /\ new.letter = None
    BY <1>0 DEF Node, Types
  <2>2. Add(new) \/ Ignore
    BY <1>3 DEF UsbEntry
  <2> HIDE DEF new
  <2> QED BY <1>0, <2>1, <2>2, AddSound, CompleteSound DEF Ignore
<1>4. CASE e.kind = "usbstor" /\ UsbStorEntry(e)
  <2> DEFINE n == Holder(e)
             new == [letter |-> None, path |-> e.path, serial |-> e.serial,
                     type |-> "External_DISK_USB"]
  <2>1. n \in 0..Len(list)
    BY <1>0, FirstByPath, FirstBySerial DEF Holder
  <2>2. new \in Node /\ new.letter = None
    BY <1>0 DEF Node, Types
  <2>3. (n = 0 => Add(new)) /\ (n # 0 => Retype(n, "External_DISK_USB"))
    BY <1>4 DEF UsbStorEntry
  <2> HIDE DEF n, new
  <2>5. n # 0 => n \in 1..Len(list)
    BY <2>1, <1>0
  <2>6. "External_DISK_USB" \in Types
    BY DEF Types
  <2> QED BY <1>0, <2>2, <2>3, <2>5, <2>6, AddSound, RetypeSound
<1> QED BY <1>1, <1>2, <1>3, <1>4 DEF Process

-----------------------------------------------------------------------------
(* The steps                                                               *)

Places == {"off", "copy", "wait", "scan", "find"}

LEMMA InitIInv == Init => IInv
<1> SUFFICES ASSUME Init PROVE IInv
  OBVIOUS
<1>1. TypeOK
  <2>1. at \in [Threads -> Places]
    BY DEF Init, Places
  <2>2. homes \subseteq Letters \X Paths
    <3> SUFFICES ASSUME NEW e \in ToSet(directory), e.kind = "letter"
                 PROVE  <<e.letter, e.path>> \in Letters \X Paths
      BY DEF Init, Homes
    <3>1. directory \in Seq(Entry) /\ directory \in Directories
      BY DrivesAssumption DEF DrivesAssumption, Init
    <3>2. PICK k \in DOMAIN directory : directory[k] = e
      BY <3>1 DEF ToSet
    <3>3. e \in Entry /\ e.letter # None
      BY <3>1, <3>2, DrivesAssumption DEF DrivesAssumption
    <3> QED BY <3>3 DEF Entry
  <2>3. fault \in BOOLEAN /\ calm \in BOOLEAN /\ starved \in BOOLEAN /\ tail \in BOOLEAN
    BY DEF Init
  <2>4. list \in Seq(Node) /\ directory \in Directories /\ owner \in Threads \cup {None}
        /\ context \in Nat /\ notifying \in Devices \cup {None}
    BY DEF Init
  <2>5. plugs \in 0..MaxPlugs
    BY DrivesAssumption DEF Init, DrivesAssumption
  <2> QED BY <2>1, <2>2, <2>3, <2>4, <2>5 DEF TypeOK, Places
<1>2. Sound(list) /\ Homes(directory) \subseteq homes
  BY DEF Init, Sound
<1> QED BY <1>1, <1>2 DEF IInv, Init

\* A step that leaves the list and the history of \?? alone.
LEMMA AsideIInv ==
  ASSUME IInv, UNCHANGED <<list, tail, directory, plugs, homes>>, fault' \in BOOLEAN,
         calm' \in BOOLEAN, starved' \in BOOLEAN,
         owner' \in Threads \cup {None}, context' \in Nat, at' \in [Threads -> Places],
         notifying' \in Devices \cup {None},
         starved => starved', fault' # fault => starved'
  PROVE  IInv'
<1>1. TypeOK'
  BY DEF IInv, TypeOK, Places
<1>2. Homes(directory)' \subseteq homes'
  BY DEF IInv, Homes
<1>3. Moved' = Moved /\ Sound(list)' = Sound(list)
  BY DEF Moved, Sound
<1> QED BY <1>1, <1>2, <1>3 DEF IInv

LEMMA FailType ==
  ASSUME TypeOK, Fails \/ UNCHANGED starved
  PROVE  starved' \in BOOLEAN /\ (starved => starved')
<1>1. CASE Fails
  <2>1. starved' = TRUE
    BY <1>1 DEF Fails
  <2> QED BY <2>1
<1>2. CASE UNCHANGED starved
  BY <1>2 DEF TypeOK
<1> QED BY <1>1, <1>2

LEMMA MoveType ==
  ASSUME TypeOK, NEW t \in Threads, NEW place \in Places, Moves(t, place)
  PROVE  at' \in [Threads -> Places]
  BY DEF TypeOK, Moves, Places

LEMMA ReturnType ==
  ASSUME TypeOK, NEW t \in Threads, Returns(t)
  PROVE  at' \in [Threads -> Places]
  BY MoveType DEF Returns, Places

\* \?? has changed: what its letters stand for is added to what they stood for.
LEMMA ChangeIInv ==
  ASSUME IInv, NEW dir \in Directories, Changes(dir),
         UNCHANGED <<list, tail, owner, at, notifying, fault, starved>>, context' \in Nat
  PROVE  IInv'
<1>1. Homes(dir) \subseteq Letters \X Paths
  <2> SUFFICES ASSUME NEW e \in ToSet(dir), e.kind = "letter"
               PROVE  <<e.letter, e.path>> \in Letters \X Paths
    BY DEF Homes
  <2>1. dir \in Seq(Entry)
    BY DrivesAssumption DEF DrivesAssumption
  <2>2. PICK k \in DOMAIN dir : dir[k] = e
    BY <2>1 DEF ToSet
  <2>3. e \in Entry /\ e.letter # None
    BY <2>1, <2>2, DrivesAssumption DEF DrivesAssumption
  <2> QED BY <2>3 DEF Entry
<1>2. homes' = homes \cup Homes(dir) /\ directory' = dir /\ calm' = FALSE /\ plugs' \in 0..MaxPlugs
  BY DrivesAssumption DEF Changes, IInv, TypeOK, DrivesAssumption
<1>3. TypeOK'
  BY <1>1, <1>2 DEF IInv, TypeOK
<1>4. Homes(directory)' \subseteq homes'
  BY <1>2 DEF Homes
<1>5. ~Moved' => ~Moved
  BY <1>2 DEF Moved
<1>6. Sound(list) => Sound(list)'
  BY <1>2 DEF Sound
<1> QED BY <1>3, <1>4, <1>5, <1>6 DEF IInv

LEMMA ReadIInv ==
  ASSUME IInv, NEW t \in Threads, ReadEntry(t)
  PROVE  IInv'
<1> DEFINE e == directory[context]
<1>1. /\ ~fault /\ context \in DOMAIN directory /\ context' = context + 1
      /\ Process(t, e) \/ NoSerial(t, e)
      /\ UNCHANGED <<directory, owner, at, notifying, calm, plugs, homes>>
  BY DEF ReadEntry, Runs
<1>2. TypeOK /\ list \in Seq(Node) /\ tail \in BOOLEAN
  BY DEF IInv, TypeOK
<1>3. /\ e \in Entry
      /\ e.kind = "letter" => e.letter \in Letters
  BY <1>1, <1>2, EntryFields
<1>4. e.kind = "letter" => <<e.letter, e.path>> \in homes
  <2>1. directory \in Seq(Entry)
    BY <1>2, DrivesAssumption DEF TypeOK, DrivesAssumption
  <2>2. e \in ToSet(directory)
    BY <1>1, <2>1 DEF ToSet
  <2>3. e.kind = "letter" => <<e.letter, e.path>> \in Homes(directory)
    BY <2>2 DEF Homes
  <2> QED BY <2>3 DEF IInv
<1> HIDE DEF e
<1>5. list' \in Seq(Node) /\ tail' \in BOOLEAN /\ fault' \in BOOLEAN /\ starved' \in BOOLEAN
  <2>1. CASE Process(t, e)
    BY <2>1, <1>2, <1>3, ProcessType
  <2>2. CASE NoSerial(t, e)
    BY <2>2, <1>2, CompleteType DEF NoSerial, Fails, TypeOK
  <2> QED BY <1>1, <2>1, <2>2
<1>6. TypeOK'
  BY <1>1, <1>2, <1>5 DEF TypeOK
<1>7. starved => starved'
  BY <1>1 DEF NoSerial, Process, LetterEntry, VolumeEntry, UsbEntry, UsbStorEntry, Add,
              Rename, Retype, Ignore, Fails
<1>8. ASSUME ~starved', ~Moved PROVE ~fault' /\ Sound(list)' /\ (list' # <<>> => tail')
  <2>1. Process(t, e)
    BY <1>1, <1>8 DEF NoSerial, Fails
  <2>2. ~starved /\ Sound(list) /\ (list # <<>> => tail)
    BY <1>7, <1>8 DEF IInv
  <2> QED BY <1>1, <1>2, <1>3, <1>4, <1>8, <2>1, <2>2, ProcessSound
<1>9. Moved' = Moved
  BY <1>1 DEF Moved
<1>10. Homes(directory)' \subseteq homes'
  BY <1>1 DEF IInv, Homes
<1> QED BY <1>6, <1>8, <1>9, <1>10 DEF IInv

LEMMA StepIInv == IInv /\ [Next]_vars => IInv'
<1> SUFFICES ASSUME IInv, [Next]_vars PROVE IInv'
  OBVIOUS
<1>0. TypeOK /\ Devices \subseteq Threads /\ None \notin Devices
  BY DrivesAssumption DEF IInv, Threads, DrivesAssumption
<1> USE DEF drives, scan, history
<1>1. ASSUME NEW t \in Threads, Enter(t) PROVE IInv'
  <2>1. at' \in [Threads -> Places]
    BY <1>0, <1>1, MoveType, ReturnType DEF Enter, Places
  <2>2. owner' \in Threads \cup {None} /\ context' \in Nat
    BY <1>0, <1>1 DEF Enter, TypeOK
  <2>a. Fails \/ UNCHANGED starved
    BY <1>1 DEF Enter
  <2>b. starved' \in BOOLEAN /\ (starved => starved')
    BY <1>0, <2>a, FailType
  <2>3. /\ UNCHANGED <<list, tail, directory, notifying, fault, plugs, homes>>
        /\ calm' = TRUE
    BY <1>1 DEF Enter
  <2> QED BY <1>0, <2>1, <2>2, <2>b, <2>3, AsideIInv DEF TypeOK
<1>2. ASSUME NEW t \in Threads, ReadEntry(t) PROVE IInv'
  BY <1>2, ReadIInv
<1>3. ASSUME NEW t \in Threads, Gone(t) PROVE IInv'
  <2>1. PICK dir \in Directories : Changes(dir)
    BY <1>3 DEF Gone
  <2> QED BY <1>0, <1>3, <2>1, ChangeIInv DEF Gone, TypeOK
<1>4. ASSUME NEW t \in Threads, Leave(t) PROVE IInv'
  <2>1. at' \in [Threads -> Places]
    BY <1>0, <1>4, ReturnType DEF Leave
  <2>a. Fails \/ UNCHANGED starved
    BY <1>4 DEF Leave
  <2>2. starved' \in BOOLEAN /\ (starved => starved')
    BY <1>0, <2>a, FailType
  <2>3. /\ UNCHANGED <<list, tail, directory, notifying, fault, calm, plugs, homes>>
        /\ owner' = None /\ context' = 1
    BY <1>4 DEF Leave
  <2> QED BY <1>0, <2>1, <2>2, <2>3, AsideIInv DEF TypeOK
<1>5. ASSUME NEW d \in Devices, Find(d) PROVE IInv'
  <2>1. at' \in [Threads -> Places]
    BY <1>0, <1>5, MoveType DEF Find, Places
  <2>2. UNCHANGED <<list, tail, directory, owner, context, notifying, fault, calm, starved,
                    plugs, homes>>
    BY <1>5 DEF Find
  <2> QED BY <1>0, <2>1, <2>2, AsideIInv DEF TypeOK
<1>6. ASSUME NEW d \in Devices, Arrive(d) PROVE IInv'
  <2>1. at' \in [Threads -> Places]
    <3>1. CASE Moves(d, "copy")
      BY <1>0, <3>1, MoveType DEF Places
    <3>2. CASE UNCHANGED at
      BY <1>0, <3>2 DEF TypeOK, Places
    <3> QED BY <1>6, <3>1, <3>2 DEF Arrive
  <2>a. (Fails \/ UNCHANGED starved) /\ notifying' = d
    BY <1>6 DEF Arrive
  <2>2. starved' \in BOOLEAN /\ (starved => starved')
    BY <1>0, <2>a, FailType
  <2>3. UNCHANGED <<list, tail, directory, owner, context, fault, calm, plugs, homes>>
    BY <1>6 DEF Arrive
  <2> QED BY <1>0, <2>1, <2>a, <2>2, <2>3, AsideIInv DEF TypeOK
<1>7. ASSUME NEW d \in Devices, Copy(d) PROVE IInv'
  <2>1. at' \in [Threads -> Places]
    <3>1. CASE UNCHANGED at
      BY <1>0, <3>1 DEF TypeOK, Places
    <3>2. CASE Moves(d, "wait") \/ Moves(d, "off")
      BY <1>0, <3>2, MoveType DEF Places
    <3> QED BY <1>7, <3>1, <3>2 DEF Copy
  <2>a. Fails \/ UNCHANGED <<fault, starved>>
    BY <1>7 DEF Copy
  <2>b. starved' \in BOOLEAN /\ (starved => starved')
    BY <1>0, <2>a, FailType
  <2>c. fault' # fault => starved'
    BY <2>a DEF Fails
  <2>d. fault' \in BOOLEAN
    BY <1>0, <1>7 DEF Copy, TypeOK
  <2>2. notifying' \in Devices \cup {None}
    BY <1>0, <1>7 DEF Copy, TypeOK
  <2>3. UNCHANGED <<list, tail, directory, owner, context, calm, plugs, homes>>
    BY <1>7 DEF Copy
  <2> QED BY <1>0, <2>1, <2>2, <2>b, <2>c, <2>d, <2>3, AsideIInv DEF TypeOK
<1>8. CASE Plug
  <2>1. PICK dir \in Directories : Changes(dir)
    BY <1>8 DEF Plug
  <2> QED BY <1>0, <1>8, <2>1, ChangeIInv DEF Plug, TypeOK
<1>9. CASE UNCHANGED vars
  BY <1>0, <1>9, AsideIInv DEF vars, TypeOK, Places
<1> QED
  BY <1>1, <1>2, <1>3, <1>4, <1>5, <1>6, <1>7, <1>8, <1>9 DEF Next, Scan, Device

LEMMA AlwaysIInv == Spec => []IInv
  BY InitIInv, StepIInv, PTL DEF Spec

\* Every variable of the list of drives and of its threads keeps its type.
THEOREM DrivesTypeCorrect == Spec => []TypeOK
<1>1. IInv => TypeOK
  BY DEF IInv
<1> QED BY <1>1, AlwaysIInv, PTL

\* The list is used through a NULL or a stale pointer only after something has
\* failed, or when a letter has passed from one volume to another: however
\* \?? changes under the scans, and in whatever order devices arrive.
THEOREM DrivesBreakWithACause == Spec => []BreaksOnlyWithACause
<1>1. IInv => BreaksOnlyWithACause
  BY DEF IInv, Moved, BreaksOnlyWithACause
<1> QED BY <1>1, AlwaysIInv, PTL

-----------------------------------------------------------------------------
(* What a scan finds: every node stays, each volume and each serial number *)
(* has one node (Whole), and the node of each volume with a letter says    *)
(* what the entries read so far say of it (Known).                         *)

Volumes ==
  {p \in Paths : \E dir \in Directories : \E k \in DOMAIN dir :
                   dir[k].kind # "usb" /\ dir[k].path = p}

\* Every node stays; a serial number has one node, and so has a volume.
Whole(nodes) ==
  /\ \A n \in 1..Len(nodes) : nodes[n].letter # Lost /\ Stays(nodes[n])
  /\ \A m, n \in 1..Len(nodes) :
       m # n => /\ nodes[m].serial # None => nodes[m].serial # nodes[n].serial
                /\ nodes[m].path \in Volumes => nodes[m].path # nodes[n].path

\* EntriesOf, About and HeldElsewhere of a given directory and given nodes.
Of(dir, p, kinds) == {k \in DOMAIN dir : dir[k].path = p /\ dir[k].kind \in kinds}

On(dir, p, s) ==
  Of(dir, p, {"letter", "volume", "usbstor"})
  \cup {k \in DOMAIN dir : dir[k].kind = "usbstor" /\ dir[k].serial = s}

Elsewhere(nodes, p, e) ==
  \E n \in 1..Len(nodes) : nodes[n].serial = e.serial /\ nodes[n].path # p

\* What a scan that is at entry c knows of a volume.
LastLetter(node, dir, c, p) ==
  \E k \in Of(dir, p, {"letter"}) :
    /\ k < c /\ node.letter = dir[k].letter
    /\ \A j \in Of(dir, p, {"letter"}) : k < j => c <= j

LastClass(nodes, node, dir, c, p) ==
  \E k \in On(dir, p, node.serial) :
    /\ k < c /\ node.type = Class[dir[k].kind]
    /\ \A j \in On(dir, p, node.serial) :
         k < j /\ j < c => dir[j].kind = "usbstor" /\ Elsewhere(nodes, p, dir[j])

Known(nodes, dir, c, p) ==
  \E n \in 1..Len(nodes) :
    /\ nodes[n].path = p
    /\ LastLetter(nodes[n], dir, c, p)
    /\ LastClass(nodes, nodes[n], dir, c, p)

ScanInv ==
  /\ context > 0
  /\ ~starved /\ ~fault =>
       /\ Whole(list)
       /\ list # <<>> => tail
       /\ calm /\ owner # None =>
            \A k \in DOMAIN directory :
              k < context /\ directory[k].kind = "letter" =>
                Known(list, directory, context, directory[k].path)

-----------------------------------------------------------------------------
(* A pass over nodes that stay                                             *)

LEMMA Collected ==
  ASSUME NEW nodes \in Seq(Node)
  PROVE  /\ Kept(nodes) = Collector(nodes)[Len(nodes)]
         /\ \A k \in 0..Len(nodes) :
              Collector(nodes)[k] =
                IF k = 0 THEN <<>>
                ELSE IF Stays(nodes[k]) THEN Append(Collector(nodes)[k - 1], nodes[k])
                     ELSE Collector(nodes)[k - 1]
<1> DEFINE f == Collector(nodes)
<1>1. Collects(f, nodes)
  BY CollectorExists, CollectorCollects
<1>2. Kept(nodes) = f[Len(nodes)]
  BY DEF Kept, Collector
<1> HIDE DEF f
<1>3. \A k \in 0..Len(nodes) :
        f[k] = IF k = 0 THEN <<>>
               ELSE IF Stays(nodes[k]) THEN Append(f[k - 1], nodes[k]) ELSE f[k - 1]
  BY <1>1 DEF Collects
<1> QED BY <1>2, <1>3 DEF f

\* s is the first m nodes.
FirstNodes(s, nodes, m) ==
  s \in Seq(Node) /\ Len(s) = m /\ \A i \in 1..m : s[i] = nodes[i]

LEMMA FrontKept ==
  ASSUME NEW nodes \in Seq(Node), NEW n \in 0..Len(nodes),
         \A i \in 1..n : Stays(nodes[i])
  PROVE  FirstNodes(Collector(nodes)[n], nodes, n)
<1> DEFINE f == Collector(nodes)
           Bad == {m \in 0..n : ~FirstNodes(f[m], nodes, m)}
<1>0. n \in Nat /\ n <= Len(nodes) /\ Len(nodes) \in Nat
  OBVIOUS
<1>1. \A k \in 0..n : f[k] = IF k = 0 THEN <<>> ELSE Append(f[k - 1], nodes[k])
  <2> TAKE k \in 0..n
  <2>1. k \in 0..Len(nodes) /\ (k # 0 => Stays(nodes[k]))
    BY <1>0
  <2>2. f[k] = IF k = 0 THEN <<>>
               ELSE IF Stays(nodes[k]) THEN Append(f[k - 1], nodes[k]) ELSE f[k - 1]
    BY <2>1, Collected
  <2> QED BY <2>1, <2>2
<1> HIDE DEF f
<1>2. FirstNodes(f[0], nodes, 0)
  <2>1. 0 \in 0..n
    BY <1>0
  <2>2. f[0] = <<>>
    BY <1>1, <2>1
  <2> QED BY <2>2 DEF FirstNodes
<1>3. ASSUME NEW m \in 1..n, FirstNodes(f[m - 1], nodes, m - 1)
      PROVE  FirstNodes(f[m], nodes, m)
  <2>1. nodes[m] \in Node /\ m \in Nat
    BY <1>0
  <2>2. f[m] = Append(f[m - 1], nodes[m])
    <3>1. m \in 0..n /\ m # 0
      BY <1>0
    <3> QED BY <1>1, <3>1
  <2> DEFINE s == f[m - 1]
  <2>3. s \in Seq(Node) /\ Len(s) = m - 1 /\ \A i \in 1..(m - 1) : s[i] = nodes[i]
    BY <1>3 DEF FirstNodes
  <2> HIDE DEF s
  <2>4. /\ Append(s, nodes[m]) \in Seq(Node) /\ Len(Append(s, nodes[m])) = m
        /\ \A i \in 1..m : Append(s, nodes[m])[i] = nodes[i]
    BY <2>1, <2>3
  <2> QED BY <2>2, <2>4 DEF FirstNodes, s
<1>4. Bad = {}
  <2> SUFFICES ASSUME Bad # {} PROVE FALSE
    OBVIOUS
  <2> DEFINE m == Min(Bad)
  <2>0. Bad \in SUBSET Nat
    BY <1>0
  <2>1. m \in Bad /\ \A k \in Bad : m <= k
    <3> HIDE DEF Bad
    <3> QED BY <2>0, MinExists
  <2> HIDE DEF m
  <2>2. m \in 1..n /\ m - 1 \in 0..n
    BY <2>1, <1>0, <1>2
  <2>3. FirstNodes(f[m - 1], nodes, m - 1)
    BY <2>1, <2>2, <1>0
  <2> QED BY <2>1, <2>2, <2>3, <1>3
<1>5. FirstNodes(f[n], nodes, n)
  BY <1>0, <1>4
<1> QED BY <1>5 DEF f

LEMMA FrontIsAll ==
  ASSUME NEW nodes \in Seq(Node), NEW s, FirstNodes(s, nodes, Len(nodes))
  PROVE  s = nodes
  BY DEF FirstNodes

\* Whoever stays is kept,
LEMMA KeptAll ==
  ASSUME NEW nodes \in Seq(Node), \A i \in 1..Len(nodes) : Stays(nodes[i])
  PROVE  Kept(nodes) = nodes
<1>1. FirstNodes(Collector(nodes)[Len(nodes)], nodes, Len(nodes))
  BY FrontKept
<1> QED BY <1>1, FrontIsAll, Collected

\* and a node that does not goes at once.
LEMMA KeptButLast ==
  ASSUME NEW nodes \in Seq(Node), \A i \in 1..Len(nodes) : Stays(nodes[i]),
         NEW x \in Node, ~Stays(x)
  PROVE  Kept(Append(nodes, x)) = nodes
<1> DEFINE all == Append(nodes, x)
           n == Len(nodes)
<1>1. /\ all \in Seq(Node) /\ n \in Nat /\ Len(all) = n + 1 /\ all[n + 1] = x
      /\ \A i \in 1..n : all[i] = nodes[i]
  OBVIOUS
<1> HIDE DEF all
<1>2. FirstNodes(Collector(all)[n], all, n)
  BY <1>1, FrontKept
<1>3. Kept(all) = Collector(all)[n]
  <2>1. Collector(all)[n + 1] = Collector(all)[(n + 1) - 1]
    BY <1>1, Collected
  <2> QED BY <1>1, <2>1, Collected
<1>4. FirstNodes(Collector(all)[n], nodes, n)
  BY <1>1, <1>2 DEF FirstNodes
<1>5. Kept(all) = nodes
  BY <1>3, <1>4, FrontIsAll
<1> QED BY <1>5 DEF all

LEMMA CompleteKeeps ==
  ASSUME NEW nodes \in Seq(Node), Complete(nodes, TRUE), ~fault',
         \A i \in 1..Len(nodes) : Stays(nodes[i])
  PROVE  list' = nodes /\ tail'
  BY KeptAll DEF Complete

LEMMA CompleteDrops ==
  ASSUME NEW nodes \in Seq(Node), \A i \in 1..Len(nodes) : Stays(nodes[i]),
         NEW x \in Node, ~Stays(x), Complete(Append(nodes, x), TRUE), ~fault'
  PROVE  list' = nodes /\ tail'
  BY KeptButLast DEF Complete

-----------------------------------------------------------------------------
(* What reading an entry does to the nodes                                 *)

\* M has the nodes of L, and perhaps more.
Carries(L, M) ==
  /\ Len(L) <= Len(M)
  /\ \A i \in 1..Len(L) : M[i].path = L[i].path /\ M[i].serial = L[i].serial

Concerns(L, i, e) ==
  \/ e.kind \in {"letter", "volume"} /\ L[i].path = e.path
  \/ e.kind = "usbstor" /\ L[i].serial = e.serial
  \/ e.kind = "usbstor" /\ L[i].path = e.path /\ \A j \in 1..Len(L) : L[j].serial # e.serial

Effect(L, M, e) ==
  /\ Carries(L, M)
  /\ \A i \in 1..Len(L) :
       M[i].letter = IF e.kind = "letter" /\ L[i].path = e.path THEN e.letter ELSE L[i].letter
  /\ \A i \in 1..Len(L) :
       M[i].type = IF Concerns(L, i, e) THEN Class[e.kind] ELSE L[i].type
  /\ e.kind = "letter" =>
       \E i \in 1..Len(M) : /\ M[i].path = e.path /\ M[i].letter = e.letter
                            /\ M[i].type = Class["letter"]

LEMMA WholeAppend ==
  ASSUME NEW L \in Seq(Node), Whole(L), NEW x \in Node, x.letter # Lost, Stays(x),
         x.serial # None => \A i \in 1..Len(L) : L[i].serial # x.serial,
         x.path \in Volumes => \A i \in 1..Len(L) : L[i].path # x.path
  PROVE  /\ Append(L, x) \in Seq(Node)
         /\ Whole(Append(L, x))
         /\ Carries(L, Append(L, x))
         /\ Append(L, x)[Len(L) + 1] = x
         /\ Len(Append(L, x)) = Len(L) + 1
         /\ \A i \in 1..Len(L) : Append(L, x)[i] = L[i]
<1> DEFINE M == Append(L, x)
           n == Len(L)
<1>1. /\ M \in Seq(Node) /\ n \in Nat /\ Len(M) = n + 1 /\ M[n + 1] = x
      /\ \A i \in 1..n : M[i] = L[i]
  OBVIOUS
<1> HIDE DEF M
<1>2. ASSUME NEW i \in 1..Len(M) PROVE M[i].letter # Lost /\ Stays(M[i])
  BY <1>1 DEF Whole
<1>3. ASSUME NEW i \in 1..Len(M), NEW j \in 1..Len(M), i # j
      PROVE  /\ M[i].serial # None => M[i].serial # M[j].serial
             /\ M[i].path \in Volumes => M[i].path # M[j].path
  <2>1. CASE i \in 1..n /\ j \in 1..n
    BY <1>1, <1>3, <2>1 DEF Whole
  <2>2. CASE i = n + 1
    <3>1. j \in 1..n /\ M[j] = L[j] /\ M[i] = x
      BY <1>1, <1>3, <2>2
    <3> QED BY <3>1
  <2>3. CASE j = n + 1
    <3>1. i \in 1..n /\ M[i] = L[i] /\ M[j] = x
      BY <1>1, <1>3, <2>3
    <3> QED BY <3>1
  <2> QED BY <1>1, <2>1, <2>2, <2>3
<1>4. Whole(M) /\ Carries(L, M)
  BY <1>1, <1>2, <1>3 DEF Whole, Carries
<1> QED BY <1>1, <1>4 DEF M

\* One node gets another letter or another class.
LEMMA WholeChange ==
  ASSUME NEW L \in Seq(Node), Whole(L), NEW M \in Seq(Node), Len(M) = Len(L), Carries(L, M),
         \A i \in 1..Len(L) : M[i].letter \in Letters \/ M[i].letter = L[i].letter
  PROVE  Whole(M)
<1>1. None \notin Letters /\ Lost \notin Letters
  BY DrivesAssumption DEF DrivesAssumption
<1>2. ASSUME NEW i \in 1..Len(M) PROVE M[i].letter # Lost /\ Stays(M[i])
  BY <1>1, <1>2 DEF Whole, Carries, Stays
<1>3. ASSUME NEW i \in 1..Len(M), NEW j \in 1..Len(M), i # j
      PROVE  /\ M[i].serial # None => M[i].serial # M[j].serial
             /\ M[i].path \in Volumes => M[i].path # M[j].path
  <2>1. /\ i \in 1..Len(L) /\ j \in 1..Len(L)
        /\ M[i].path = L[i].path /\ M[i].serial = L[i].serial
        /\ M[j].path = L[j].path /\ M[j].serial = L[j].serial
    BY <1>3 DEF Carries
  <2> QED BY <1>3, <2>1 DEF Whole
<1> QED BY <1>2, <1>3 DEF Whole

LEMMA TypeChange ==
  ASSUME NEW L \in Seq(Node), Whole(L), NEW n \in 1..Len(L), NEW type \in Types
  PROVE  LET M == SetType(L, n, type)
         IN  /\ M \in Seq(Node) /\ Len(M) = Len(L) /\ Whole(M) /\ Carries(L, M)
             /\ \A i \in 1..Len(L) : /\ M[i].letter = L[i].letter
                                     /\ M[i].type = IF i = n THEN type ELSE L[i].type
<1> DEFINE M == SetType(L, n, type)
<1>1. M \in Seq(Node) /\ Len(M) = Len(L)
  <2>0. L[n] \in Node
    OBVIOUS
  <2>1. [L[n] EXCEPT !.type = type] \in Node
    BY <2>0 DEF Node
  <2> QED BY <2>1 DEF SetType
<1>2. \A i \in 1..Len(L) : /\ M[i].letter = L[i].letter /\ M[i].path = L[i].path
                           /\ M[i].serial = L[i].serial
                           /\ M[i].type = IF i = n THEN type ELSE L[i].type
  BY DEF SetType, Node
<1> HIDE DEF M
<1>3. Carries(L, M)
  BY <1>1, <1>2 DEF Carries
<1>4. Whole(M)
  BY <1>1, <1>2, <1>3, WholeChange
<1> QED BY <1>1, <1>2, <1>3, <1>4 DEF M

LEMMA LetterChange ==
  ASSUME NEW L \in Seq(Node), Whole(L), NEW n \in 1..Len(L), NEW l \in Letters,
         NEW type \in Types
  PROVE  LET M == SetType(SetLetter(L, n, l), n, type)
         IN  /\ M \in Seq(Node) /\ Len(M) = Len(L) /\ Whole(M) /\ Carries(L, M)
             /\ \A i \in 1..Len(L) : /\ M[i].letter = IF i = n THEN l ELSE L[i].letter
                                     /\ M[i].type = IF i = n THEN type ELSE L[i].type
<1> DEFINE K == SetLetter(L, n, l)
           M == SetType(K, n, type)
<1>1. K \in Seq(Node) /\ Len(K) = Len(L)
  <2>0. L[n] \in Node
    OBVIOUS
  <2>1. [L[n] EXCEPT !.letter = l] \in Node
    BY <2>0 DEF Node
  <2> QED BY <2>1 DEF SetLetter
<1>2. \A i \in 1..Len(L) : /\ K[i].letter = IF i = n THEN l ELSE L[i].letter
                           /\ K[i].path = L[i].path
                           /\ K[i].serial = L[i].serial /\ K[i].type = L[i].type
  BY DEF SetLetter, Node
<1> HIDE DEF K
<1>3. Carries(L, K)
  BY <1>1, <1>2 DEF Carries
<1>4. Whole(K)
  BY <1>1, <1>2, <1>3, WholeChange
<1>5. /\ M \in Seq(Node) /\ Len(M) = Len(K) /\ Whole(M) /\ Carries(K, M)
      /\ \A i \in 1..Len(K) : /\ M[i].letter = K[i].letter
                              /\ M[i].type = IF i = n THEN type ELSE K[i].type
  <2>1. n \in 1..Len(K)
    BY <1>1
  <2> QED BY <1>1, <1>4, <2>1, TypeChange
<1> HIDE DEF M
<1>6. Carries(L, M)
  BY <1>1, <1>3, <1>5 DEF Carries
<1>7. \A i \in 1..Len(L) : /\ M[i].letter = IF i = n THEN l ELSE L[i].letter
                           /\ M[i].type = IF i = n THEN type ELSE L[i].type
  BY <1>1, <1>2, <1>5
<1> QED BY <1>1, <1>5, <1>6, <1>7 DEF M, K

LEMMA CarriesItself == ASSUME NEW L \in Seq(Node) PROVE Carries(L, L)
  BY DEF Carries

\* The list is whole, and its current pointer is not NULL.
Ready == list \in Seq(Node) /\ Whole(list) /\ (list # <<>> => tail) /\ tail \in BOOLEAN

LEMMA IgnoreEffect ==
  ASSUME Ready, Ignore, ~fault'
  PROVE  list' = list /\ tail' = tail
  BY KeptAll DEF Ready, Whole, Ignore, Complete

LEMMA AddEffect ==
  ASSUME Ready, NEW x \in Node, Add(x), ~fault', ~starved'
  PROVE  tail' /\ list' = IF Stays(x) THEN Append(list, x) ELSE list
<1>1. Complete(Append(list, x), TRUE)
  BY DEF Add, Fails
<1>2. \A i \in 1..Len(list) : Stays(list[i])
  BY DEF Ready, Whole
<1>3. CASE ~Stays(x)
  BY <1>1, <1>2, <1>3, CompleteDrops DEF Ready
<1>4. CASE Stays(x)
  <2> DEFINE M == Append(list, x)
  <2>1. /\ M \in Seq(Node) /\ Len(M) = Len(list) + 1 /\ M[Len(list) + 1] = x
        /\ \A i \in 1..Len(list) : M[i] = list[i]
    BY DEF Ready
  <2> HIDE DEF M
  <2>2. \A i \in 1..Len(M) : Stays(M[i])
    <3> TAKE i \in 1..Len(M)
    <3>1. i = Len(list) + 1 \/ i \in 1..Len(list)
      BY <2>1 DEF Ready
    <3> QED BY <1>2, <1>4, <2>1, <3>1
  <2>3. Complete(M, TRUE)
    BY <1>1 DEF M
  <2>4. list' = M /\ tail'
    BY <2>1, <2>2, <2>3, CompleteKeeps
  <2> QED BY <1>4, <2>4 DEF M
<1> QED BY <1>3, <1>4

LEMMA RetypeEffect ==
  ASSUME Ready, NEW n \in 1..Len(list), NEW type \in Types, Retype(n, type), ~fault'
  PROVE  tail' /\ list' = SetType(list, n, type)
<1>1. tail = TRUE
  BY DEF Ready
<1> DEFINE M == SetType(list, n, type)
<1>2. M \in Seq(Node) /\ Len(M) = Len(list) /\ Whole(M)
  BY TypeChange DEF Ready
<1>3. Complete(M, TRUE)
  BY <1>1 DEF Retype
<1> HIDE DEF M
<1>4. list' = M /\ tail'
  BY <1>2, <1>3, CompleteKeeps DEF Whole
<1> QED BY <1>4 DEF M

LEMMA RenameEffect ==
  ASSUME Ready, NEW n \in 1..Len(list), NEW l \in Letters, NEW type \in Types,
         Rename(n, l, type), ~fault', ~starved'
  PROVE  tail' /\ list' = SetType(SetLetter(list, n, l), n, type)
<1>1. tail = TRUE
  BY DEF Ready
<1> DEFINE M == SetType(SetLetter(list, n, l), n, type)
<1>2. M \in Seq(Node) /\ Len(M) = Len(list) /\ Whole(M)
  BY LetterChange DEF Ready
<1>3. Complete(M, TRUE)
  BY <1>1 DEF Rename, Fails
<1> HIDE DEF M
<1>4. list' = M /\ tail'
  BY <1>2, <1>3, CompleteKeeps DEF Whole
<1> QED BY <1>4 DEF M

LEMMA EntryKind ==
  ASSUME TypeOK, NEW k \in DOMAIN directory
  PROVE  /\ directory[k].kind \in Kinds
         /\ (directory[k].serial # None) <=> (directory[k].kind \in {"usb", "usbstor"})
         /\ directory[k].kind # "usb" => directory[k].path \in Volumes
         /\ directory[k].kind = "usb" => directory[k].path \notin Volumes
<1>1. directory \in Directories /\ directory[k] \in Entry
  BY EntryFields DEF TypeOK
<1>2. (directory[k].serial # None) <=> (directory[k].kind \in {"usb", "usbstor"})
  BY <1>1, DrivesAssumption DEF DrivesAssumption
<1>3. directory[k].kind # "usb" => directory[k].path \in Volumes
  BY <1>1 DEF Volumes, Entry
<1>4. directory[k].kind = "usb" => directory[k].path \notin Volumes
  BY <1>1, PathsApart, DrivesAssumption DEF DrivesAssumption, PathsApart, Volumes
<1> QED BY <1>1, <1>2, <1>3, <1>4 DEF Entry

LEMMA SerialFound ==
  ASSUME NEW nodes \in Seq(Node), NEW s
  PROVE  /\ BySerial(nodes, s) \in 0..Len(nodes)
         /\ BySerial(nodes, s) = 0 => \A i \in 1..Len(nodes) : nodes[i].serial # s
         /\ BySerial(nodes, s) # 0 => nodes[BySerial(nodes, s)].serial = s
<1> DEFINE I == {i \in 1..Len(nodes) : nodes[i].serial = s}
<1>1. BySerial(nodes, s) = Place(I)
  BY DEF BySerial, SelectInSeq, Place
<1>2. Len(nodes) \in Nat /\ I \in SUBSET (1..Len(nodes))
  OBVIOUS
<1>3. \A i \in 1..Len(nodes) : i \in I <=> nodes[i].serial = s
  OBVIOUS
<1> HIDE DEF I
<1> QED BY <1>1, <1>2, <1>3, FirstPlace

Classes ==
  /\ "JUST_VOLUME_DISK" \in Types /\ "Internal_DISK" \in Types
  /\ "External_DISK_USB" \in Types /\ "USB_DEVICE_from_PNP" \in Types
  /\ Class["letter"] = "JUST_VOLUME_DISK" /\ Class["volume"] = "Internal_DISK"
  /\ Class["usbstor"] = "External_DISK_USB"

LEMMA ClassesFit == Classes
  BY DEF Classes, Types, Class

LEMMA LetterEffect ==
  ASSUME Ready, NEW e \in Entry, e.kind = "letter", e.letter \in Letters, e.path \in Volumes,
         LetterEntry(e), ~fault', ~starved'
  PROVE  tail' /\ list' \in Seq(Node) /\ Whole(list') /\ Effect(list, list', e)
<1> DEFINE n == ByPath(list, e.path)
           x == [letter |-> e.letter, path |-> e.path, serial |-> None,
                 type |-> "JUST_VOLUME_DISK"]
<1>0. list \in Seq(Node) /\ Whole(list) /\ Len(list) \in Nat
  BY DEF Ready
<1>1. None \notin Letters /\ Lost \notin Letters
  BY DrivesAssumption DEF DrivesAssumption
<1>2. /\ n \in 0..Len(list)
      /\ n = 0 => \A i \in 1..Len(list) : list[i].path # e.path
      /\ n # 0 => list[n].path = e.path
  BY <1>0, FirstByPath
<1>3. /\ x \in Node /\ x.letter = e.letter /\ x.path = e.path /\ x.serial = None
      /\ x.type = "JUST_VOLUME_DISK" /\ Stays(x)
  BY <1>1, ClassesFit DEF Node, Entry, Stays, Classes
<1>4. n = 0 => Add(x)
  BY DEF LetterEntry
<1>5. n # 0 => Rename(n, e.letter, "JUST_VOLUME_DISK")
  BY DEF LetterEntry
<1> HIDE DEF n, x
<1>6. CASE n = 0
  <2>1. tail' /\ list' = Append(list, x)
    BY <1>3, <1>4, <1>6, AddEffect
  <2> DEFINE M == Append(list, x)
  <2>2. /\ M \in Seq(Node) /\ Whole(M) /\ Carries(list, M)
        /\ M[Len(list) + 1] = x /\ Len(M) = Len(list) + 1
        /\ \A i \in 1..Len(list) : M[i] = list[i]
    BY <1>0, <1>1, <1>2, <1>3, <1>6, WholeAppend
  <2> HIDE DEF M
  <2>3. \A i \in 1..Len(list) : ~Concerns(list, i, e)
    BY <1>2, <1>6 DEF Concerns
  <2>4. \E i \in 1..Len(M) : /\ M[i].path = e.path /\ M[i].letter = e.letter
                             /\ M[i].type = Class["letter"]
    <3>1. Len(list) + 1 \in 1..Len(M)
      BY <1>0, <2>2
    <3> QED BY <1>3, <2>2, <3>1, ClassesFit DEF Classes
  <2>5. Effect(list, M, e)
    BY <1>2, <1>6, <2>2, <2>3, <2>4 DEF Effect
  <2> QED BY <2>1, <2>2, <2>5 DEF M
<1>7. CASE n # 0
  <2>0. n \in 1..Len(list) /\ "JUST_VOLUME_DISK" \in Types
    BY <1>0, <1>2, <1>7, ClassesFit DEF Classes
  <2> DEFINE M == SetType(SetLetter(list, n, e.letter), n, "JUST_VOLUME_DISK")
  <2>1. tail' /\ list' = M
    BY <1>5, <1>7, <2>0, RenameEffect
  <2>2. /\ M \in Seq(Node) /\ Len(M) = Len(list) /\ Whole(M) /\ Carries(list, M)
        /\ \A i \in 1..Len(list) :
             /\ M[i].letter = IF i = n THEN e.letter ELSE list[i].letter
             /\ M[i].type = IF i = n THEN "JUST_VOLUME_DISK" ELSE list[i].type
    BY <1>0, <2>0, LetterChange
  <2> HIDE DEF M
  <2>3. \A i \in 1..Len(list) : (i = n <=> list[i].path = e.path) /\ (Concerns(list, i, e) <=> i = n)
    BY <1>0, <1>2, <1>7, <2>0 DEF Whole, Concerns
  <2>4. M[n].path = e.path
    BY <1>2, <1>7, <2>0, <2>2 DEF Carries
  <2>5. Effect(list, M, e)
    BY <2>0, <2>2, <2>3, <2>4, ClassesFit DEF Effect, Classes
  <2> QED BY <2>1, <2>2, <2>5
<1> QED BY <1>6, <1>7

LEMMA VolumeEffect ==
  ASSUME Ready, NEW e \in Entry, e.kind = "volume", e.path \in Volumes,
         VolumeEntry(e), ~fault', ~starved'
  PROVE  tail' /\ list' \in Seq(Node) /\ Whole(list') /\ Effect(list, list', e)
<1> DEFINE n == ByPath(list, e.path)
           x == [letter |-> None, path |-> e.path, serial |-> None, type |-> "Internal_DISK"]
<1>0. list \in Seq(Node) /\ Whole(list) /\ Len(list) \in Nat
  BY DEF Ready
<1>2. /\ n \in 0..Len(list)
      /\ n = 0 => \A i \in 1..Len(list) : list[i].path # e.path
      /\ n # 0 => list[n].path = e.path
  BY <1>0, FirstByPath
<1>3. x \in Node /\ ~Stays(x)
  BY ClassesFit DEF Node, Entry, Stays, Classes
<1>4. (n = 0 => Add(x)) /\ (n # 0 => Retype(n, "Internal_DISK"))
  BY DEF VolumeEntry
<1> HIDE DEF n, x
<1>6. CASE n = 0
  <2>1. tail' /\ list' = list
    BY <1>3, <1>4, <1>6, AddEffect
  <2>3. \A i \in 1..Len(list) : ~Concerns(list, i, e)
    BY <1>2, <1>6 DEF Concerns
  <2>4. Effect(list, list, e)
    BY <1>0, <2>3, CarriesItself DEF Effect
  <2> QED BY <1>0, <2>1, <2>4
<1>7. CASE n # 0
  <2>0. n \in 1..Len(list) /\ "Internal_DISK" \in Types
    BY <1>0, <1>2, <1>7, ClassesFit DEF Classes
  <2> DEFINE M == SetType(list, n, "Internal_DISK")
  <2>1. tail' /\ list' = M
    BY <1>4, <1>7, <2>0, RetypeEffect
  <2>2. /\ M \in Seq(Node) /\ Len(M) = Len(list) /\ Whole(M) /\ Carries(list, M)
        /\ \A i \in 1..Len(list) :
             /\ M[i].letter = list[i].letter
             /\ M[i].type = IF i = n THEN "Internal_DISK" ELSE list[i].type
    BY <1>0, <2>0, TypeChange
  <2> HIDE DEF M
  <2>3. \A i \in 1..Len(list) : Concerns(list, i, e) <=> i = n
    BY <1>0, <1>2, <1>7, <2>0 DEF Whole, Concerns
  <2>5. Effect(list, M, e)
    BY <2>2, <2>3, ClassesFit DEF Effect, Classes
  <2> QED BY <2>1, <2>2, <2>5
<1> QED BY <1>6, <1>7

LEMMA UsbEffect ==
  ASSUME Ready, NEW t, NEW e \in Entry, e.kind = "usb", e.serial # None, e.path \notin Volumes,
         UsbEntry(t, e), ~fault', ~starved'
  PROVE  /\ (list' # <<>> => tail') /\ tail' \in BOOLEAN
         /\ list' \in Seq(Node) /\ Whole(list') /\ Effect(list, list', e)
<1> DEFINE x == [letter |-> None, path |-> e.path, serial |-> e.serial,
                 type |-> "USB_DEVICE_from_PNP"]
<1>0. list \in Seq(Node) /\ Whole(list) /\ Len(list) \in Nat
  BY DEF Ready
<1>1. None # Lost
  BY DrivesAssumption DEF DrivesAssumption
<1>2. \A i \in 1..Len(list) : ~Concerns(list, i, e)
  BY DEF Concerns
<1>3. x \in Node /\ Stays(x) /\ x.letter # Lost /\ x.serial = e.serial /\ x.path = e.path
  BY <1>1, ClassesFit DEF Node, Entry, Stays, Classes
<1>4. (~HasSerial(e.serial) /\ Add(x)) \/ Ignore
  BY DEF UsbEntry
<1> HIDE DEF x
<1>5. CASE Ignore
  <2>1. list' = list /\ tail' = tail
    BY <1>5, IgnoreEffect
  <2>2. Effect(list, list, e)
    BY <1>0, <1>2, CarriesItself DEF Effect
  <2> QED BY <1>0, <2>1, <2>2 DEF Ready
<1>6. CASE ~HasSerial(e.serial) /\ Add(x)
  <2>0. \A i \in 1..Len(list) : list[i].serial # e.serial
    BY <1>0, <1>6, SerialFound DEF HasSerial
  <2>1. tail' /\ list' = Append(list, x)
    BY <1>3, <1>6, AddEffect
  <2> DEFINE M == Append(list, x)
  <2>2. /\ M \in Seq(Node) /\ Whole(M) /\ Carries(list, M) /\ Len(M) = Len(list) + 1
        /\ \A i \in 1..Len(list) : M[i] = list[i]
    BY <1>0, <1>3, <2>0, WholeAppend
  <2> HIDE DEF M
  <2>3. Effect(list, M, e)
    BY <1>2, <2>2 DEF Effect
  <2>4. tail' = TRUE
    BY <2>1 DEF Add, Complete, Fails
  <2> QED BY <2>1, <2>2, <2>3, <2>4 DEF M
<1> QED BY <1>4, <1>5, <1>6

LEMMA UsbStorEffect ==
  ASSUME Ready, NEW e \in Entry, e.kind = "usbstor", e.serial # None, e.path \in Volumes,
         UsbStorEntry(e), ~fault', ~starved'
  PROVE  tail' /\ list' \in Seq(Node) /\ Whole(list') /\ Effect(list, list', e)
<1> DEFINE n == Holder(e)
           x == [letter |-> None, path |-> e.path, serial |-> e.serial,
                 type |-> "External_DISK_USB"]
<1>0. list \in Seq(Node) /\ Whole(list) /\ Len(list) \in Nat
  BY DEF Ready
<1>1. None # Lost
  BY DrivesAssumption DEF DrivesAssumption
<1>2. /\ n \in 0..Len(list)
      /\ n = 0 => \A i \in 1..Len(list) : list[i].serial # e.serial /\ list[i].path # e.path
      /\ n # 0 => \/ list[n].serial = e.serial
                  \/ /\ list[n].path = e.path
                     /\ \A i \in 1..Len(list) : list[i].serial # e.serial
  <2>1. CASE HasSerial(e.serial)
    <3>1. n = BySerial(list, e.serial) /\ n # 0
      BY <2>1 DEF Holder, HasSerial
    <3> HIDE DEF n
    <3> QED BY <1>0, <3>1, SerialFound
  <2>2. CASE ~HasSerial(e.serial)
    <3>1. n = ByPath(list, e.path) /\ BySerial(list, e.serial) = 0
      BY <2>2 DEF Holder, HasSerial
    <3> HIDE DEF n
    <3> QED BY <1>0, <3>1, SerialFound, FirstByPath
  <2> QED BY <2>1, <2>2
<1>3. x \in Node /\ Stays(x) /\ x.letter # Lost /\ x.serial = e.serial /\ x.path = e.path
  BY <1>1, ClassesFit DEF Node, Entry, Stays, Classes
<1>4. (n = 0 => Add(x)) /\ (n # 0 => Retype(n, "External_DISK_USB"))
  BY DEF UsbStorEntry
<1> HIDE DEF n, x
<1>6. CASE n = 0
  <2>1. tail' /\ list' = Append(list, x)
    BY <1>3, <1>4, <1>6, AddEffect
  <2> DEFINE M == Append(list, x)
  <2>2. /\ M \in Seq(Node) /\ Whole(M) /\ Carries(list, M) /\ Len(M) = Len(list) + 1
        /\ \A i \in 1..Len(list) : M[i] = list[i]
    BY <1>0, <1>2, <1>3, <1>6, WholeAppend
  <2> HIDE DEF M
  <2>3. \A i \in 1..Len(list) : ~Concerns(list, i, e)
    BY <1>2, <1>6 DEF Concerns
  <2>4. Effect(list, M, e)
    BY <2>2, <2>3 DEF Effect
  <2> QED BY <2>1, <2>2, <2>4 DEF M
<1>7. CASE n # 0
  <2>0. n \in 1..Len(list) /\ "External_DISK_USB" \in Types
    BY <1>0, <1>2, <1>7, ClassesFit DEF Classes
  <2> DEFINE M == SetType(list, n, "External_DISK_USB")
  <2>1. tail' /\ list' = M
    BY <1>4, <1>7, <2>0, RetypeEffect
  <2>2. /\ M \in Seq(Node) /\ Len(M) = Len(list) /\ Whole(M) /\ Carries(list, M)
        /\ \A i \in 1..Len(list) :
             /\ M[i].letter = list[i].letter
             /\ M[i].type = IF i = n THEN "External_DISK_USB" ELSE list[i].type
    BY <1>0, <2>0, TypeChange
  <2> HIDE DEF M
  <2>3. \A i \in 1..Len(list) : Concerns(list, i, e) <=> i = n
    BY <1>0, <1>2, <1>7, <2>0 DEF Whole, Concerns
  <2>5. Effect(list, M, e)
    BY <2>2, <2>3, ClassesFit DEF Effect, Classes
  <2> QED BY <2>1, <2>2, <2>5
<1> QED BY <1>6, <1>7

-----------------------------------------------------------------------------
(* What the scan knows of a volume after each entry                        *)

LEMMA ElsewhereStays ==
  ASSUME NEW L \in Seq(Node), NEW M \in Seq(Node), Carries(L, M), NEW p, NEW e,
         Elsewhere(L, p, e)
  PROVE  Elsewhere(M, p, e)
<1>1. PICK n \in 1..Len(L) : L[n].serial = e.serial /\ L[n].path # p
  BY DEF Elsewhere
<1>2. n \in 1..Len(M) /\ M[n].serial = e.serial /\ M[n].path # p
  BY <1>1 DEF Carries
<1> QED BY <1>2 DEF Elsewhere

\* What was known of a volume becomes what is known after one more entry.
LEMMA KnownOn ==
  ASSUME NEW L \in Seq(Node), NEW M \in Seq(Node), Whole(L),
         NEW dir \in Seq(Entry), NEW c \in DOMAIN dir, Effect(L, M, dir[c]),
         NEW p \in Volumes, Known(L, dir, c, p)
  PROVE  Known(M, dir, c + 1, p)
<1> DEFINE e == dir[c]
<1>0. c \in Nat /\ DOMAIN dir \subseteq Nat /\ Len(L) \in Nat /\ Len(M) \in Nat
  OBVIOUS
<1>1. PICK n \in 1..Len(L) : /\ L[n].path = p
                             /\ LastLetter(L[n], dir, c, p)
                             /\ LastClass(L, L[n], dir, c, p)
  BY DEF Known
<1>2. n \in 1..Len(M) /\ M[n].path = p /\ M[n].serial = L[n].serial
  BY <1>1 DEF Effect, Carries
<1>3. LastLetter(M[n], dir, c + 1, p)
  <2>1. PICK k \in Of(dir, p, {"letter"}) :
          /\ k < c /\ L[n].letter = dir[k].letter
          /\ \A j \in Of(dir, p, {"letter"}) : k < j => c <= j
    BY <1>1 DEF LastLetter
  <2>2. Of(dir, p, {"letter"}) \subseteq Nat
    BY <1>0 DEF Of
  <2>3. M[n].letter = IF e.kind = "letter" /\ e.path = p THEN e.letter ELSE L[n].letter
    BY <1>1 DEF Effect
  <2>4. c \in Of(dir, p, {"letter"}) <=> e.kind = "letter" /\ e.path = p
    BY DEF Of
  <2> HIDE DEF e
  <2>5. CASE c \in Of(dir, p, {"letter"})
    <3>1. c < c + 1 /\ M[n].letter = dir[c].letter
      BY <1>0, <2>3, <2>4, <2>5 DEF e
    <3>2. \A j \in Of(dir, p, {"letter"}) : c < j => c + 1 <= j
      BY <1>0, <2>2
    <3> QED BY <2>5, <3>1, <3>2 DEF LastLetter
  <2>6. CASE c \notin Of(dir, p, {"letter"})
    <3>1. k < c + 1 /\ M[n].letter = dir[k].letter
      BY <1>0, <2>1, <2>2, <2>3, <2>4, <2>6
    <3>2. \A j \in Of(dir, p, {"letter"}) : k < j => c + 1 <= j
      <4> SUFFICES ASSUME NEW j \in Of(dir, p, {"letter"}), k < j PROVE c + 1 <= j
        OBVIOUS
      <4>1. c <= j /\ c # j /\ j \in Nat
        BY <2>1, <2>2, <2>6
      <4> QED BY <4>1, <1>0
    <3> QED BY <3>1, <3>2 DEF LastLetter
  <2> QED BY <2>5, <2>6
<1>4. LastClass(M, M[n], dir, c + 1, p)
  <2> DEFINE about == On(dir, p, L[n].serial)
  <2>1. PICK k \in about :
          /\ k < c /\ L[n].type = Class[dir[k].kind]
          /\ \A j \in about : k < j /\ j < c => dir[j].kind = "usbstor" /\ Elsewhere(L, p, dir[j])
    BY <1>1 DEF LastClass
  <2>2. about \subseteq Nat /\ about = On(dir, p, M[n].serial)
    BY <1>0, <1>2 DEF On, Of
  <2>3. M[n].type = IF Concerns(L, n, e) THEN Class[e.kind] ELSE L[n].type
    BY <1>1 DEF Effect
  <2>4. Concerns(L, n, e) => c \in about
    BY <1>1 DEF Concerns, On, Of
  <2>5. ~Concerns(L, n, e) /\ c \in about => e.kind = "usbstor" /\ Elsewhere(L, p, e)
    <3> SUFFICES ASSUME ~Concerns(L, n, e), c \in about
                 PROVE  e.kind = "usbstor" /\ Elsewhere(L, p, e)
      OBVIOUS
    <3>1. e.kind = "usbstor" /\ e.serial # L[n].serial /\ e.path = p
      BY <1>1 DEF Concerns, On, Of
    <3>2. PICK j \in 1..Len(L) : L[j].serial = e.serial
      BY <1>1, <3>1 DEF Concerns
    <3>3. j # n /\ L[j].path # p
      BY <1>1, <3>1, <3>2 DEF Whole
    <3> QED BY <3>1, <3>2, <3>3 DEF Elsewhere
  <2>6. Carries(L, M)
    BY DEF Effect
  <2> HIDE DEF about, e
  <2>7. CASE Concerns(L, n, e)
    <3>1. c < c + 1 /\ M[n].type = Class[dir[c].kind]
      BY <1>0, <2>3, <2>7 DEF e
    <3>2. \A j \in about : ~(c < j /\ j < c + 1)
      BY <1>0, <2>2
    <3> QED BY <2>2, <2>4, <2>7, <3>1, <3>2 DEF LastClass
  <2>8. CASE ~Concerns(L, n, e)
    <3>1. k < c + 1 /\ M[n].type = Class[dir[k].kind]
      BY <1>0, <2>1, <2>2, <2>3, <2>8
    <3>2. ASSUME NEW j \in about, k < j, j < c + 1
          PROVE  dir[j].kind = "usbstor" /\ Elsewhere(M, p, dir[j])
      <4>1. j \in Nat /\ (j < c \/ j = c)
        BY <1>0, <2>2, <3>2
      <4>2. dir[j].kind = "usbstor" /\ Elsewhere(L, p, dir[j])
        BY <2>1, <2>5, <2>8, <3>2, <4>1 DEF e
      <4> QED BY <2>6, <4>2, ElsewhereStays
    <3> QED BY <2>1, <2>2, <3>1, <3>2 DEF LastClass
  <2> QED BY <2>7, <2>8
<1> QED BY <1>2, <1>3, <1>4 DEF Known

\* The letter's own entry is all there is to know.
LEMMA KnownNew ==
  ASSUME NEW L \in Seq(Node), NEW M \in Seq(Node), NEW dir \in Seq(Entry),
         NEW c \in DOMAIN dir, Effect(L, M, dir[c]), dir[c].kind = "letter"
  PROVE  Known(M, dir, c + 1, dir[c].path)
<1> DEFINE p == dir[c].path
<1>0. c \in Nat /\ DOMAIN dir \subseteq Nat
  OBVIOUS
<1>1. PICK i \in 1..Len(M) : /\ M[i].path = p /\ M[i].letter = dir[c].letter
                             /\ M[i].type = Class["letter"]
  BY DEF Effect
<1>2. c \in Of(dir, p, {"letter"}) /\ c \in On(dir, p, M[i].serial)
  BY DEF Of, On
<1>3. Of(dir, p, {"letter"}) \subseteq Nat /\ On(dir, p, M[i].serial) \subseteq Nat
  BY <1>0 DEF Of, On
<1>4. LastLetter(M[i], dir, c + 1, p)
  <2>1. \A j \in Of(dir, p, {"letter"}) : c < j => c + 1 <= j
    BY <1>0, <1>3
  <2> QED BY <1>0, <1>1, <1>2, <2>1 DEF LastLetter
<1>5. LastClass(M, M[i], dir, c + 1, p)
  <2>1. \A j \in On(dir, p, M[i].serial) : ~(c < j /\ j < c + 1)
    BY <1>0, <1>3
  <2> QED BY <1>0, <1>1, <1>2, <2>1 DEF LastClass
<1> QED BY <1>1, <1>4, <1>5 DEF Known

-----------------------------------------------------------------------------
(* The steps, and what the scan knows after them                           *)

\* A step that leaves the nodes alone: the scan stays where it is, or begins, or
\* ends, or \?? has changed under it.
LEMMA ScanAside ==
  ASSUME TypeOK, TypeOK', ScanInv, UNCHANGED <<list, tail>>,
         starved => starved', fault => fault', context' > 0,
         calm' /\ owner' # None =>
           \/ context' = 1
           \/ calm /\ owner # None /\ UNCHANGED <<directory, context>>
  PROVE  ScanInv'
<1> SUFFICES ASSUME ~starved', ~fault'
             PROVE  /\ Whole(list)'
                    /\ list' # <<>> => tail'
                    /\ calm' /\ owner' # None =>
                         \A k \in DOMAIN directory' :
                           k < context' /\ directory'[k].kind = "letter" =>
                             Known(list', directory', context', directory'[k].path)
  BY DEF ScanInv
<1>1. /\ Whole(list) /\ (list # <<>> => tail)
      /\ calm /\ owner # None =>
           \A k \in DOMAIN directory :
             k < context /\ directory[k].kind = "letter" =>
               Known(list, directory, context, directory[k].path)
  BY DEF ScanInv
<1>2. Whole(list)' /\ (list' # <<>> => tail')
  BY <1>1
<1>3. ASSUME calm', owner' # None, NEW k \in DOMAIN directory', k < context',
             directory'[k].kind = "letter"
      PROVE  Known(list', directory', context', directory'[k].path)
  <2>1. directory' \in Seq(Entry)
    BY DrivesAssumption DEF DrivesAssumption, TypeOK
  <2>2. CASE context' = 1
    BY <1>3, <2>1, <2>2
  <2>3. CASE calm /\ owner # None /\ UNCHANGED <<directory, context>>
    BY <1>1, <1>3, <2>3
  <2> QED BY <1>3, <2>2, <2>3
<1> QED BY <1>2, <1>3

LEMMA ScanInit == Init => ScanInv
<1> SUFFICES ASSUME Init PROVE ScanInv
  OBVIOUS
<1>1. list = <<>> /\ Len(list) = 0 /\ context = 1 /\ owner = None
  BY DEF Init
<1>2. Whole(list)
  BY <1>1 DEF Whole
<1> QED BY <1>1, <1>2 DEF ScanInv

\* An entry, once nothing fails.
LEMMA ProcessEffect ==
  ASSUME TypeOK, Ready, NEW t, NEW k \in DOMAIN directory,
         Process(t, directory[k]), ~fault', ~starved'
  PROVE  /\ list' # <<>> => tail'
         /\ list' \in Seq(Node) /\ Whole(list') /\ Effect(list, list', directory[k])
<1> DEFINE e == directory[k]
<1>1. /\ e \in Entry /\ (e.kind = "letter" => e.letter \in Letters)
      /\ e.serial # None <=> e.kind \in {"usb", "usbstor"}
      /\ e.kind # "usb" => e.path \in Volumes
      /\ e.kind = "usb" => e.path \notin Volumes
  BY EntryFields, EntryKind
<1>2. \/ e.kind = "letter" /\ LetterEntry(e)
      \/ e.kind = "volume" /\ VolumeEntry(e)
      \/ e.kind = "usb" /\ UsbEntry(t, e)
      \/ e.kind = "usbstor" /\ UsbStorEntry(e)
  BY DEF Process
<1> HIDE DEF e
<1>r. /\ list' # <<>> => tail'
      /\ list' \in Seq(Node) /\ Whole(list') /\ Effect(list, list', e)
  <2>1. CASE e.kind = "letter" /\ LetterEntry(e)
    BY <1>1, <2>1, LetterEffect
  <2>2. CASE e.kind = "volume" /\ VolumeEntry(e)
    BY <1>1, <2>2, VolumeEffect
  <2>3. CASE e.kind = "usb" /\ UsbEntry(t, e)
    BY <1>1, <2>3, UsbEffect
  <2>4. CASE e.kind = "usbstor" /\ UsbStorEntry(e)
    BY <1>1, <2>4, UsbStorEffect
  <2> QED BY <1>2, <2>1, <2>2, <2>3, <2>4
<1> QED BY <1>r DEF e

LEMMA ReadScan ==
  ASSUME IInv, ScanInv, NEW t \in Threads, ReadEntry(t)
  PROVE  ScanInv'
<1> DEFINE e == directory[context]
<1>1. /\ ~fault /\ context \in DOMAIN directory /\ context' = context + 1
      /\ Process(t, e) \/ NoSerial(t, e)
      /\ directory' = directory /\ owner' = owner /\ calm' = calm
  BY DEF ReadEntry, Runs
<1>2. TypeOK /\ list \in Seq(Node) /\ tail \in BOOLEAN /\ directory \in Seq(Entry)
      /\ context \in Nat /\ context > 0 /\ DOMAIN directory \subseteq Nat
  BY DrivesAssumption DEF IInv, TypeOK, ScanInv, DrivesAssumption
<1>3. starved => starved'
  BY <1>1 DEF NoSerial, Process, LetterEntry, VolumeEntry, UsbEntry, UsbStorEntry, Add,
              Rename, Retype, Ignore, Fails
<1>4. context' > 0
  BY <1>1, <1>2
<1>5. SUFFICES ASSUME ~starved', ~fault'
               PROVE  /\ Whole(list)'
                      /\ list' # <<>> => tail'
                      /\ calm' /\ owner' # None =>
                           \A k \in DOMAIN directory' :
                             k < context' /\ directory'[k].kind = "letter" =>
                               Known(list', directory', context', directory'[k].path)
  BY <1>4 DEF ScanInv
<1>6. Process(t, e)
  BY <1>1, <1>5 DEF NoSerial, Fails
<1>7. /\ Whole(list) /\ (list # <<>> => tail)
      /\ calm /\ owner # None =>
           \A k \in DOMAIN directory :
             k < context /\ directory[k].kind = "letter" =>
               Known(list, directory, context, directory[k].path)
  BY <1>1, <1>3, <1>5 DEF ScanInv
<1>8. Ready
  BY <1>2, <1>7 DEF Ready
<1>9. /\ list' # <<>> => tail'
      /\ list' \in Seq(Node) /\ Whole(list') /\ Effect(list, list', e)
  BY <1>1, <1>2, <1>5, <1>6, <1>8, ProcessEffect
<1>10. Whole(list)'
  BY <1>9 DEF Whole
<1>11. ASSUME calm', owner' # None, NEW k \in DOMAIN directory', k < context',
              directory'[k].kind = "letter"
       PROVE  Known(list', directory', context', directory'[k].path)
  <2>1. k \in DOMAIN directory /\ k \in Nat /\ directory[k].kind = "letter"
        /\ (k < context \/ k = context) /\ calm /\ owner # None
    BY <1>1, <1>2, <1>11
  <2>2. directory[k].path \in Volumes
    BY <1>2, <2>1, EntryKind
  <2>3. CASE k < context
    <3>1. Known(list, directory, context, directory[k].path)
      BY <1>7, <2>1, <2>3
    <3> QED BY <1>1, <1>2, <1>7, <1>9, <2>2, <3>1, KnownOn
  <2>4. CASE k = context
    BY <1>1, <1>2, <1>9, <2>1, <2>4, KnownNew
  <2> QED BY <2>1, <2>3, <2>4
<1> QED BY <1>9, <1>10, <1>11

LEMMA ScanStep == IInv /\ IInv' /\ ScanInv /\ [Next]_vars => ScanInv'
<1> SUFFICES ASSUME IInv, IInv', ScanInv, [Next]_vars PROVE ScanInv'
  OBVIOUS
<1>0. TypeOK /\ TypeOK' /\ context \in Nat /\ context > 0 /\ (Fails => starved')
  BY DEF IInv, ScanInv, TypeOK, Fails
<1> USE DEF drives, scan, history
<1>1. ASSUME NEW t \in Threads, Enter(t) PROVE ScanInv'
  <2>1. UNCHANGED <<list, tail, fault>> /\ owner = None
        /\ (owner' # None => context' = 1) /\ context' > 0
    BY <1>0, <1>1 DEF Enter
  <2>2. starved => starved'
    BY <1>0, <1>1 DEF Enter
  <2> QED BY <1>0, <2>1, <2>2, ScanAside
<1>2. ASSUME NEW t \in Threads, ReadEntry(t) PROVE ScanInv'
  BY <1>2, ReadScan
<1>3. ASSUME NEW t \in Threads, Gone(t) PROVE ScanInv'
  <2>1. UNCHANGED <<list, tail, fault, starved>> /\ ~calm' /\ context' > 0
    BY <1>0, <1>3 DEF Gone, Changes
  <2> QED BY <1>0, <2>1, ScanAside
<1>4. ASSUME NEW t \in Threads, Leave(t) PROVE ScanInv'
  <2>1. UNCHANGED <<list, tail, fault>> /\ owner' = None /\ context' > 0
        /\ (starved => starved')
    BY <1>0, <1>4 DEF Leave
  <2> QED BY <1>0, <2>1, ScanAside
<1>5. ASSUME UNCHANGED <<drives, directory, scan, calm>>, starved => starved', fault => fault'
      PROVE  ScanInv'
  BY <1>0, <1>5, ScanAside
<1>6. ASSUME NEW d \in Devices, Device(d) PROVE ScanInv'
  <2>1. UNCHANGED <<drives, directory, scan, calm>>
    BY <1>6 DEF Device, Arrive, Copy, Find
  <2>2. starved => starved'
    BY <1>0, <1>6 DEF Device, Arrive, Copy, Find
  <2>3. fault => fault'
    BY <1>6 DEF Device, Arrive, Copy, Find
  <2> QED BY <1>5, <2>1, <2>2, <2>3
<1>7. CASE Plug
  <2>1. UNCHANGED <<list, tail, fault, starved>> /\ ~calm' /\ context' > 0
    BY <1>0, <1>7 DEF Plug, Changes
  <2> QED BY <1>0, <2>1, ScanAside
<1>8. CASE UNCHANGED vars
  BY <1>5, <1>8 DEF vars
<1> QED BY <1>1, <1>2, <1>3, <1>4, <1>6, <1>7, <1>8 DEF Next, Scan

\* What is known at the end of the directory is what a file is taken to be on.
LEMMA KnownClassified ==
  ASSUME TypeOK, Whole(list), list # <<>> => tail, NEW c \in Nat, c > Len(directory),
         NEW p \in Paths, p \in Volumes, Known(list, directory, c, p)
  PROVE  Classified(p)
<1>0. /\ list \in Seq(Node) /\ Len(list) \in Nat
      /\ directory \in Seq(Entry) /\ Len(directory) \in Nat
      /\ DOMAIN directory = 1..Len(directory)
  BY DrivesAssumption DEF TypeOK, DrivesAssumption
<1>1. PICK n \in 1..Len(list) : /\ list[n].path = p
                                /\ LastLetter(list[n], directory, c, p)
                                /\ LastClass(list, list[n], directory, c, p)
  BY DEF Known
<1>2. ByPath(list, p) = n
  <2>1. /\ ByPath(list, p) \in 0..Len(list)
        /\ ByPath(list, p) = 0 => \A i \in 1..Len(list) : list[i].path # p
        /\ ByPath(list, p) # 0 => list[ByPath(list, p)].path = p
    BY <1>0, FirstByPath
  <2>2. ByPath(list, p) \in 1..Len(list) /\ list[ByPath(list, p)].path = p
    BY <1>0, <1>1, <2>1
  <2> QED BY <1>1, <2>2 DEF Whole
<1>3. n # 0 /\ n \in Nat
  BY <1>0, <1>1
<1>4. PICK k \in Of(directory, p, {"letter"}) :
        /\ k < c /\ list[n].letter = directory[k].letter
        /\ \A j \in Of(directory, p, {"letter"}) : k < j => c <= j
  BY <1>1 DEF LastLetter
<1>5. list[n].letter # None
  <2>1. k \in DOMAIN directory /\ directory[k].kind = "letter"
    BY <1>4 DEF Of
  <2> QED BY <1>4, <2>1, EntryFields
<1>6. list[n].letter = Latest(EntriesOf(p, {"letter"})).letter
  <2> DEFINE ks == Of(directory, p, {"letter"})
  <2>1. EntriesOf(p, {"letter"}) = ks
    BY DEF EntriesOf, Of
  <2>2. \A j \in ks : j \in Nat /\ j <= Len(directory)
    BY <1>0 DEF Of
  <2>3. \A j \in ks : j <= k
    BY <1>0, <1>4, <2>2
  <2>4. k \in ks
    BY <1>4
  <2> HIDE DEF ks
  <2>5. (CHOOSE m \in ks : \A j \in ks : j <= m) = k
    <3>1. \A m \in ks : (\A j \in ks : j <= m) => m = k
      BY <2>2, <2>3, <2>4
    <3> QED BY <2>3, <2>4, <3>1
  <2>6. Latest(ks) = directory[k]
    BY <2>5 DEF Latest
  <2> QED BY <1>4, <2>1, <2>6
<1>7. \E m \in About(p, list[n].serial) :
        /\ list[n].type = Class[directory[m].kind]
        /\ \A j \in About(p, list[n].serial) : j > m => /\ directory[j].kind = "usbstor"
                                                       /\ HeldElsewhere(p, directory[j])
  <2> DEFINE about == On(directory, p, list[n].serial)
  <2>1. About(p, list[n].serial) = about
    BY DEF About, On, EntriesOf, Of
  <2>2. PICK m \in about :
          /\ m < c /\ list[n].type = Class[directory[m].kind]
          /\ \A j \in about : m < j /\ j < c =>
               directory[j].kind = "usbstor" /\ Elsewhere(list, p, directory[j])
    BY <1>1 DEF LastClass
  <2>3. \A j \in about : j \in Nat /\ j < c
    BY <1>0 DEF On, Of
  <2>4. \A e : Elsewhere(list, p, e) => HeldElsewhere(p, e)
    BY <1>0 DEF Elsewhere, HeldElsewhere, ToSet
  <2> HIDE DEF about
  <2>5. ASSUME NEW j \in about, j > m
        PROVE  directory[j].kind = "usbstor" /\ HeldElsewhere(p, directory[j])
    BY <2>2, <2>3, <2>4, <2>5
  <2> QED BY <2>1, <2>2, <2>5
<1>8. DriveOf(p) \in 1..n /\ p \in Alike[list[DriveOf(p)].path]
  <2> DEFINE I == {i \in 1..Len(list) : list[i].letter # None /\ p \in Alike[list[i].path]}
  <2>1. tail
    BY <1>0, <1>1
  <2>2. DriveOf(p) = Place(I)
    BY <2>1 DEF DriveOf, SelectInSeq, Place
  <2>3. n \in I
    BY <1>1, <1>5, DrivesAssumption DEF DrivesAssumption
  <2>4. I \in SUBSET (1..Len(list)) /\ \A i \in I : p \in Alike[list[i].path]
    OBVIOUS
  <2> HIDE DEF I
  <2>5. /\ Place(I) \in 0..Len(list) /\ (Place(I) = 0 => I = {})
        /\ (Place(I) # 0 => Place(I) \in I /\ \A i \in I : Place(I) <= i)
    BY <1>0, <2>4, FirstPlace
  <2>6. Place(I) # 0 /\ Place(I) \in I /\ Place(I) <= n
    BY <2>3, <2>5
  <2> QED BY <1>3, <2>2, <2>4, <2>5, <2>6
<1> QED BY <1>2, <1>3, <1>6, <1>7, <1>8 DEF Classified

\* The step that ends a scan.
ScanEnds ==
  owner # None /\ owner' = None /\ calm /\ ~starved'
  => \A p \in Paths : EntriesOf(p, {"letter"}) # {} => Classified(p)

LEMMA EndStep == IInv /\ ScanInv /\ [Next]_vars => ScanEnds
<1> SUFFICES ASSUME IInv, ScanInv, [Next]_vars,
                    owner # None, owner' = None, calm, ~starved',
                    NEW p \in Paths, EntriesOf(p, {"letter"}) # {}
             PROVE  Classified(p)
  BY DEF ScanEnds
<1>0. /\ TypeOK /\ context \in Nat /\ context > 0
      /\ directory \in Seq(Entry) /\ DOMAIN directory = 1..Len(directory)
      /\ Len(directory) \in Nat
  BY DrivesAssumption DEF IInv, TypeOK, ScanInv, DrivesAssumption
<1> USE DEF drives, scan, history
<1>1. PICK t \in Threads : Leave(t)
  <2>1. ASSUME NEW t \in Threads, Enter(t) PROVE FALSE
    BY <2>1 DEF Enter
  <2>2. ASSUME NEW t \in Threads, ReadEntry(t) \/ Gone(t) PROVE FALSE
    BY <2>2 DEF ReadEntry, Gone
  <2>3. ASSUME NEW d \in Devices, Device(d) PROVE FALSE
    BY <2>3 DEF Device, Arrive, Copy, Find
  <2>4. ~Plug /\ ~UNCHANGED vars
    BY DEF Plug, vars
  <2> QED BY <2>1, <2>2, <2>3, <2>4 DEF Next, Scan
<1>2. ~fault /\ ~starved /\ context > Len(directory)
  <2>1. ~fault /\ context \notin DOMAIN directory /\ UNCHANGED starved
    BY <1>1 DEF Leave, Runs, Fails
  <2> QED BY <1>0, <2>1
<1>3. PICK k \in DOMAIN directory : directory[k].kind = "letter" /\ directory[k].path = p
  BY DEF EntriesOf
<1>4. p \in Volumes
  BY <1>0, <1>3, EntryKind
<1>5. Whole(list) /\ (list # <<>> => tail) /\ Known(list, directory, context, p)
  BY <1>0, <1>2, <1>3 DEF ScanInv
<1> QED BY <1>0, <1>2, <1>4, <1>5, KnownClassified

\* After a scan of a directory that stayed as it was, and while nothing has
\* failed, is_Drives_PATH finds a drive for each volume with a letter, with its
\* last letter and the class of the last entry about it, whatever threads scanned
\* before, came in between or wait for the mutex.
THEOREM ScansClassify == Spec => ScanClassifies
<1>1. IInv /\ IInv' /\ ScanInv /\ [Next]_vars => ScanInv'
  BY ScanStep
<1>2. IInv /\ ScanInv /\ [Next]_vars => ScanEnds
  BY EndStep
<1> QED
  BY <1>1, <1>2, ScanInit, AlwaysIInv, PTL DEF Spec, ScanClassifies, ScanEnds
=============================================================================
