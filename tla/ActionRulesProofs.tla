------------------------- MODULE ActionRulesProofs -------------------------
(***************************************************************************)
(* Theorems about ActionRules and the list it shares with the scan, for    *)
(* any processes, commands, files, handles and number of nodes.            *)
(*                                                                         *)
(* Until an allocation fails or freed memory is read, the next pointers    *)
(* from the first node on reach every node of the pool once, and sections  *)
(* stand in the order of their first nodes (Listing).  Adding a node and   *)
(* removing the nodes of a scan keep that, and the rules among them; so    *)
(* the rules in force are those in the pool, and what a callback has made  *)
(* of a handle follows them (Handling).  What the walks compute is proved  *)
(* by the least number of steps at which they would not.                   *)
(***************************************************************************)
EXTENDS ActionRules, FiniteSetTheorems, TLAPS

-----------------------------------------------------------------------------
(* The least and the greatest of a set of numbers.                         *)

LEMMA MinExists ==
  ASSUME NEW S \in SUBSET Nat, S # {}
  PROVE  Min(S) \in S /\ \A k \in S : Min(S) <= k
<1>1. PICK x \in S : \A y \in S : <<y, x>> \notin OpToRel(<, Nat)
  BY NatLessThanWellFounded, WFMin
<1>2. ASSUME NEW y \in S PROVE x <= y
  <2>1. <<y, x>> \notin OpToRel(<, Nat)
    BY <1>1
  <2> QED BY <2>1 DEF OpToRel
<1> QED BY <1>2 DEF Min

LEMMA MaxExists ==
  ASSUME NEW S \in SUBSET Nat, S # {}, NEW b \in Nat, \A k \in S : k <= b
  PROVE  Max(S) \in S /\ \A k \in S : k <= Max(S)
<1> DEFINE B == {c \in Nat : \A k \in S : k <= c}
<1>1. Min(B) \in B /\ \A c \in B : Min(B) <= c
  BY MinExists
<1> DEFINE m == Min(B)
<1>2. m \in S
  <2> SUFFICES ASSUME m \notin S PROVE FALSE
    OBVIOUS
  <2>1. \A k \in S : k < m
    BY <1>1
  <2>2. m > 0 /\ m - 1 \in Nat
    <3>1. PICK k : k \in S
      OBVIOUS
    <3>2. k \in Nat /\ m \in Nat /\ k < m
      BY <3>1, <2>1, <1>1
    <3> QED BY <3>2
  <2>3. \A k \in S : k <= m - 1
    <3> TAKE k \in S
    <3>1. k \in Nat /\ m \in Nat /\ k < m
      BY <2>1, <1>1
    <3> QED BY <3>1
  <2>4. m - 1 \in B
    BY <2>2, <2>3
  <2>5. ~ (m <= m - 1)
    BY <2>2, <1>1
  <2> QED BY <2>4, <2>5, <1>1
<1> HIDE DEF m
<1>3. \A k \in S : m >= k
  BY <1>1 DEF m
<1> QED BY <1>2, <1>3 DEF Max

\* The numbers that finitely many arguments have are bounded.
LEMMA BoundExists ==
  ASSUME NEW N \in Nat, NEW f, \A k \in 1..N : f[k] \in Nat
  PROVE  \E b \in Nat : \A k \in 1..N : f[k] <= b
<1> DEFINE Bounded(n) == \E b \in Nat : \A k \in 1..n : f[k] <= b
           Bad == {n \in 0..N : ~Bounded(n)}
<1>0. Bounded(0)
  OBVIOUS
<1> SUFFICES Bounded(N)
  OBVIOUS
<1> HIDE DEF Bounded
<1> SUFFICES ASSUME Bad # {} PROVE FALSE
  OBVIOUS
<1> DEFINE n == Min(Bad)
<1>1. n \in Bad /\ \A k \in Bad : n <= k
  BY MinExists
<1> HIDE DEF n
<1>2. n # 0 /\ n \in 1..N /\ n - 1 \in 0..N
  BY <1>0, <1>1
<1>a. Bounded(n - 1)
  BY <1>1, <1>2
<1>3. PICK b \in Nat : \A k \in 1..(n - 1) : f[k] <= b
  BY <1>a DEF Bounded
<1>4. PICK c \in Nat : b <= c /\ f[n] <= c
  <2>1. f[n] \in Nat
    BY <1>1, <1>2
  <2>2. b <= b + f[n] /\ f[n] <= b + f[n] /\ b + f[n] \in Nat
    BY <2>1
  <2> QED BY <2>2
<1>5. \A k \in 1..n : f[k] <= c
  <2> TAKE k \in 1..n
  <2>1. CASE k = n
    BY <2>1, <1>4
  <2>2. CASE k \in 1..(n - 1)
    <3>1. f[k] <= b /\ f[k] \in Nat
      BY <2>2, <1>3, <1>2
    <3> QED BY <3>1, <1>4
  <2> QED BY <2>1, <2>2, <1>2
<1> QED BY <1>1, <1>5, <1>4 DEF Bounded

-----------------------------------------------------------------------------
(* What a walk meets: Walk and Chain, for any memory.                      *)

Follow(mem) == [m \in Pointer |-> IF m = Null THEN Null ELSE mem[m].next]

WalkIn(mem, n) ==
  LET met[k \in Node] == IF k = 1 THEN n ELSE Follow(mem)[met[k - 1]]
  IN  met

ChainIn(mem, n) ==
  [k \in {j \in Node : WalkIn(mem, n)[j] # Null} |-> WalkIn(mem, n)[k]]

LEMMA ChainIsChainIn ==
  ASSUME NEW n
  PROVE  Chain(n) = ChainIn(node, n)
BY DEF Chain, ChainIn, Walk, WalkIn, Following, Follow

\* f is a walk from n on.
IsWalk(f, mem, n) == f = [k \in Node |-> IF k = 1 THEN n ELSE Follow(mem)[f[k - 1]]]

LEMMA WalkFromWitness ==
  ASSUME NEW mem, NEW n, NEW f, IsWalk(f, mem, n)
  PROVE  IsWalk(WalkIn(mem, n), mem, n)
BY DEF IsWalk, WalkIn

LEMMA WalkUnique ==
  ASSUME NEW mem, NEW n, NEW f, IsWalk(f, mem, n)
  PROVE  WalkIn(mem, n) = f
<1> DEFINE w == WalkIn(mem, n)
           Bad == {k \in Node : w[k] # f[k]}
<1>1. IsWalk(w, mem, n)
  BY WalkFromWitness
<1> HIDE DEF w
<1>2. Bad = {}
  <2> SUFFICES ASSUME Bad # {} PROVE FALSE
    OBVIOUS
  <2> DEFINE k == Min(Bad)
  <2>1. k \in Bad /\ \A j \in Bad : k <= j
    BY MinExists, ParallelListAssumption DEF Node
  <2> HIDE DEF k
  <2>2. k # 1 /\ k - 1 \in Node
    BY <2>1, <1>1, ParallelListAssumption DEF IsWalk, Node
  <2>3. w[k - 1] = f[k - 1]
    BY <2>1, <2>2, ParallelListAssumption DEF Node
  <2> QED BY <2>1, <2>2, <2>3, <1>1 DEF IsWalk
<1> QED BY <1>1, <1>2 DEF IsWalk, w

\* There is a walk from every pointer, whatever the memory holds.
LEMMA WalkExists ==
  ASSUME NEW mem \in [Node -> Memory], NEW n \in Pointer
  PROVE  /\ IsWalk(WalkIn(mem, n), mem, n)
         /\ WalkIn(mem, n) \in [Node -> Pointer]
<1> USE ParallelListAssumption
<1> DEFINE Upto(m) == \E f \in [1..m -> Pointer] :
                         \A k \in 1..m : f[k] = IF k = 1 THEN n ELSE Follow(mem)[f[k - 1]]
           Bad == {m \in 0..MaxNodes : ~Upto(m)}
<1>0. Follow(mem) \in [Pointer -> Pointer]
  BY DEF Follow, Memory, Pointer
<1>1. Upto(0)
  <2> DEFINE g == [k \in 1..0 |-> n]
  <2>1. g \in [1..0 -> Pointer] /\ \A k \in 1..0 : FALSE
    OBVIOUS
  <2> HIDE DEF g
  <2> QED BY <2>1
<1>2. ASSUME NEW m \in 1..MaxNodes, Upto(m - 1) PROVE Upto(m)
  <2>1. PICK f \in [1..(m - 1) -> Pointer] :
           \A k \in 1..(m - 1) : f[k] = IF k = 1 THEN n ELSE Follow(mem)[f[k - 1]]
    BY <1>2
  <2> DEFINE g == [k \in 1..m |-> IF k < m THEN f[k]
                                  ELSE IF m = 1 THEN n ELSE Follow(mem)[f[m - 1]]]
  <2>2. g \in [1..m -> Pointer]
    BY <1>0
  <2>3. \A k \in 1..m : g[k] = IF k = 1 THEN n ELSE Follow(mem)[g[k - 1]]
    <3> TAKE k \in 1..m
    <3>1. CASE k < m
      BY <3>1, <2>1
    <3>2. CASE k = m
      BY <3>2, <2>1
    <3> QED BY <3>1, <3>2
  <2> HIDE DEF g
  <2> QED BY <2>2, <2>3
<1>3. Upto(MaxNodes)
  <2> HIDE DEF Upto
  <2> SUFFICES ASSUME Bad # {} PROVE FALSE
    OBVIOUS
  <2> DEFINE m == Min(Bad)
  <2>1. m \in Bad /\ \A k \in Bad : m <= k
    BY MinExists
  <2> HIDE DEF m
  <2>2. m \in 1..MaxNodes /\ m - 1 \in 0..MaxNodes
    BY <2>1, <1>1
  <2>3. Upto(m - 1)
    BY <2>1, <2>2
  <2> QED BY <2>1, <2>2, <2>3, <1>2
<1>4. PICK f \in [Node -> Pointer] :
         \A k \in Node : f[k] = IF k = 1 THEN n ELSE Follow(mem)[f[k - 1]]
  BY <1>3 DEF Node
<1>5. IsWalk(f, mem, n)
  BY <1>4 DEF IsWalk
<1> QED BY <1>5, WalkUnique

\* A walk that has met NULL meets nothing else.
LEMMA WalkEnds ==
  ASSUME NEW mem \in [Node -> Memory], NEW n \in Pointer
  PROVE  \E m \in 0..MaxNodes : \A k \in Node : WalkIn(mem, n)[k] # Null <=> k <= m
<1> USE ParallelListAssumption
<1> DEFINE w == WalkIn(mem, n)
           Ended == {k \in Node : w[k] = Null}
<1>1. \A k \in Node : w[k] = IF k = 1 THEN n ELSE Follow(mem)[w[k - 1]]
  BY WalkExists DEF IsWalk
<1> HIDE DEF w
<1>2. CASE Ended = {}
  <2>1. \A k \in Node : w[k] # Null <=> k <= MaxNodes
    BY <1>2 DEF Node
  <2> QED BY <2>1 DEF w
<1>3. CASE Ended # {}
  <2> DEFINE e == Min(Ended)
  <2>0. Ended \in SUBSET Nat
    BY DEF Node
  <2>1. e \in Ended /\ \A k \in Ended : e <= k
    BY <1>3, <2>0, MinExists
  <2> HIDE DEF e
  <2> DEFINE Late == {k \in Node : e < k /\ w[k] # Null}
  <2>2. Late = {}
    <3> SUFFICES ASSUME Late # {} PROVE FALSE
      OBVIOUS
    <3> DEFINE l == Min(Late)
    <3>1. l \in Late /\ \A k \in Late : l <= k
      BY MinExists DEF Node
    <3> HIDE DEF l
    <3>2. l - 1 \in Node /\ l # 1 /\ l \in Node /\ e <= l - 1
      BY <3>1, <2>1 DEF Node
    <3>3. w[l - 1] = Null
      <4>1. CASE e = l - 1
        BY <4>1, <2>1
      <4>2. CASE e < l - 1
        <5>1. l - 1 \notin Late
          BY <3>1, <3>2 DEF Node
        <5> QED BY <5>1, <3>2, <4>2
      <4> QED BY <4>1, <4>2, <3>2, <2>1 DEF Node
    <3>4. Follow(mem)[Null] = Null
      BY DEF Follow, Pointer
    <3>5. w[l] = Null
      BY <1>1, <3>2, <3>3, <3>4
    <3> QED BY <3>1, <3>5
  <2>3. \A k \in Node : w[k] # Null <=> k <= e - 1
    <3> TAKE k \in Node
    <3>1. k \in Nat /\ e \in Nat
      BY <2>1 DEF Node
    <3>2. CASE k <= e - 1
      BY <3>1, <3>2, <2>1
    <3>3. CASE k = e
      BY <3>1, <3>3, <2>1
    <3>4. CASE e < k
      BY <3>4, <2>2, <3>1
    <3> QED BY <3>1, <3>2, <3>3, <3>4
  <2>4. e - 1 \in 0..MaxNodes
    BY <2>1 DEF Node
  <2> QED BY <2>3, <2>4 DEF w
<1> QED BY <1>2, <1>3

\* The chain from a pointer is a sequence of nodes.
LEMMA ChainType ==
  ASSUME NEW mem \in [Node -> Memory], NEW n \in Pointer
  PROVE  ChainIn(mem, n) \in Seq(Node) /\ Len(ChainIn(mem, n)) <= MaxNodes
<1> USE ParallelListAssumption
<1>1. PICK m \in 0..MaxNodes : \A k \in Node : WalkIn(mem, n)[k] # Null <=> k <= m
  BY WalkEnds
<1>2. {j \in Node : WalkIn(mem, n)[j] # Null} = 1..m
  BY <1>1 DEF Node
<1>3. ChainIn(mem, n) = [k \in 1..m |-> WalkIn(mem, n)[k]]
  BY <1>2 DEF ChainIn
<1>4. \A k \in 1..m : WalkIn(mem, n)[k] \in Node
  BY <1>1, WalkExists DEF Node, Pointer
<1> QED BY <1>3, <1>4

\* s is the path of Next_Node from n to NULL.
Path(s, mem, n) ==
  /\ s \in Seq(Node) /\ Len(s) <= MaxNodes
  /\ n = IF Len(s) = 0 THEN Null ELSE s[1]
  /\ \A k \in 1..Len(s) : mem[s[k]].next = IF k = Len(s) THEN Null ELSE s[k + 1]

LEMMA ChainOfPath ==
  ASSUME NEW mem, NEW n, NEW s, Path(s, mem, n)
  PROVE  ChainIn(mem, n) = s
<1> USE ParallelListAssumption
<1> DEFINE f == [k \in Node |-> IF k <= Len(s) THEN s[k] ELSE Null]
<1>0. s \in Seq(Node) /\ Len(s) \in Nat /\ Len(s) <= MaxNodes /\ DOMAIN s = 1..Len(s)
  BY DEF Path
<1>a. n = IF Len(s) = 0 THEN Null ELSE s[1]
  BY <1>0 DEF Path
<1>b. \A k \in 1..Len(s) : mem[s[k]].next = IF k = Len(s) THEN Null ELSE s[k + 1]
  BY DEF Path
<1>1. IsWalk(f, mem, n)
  <2> SUFFICES ASSUME NEW k \in Node
               PROVE  f[k] = IF k = 1 THEN n ELSE Follow(mem)[f[k - 1]]
    BY DEF IsWalk
  <2>0. k \in 1..MaxNodes
    BY DEF Node
  <2>1. CASE k = 1
    BY <2>1, <1>0, <1>a
  <2>2. CASE k > 1 /\ k <= Len(s)
    <3>1. f[k - 1] = s[k - 1] /\ s[k - 1] \in Node /\ f[k] = s[k]
      BY <2>0, <2>2, <1>0 DEF Node
    <3>2. mem[s[k - 1]].next = s[k]
      <4>1. k - 1 \in 1..Len(s) /\ (k - 1) + 1 = k
        BY <2>0, <2>2, <1>0
      <4> QED BY <4>1, <1>b, <2>2
    <3> QED BY <3>1, <3>2, <2>2 DEF Follow, Pointer
  <2>3. CASE k > 1 /\ k = Len(s) + 1
    <3>1. f[k - 1] = s[k - 1] /\ s[k - 1] \in Node /\ f[k] = Null
      BY <2>0, <2>3, <1>0 DEF Node
    <3>2. mem[s[k - 1]].next = Null
      <4>1. k - 1 \in 1..Len(s) /\ (k - 1) + 1 = k
        BY <2>0, <2>3, <1>0
      <4> QED BY <4>1, <1>b, <2>3
    <3> QED BY <3>1, <3>2, <2>3 DEF Follow, Pointer
  <2>4. CASE k > 1 /\ k > Len(s) + 1
    <3>1. f[k - 1] = Null /\ f[k] = Null
      BY <2>0, <2>4, <1>0 DEF Node
    <3> QED BY <3>1, <2>4 DEF Follow, Pointer
  <2> QED BY <2>0, <2>1, <2>2, <2>3, <2>4, <1>0
<1>2. WalkIn(mem, n) = f
  BY <1>1, WalkUnique
<1>3. {j \in Node : f[j] # Null} = 1..Len(s)
  BY <1>0 DEF Node
<1>4. ChainIn(mem, n) = [k \in 1..Len(s) |-> s[k]]
  BY <1>2, <1>3, <1>0 DEF ChainIn, Node
<1> QED BY <1>4, <1>0

\* The part of a path from its place i on is a path.
LEMMA RestOfPath ==
  ASSUME NEW mem, NEW n, NEW s, Path(s, mem, n), NEW i \in 1..Len(s)
  PROVE  Path(SubSeq(s, i, Len(s)), mem, s[i])
<1> USE ParallelListAssumption
<1>0. s \in Seq(Node) /\ Len(s) \in Nat /\ Len(s) <= MaxNodes
  BY DEF Path
<1>1. \A k \in 1..Len(s) : mem[s[k]].next = IF k = Len(s) THEN Null ELSE s[k + 1]
  BY DEF Path
<1> DEFINE r == SubSeq(s, i, Len(s))
<1>2. /\ r \in Seq(Node) /\ Len(r) = Len(s) - i + 1
      /\ \A k \in 1..Len(r) : r[k] = s[i + k - 1]
  BY <1>0
<1> HIDE DEF r
<1>3. ASSUME NEW k \in 1..Len(r)
      PROVE  mem[r[k]].next = IF k = Len(r) THEN Null ELSE r[k + 1]
  <2>1. i + k - 1 \in 1..Len(s) /\ (i + k - 1 = Len(s) <=> k = Len(r))
    BY <1>0, <1>2
  <2>2. ASSUME k # Len(r) PROVE r[k + 1] = s[(i + k - 1) + 1]
    <3>a. Len(r) \in Nat
      BY <1>2
    <3>b. k \in Nat /\ 1 <= k /\ k <= Len(r)
      BY <3>a
    <3>c. i \in Nat
      BY <1>0
    <3>0. k < Len(r)
      BY <3>a, <3>b, <2>2
    <3>1. k + 1 \in 1..Len(r) /\ i + (k + 1) - 1 = (i + k - 1) + 1
      BY <3>0, <3>a, <3>b, <3>c
    <3>2. r[k + 1] = s[i + (k + 1) - 1]
      BY <3>1, <1>2
    <3> QED BY <3>1, <3>2
  <2> QED BY <2>1, <2>2, <1>1, <1>2
<1>4. r[1] = s[i] /\ Len(r) # 0 /\ Len(r) <= MaxNodes
  BY <1>0, <1>2
<1> QED BY <1>2, <1>3, <1>4 DEF Path, r

\* A sequence without repetitions is not longer than there are nodes.
LEMMA InjectiveLen ==
  ASSUME NEW s \in Seq(Node), \A i, j \in 1..Len(s) : s[i] = s[j] => i = j
  PROVE  Len(s) <= MaxNodes
<1>1. s \in Injection(1..Len(s), Node)
  BY DEF Injection, IsInjective
<1>2. IsFiniteSet(Node) /\ Cardinality(Node) = MaxNodes
  BY FS_Interval, ParallelListAssumption DEF Node
<1>3. Cardinality(1..Len(s)) <= Cardinality(Node)
  BY <1>1, <1>2, FS_Injection
<1>4. Cardinality(1..Len(s)) = Len(s)
  BY FS_Interval
<1> QED BY <1>2, <1>3, <1>4

\* The numbers in a set, in their order.
Enumerates(e, m, K) ==
  /\ e \in [1..m -> K]
  /\ \A i, j \in 1..m : i < j => e[i] < e[j]
  /\ \A k \in K : \E i \in 1..m : e[i] = k

LEMMA EnumerationExists ==
  ASSUME NEW L \in Nat, NEW K \in SUBSET (1..L)
  PROVE  \E m \in Nat : \E e : Enumerates(e, m, K)
<1> DEFINE Part(n) == K \cap (1..n)
           Done(n) == \E m \in Nat : \E e : Enumerates(e, m, Part(n))
           Bad == {n \in 0..L : ~Done(n)}
<1>1. Done(0)
  <2> DEFINE e == [i \in 1..0 |-> 0]
  <2>1. Enumerates(e, 0, Part(0))
    BY DEF Enumerates
  <2> HIDE DEF e, Part
  <2> QED BY <2>1
<1>2. ASSUME NEW n \in 1..L, Done(n - 1) PROVE Done(n)
  <2>1. PICK m \in Nat : \E e : Enumerates(e, m, Part(n - 1))
    BY <1>2
  <2>2. PICK e : Enumerates(e, m, Part(n - 1))
    BY <2>1
  <2>3. CASE n \notin K
    <3>1. Part(n) = Part(n - 1)
      BY <2>3
    <3> HIDE DEF Part
    <3> QED BY <2>2, <3>1
  <2>4. CASE n \in K
    <3>1. Part(n) = Part(n - 1) \cup {n}
      BY <2>4
    <3>2. \A k \in Part(n - 1) : k < n /\ k \in Nat
      OBVIOUS
    <3> HIDE DEF Part
    <3> DEFINE g == [i \in 1..(m + 1) |-> IF i <= m THEN e[i] ELSE n]
    <3>3. g \in [1..(m + 1) -> Part(n)]
      BY <2>2, <3>1 DEF Enumerates
    <3>4. \A i, j \in 1..(m + 1) : i < j => g[i] < g[j]
      <4> TAKE i, j \in 1..(m + 1)
      <4>1. CASE i < j /\ j <= m
        BY <4>1, <2>2 DEF Enumerates
      <4>2. CASE i < j /\ j = m + 1
        <5>1. i \in 1..m
          BY <4>2
        <5> QED BY <5>1, <4>2, <2>2, <3>2 DEF Enumerates
      <4> QED BY <4>1, <4>2
    <3>5. \A k \in Part(n) : \E i \in 1..(m + 1) : g[i] = k
      <4> TAKE k \in Part(n)
      <4>1. CASE k = n
        <5>1. g[m + 1] = n
          OBVIOUS
        <5> QED BY <5>1, <4>1
      <4>2. CASE k \in Part(n - 1)
        <5>1. PICK i \in 1..m : e[i] = k
          BY <4>2, <2>2 DEF Enumerates
        <5>2. g[i] = k /\ i \in 1..(m + 1)
          BY <5>1
        <5> QED BY <5>2
      <4> QED BY <4>1, <4>2, <3>1
    <3> HIDE DEF g
    <3>6. Enumerates(g, m + 1, Part(n))
      BY <3>3, <3>4, <3>5 DEF Enumerates
    <3> QED BY <3>6
  <2> QED BY <2>3, <2>4
<1>3. Done(L)
  <2> HIDE DEF Done
  <2> SUFFICES ASSUME Bad # {} PROVE FALSE
    OBVIOUS
  <2> DEFINE n == Min(Bad)
  <2>1. n \in Bad /\ \A k \in Bad : n <= k
    BY MinExists
  <2> HIDE DEF n
  <2>2. n \in 1..L /\ n - 1 \in 0..L
    BY <2>1, <1>1
  <2>3. Done(n - 1)
    BY <2>1, <2>2
  <2> QED BY <2>1, <2>2, <2>3, <1>2
<1>4. Part(L) = K
  OBVIOUS
<1> QED BY <1>3, <1>4

-----------------------------------------------------------------------------
(* The list: s holds its nodes in their order.  These operators take the   *)
(* memory as a parameter, for they are about two states of it.             *)

Injective(s) == \A i, j \in 1..Len(s) : s[i] = s[j] => i = j

Linked(s, mem, used, head, tail) ==
  /\ Path(s, mem, head) /\ Injective(s)
  /\ tail = IF Len(s) = 0 THEN Null ELSE s[Len(s)]
  /\ \A k \in 1..Len(s) : mem[s[k]].prev = IF k = 1 THEN Null ELSE s[k - 1]
  /\ used = {s[k] : k \in 1..Len(s)}

Leads(mem, n) == mem[n].first = n

Sections(s, mem, highest) ==
  /\ \A k \in 1..Len(s) : mem[s[k]].index \in 1..highest
  /\ \A k \in 1..Len(s) : \E j \in 1..k :
        /\ Leads(mem, s[j]) /\ mem[s[k]].first = s[j]
        /\ mem[s[j]].index = mem[s[k]].index /\ mem[s[j]].tag = mem[s[k]].tag
  /\ \A i, j \in 1..Len(s) :
        i < j /\ Leads(mem, s[i]) /\ Leads(mem, s[j]) => mem[s[i]].index < mem[s[j]].index
  /\ \A k \in 1..Len(s) : Leads(mem, s[k]) =>
        \E j \in k..Len(s) : mem[s[j]].index = mem[s[k]].index /\ mem[s[j]].last

Listing(mem, used, head, tail, highest) ==
  \E s : Linked(s, mem, used, head, tail) /\ Sections(s, mem, highest)

\* What Link makes of the memory.
Extended(mem, x, tail, tag, data, index, first, ends) ==
  [n \in Node |->
     IF n = x
     THEN [prev |-> tail, next |-> Null, index |-> index, tag |-> tag,
           first |-> IF first = Null THEN n ELSE first, data |-> data, last |-> TRUE]
     ELSE [mem[n] EXCEPT !.next = IF n = tail THEN x ELSE @,
                         !.last = @ /\ n \notin ends]]

ExtendsAs(mem2, mem, x, tail, tag, data, index, first, ends) ==
  /\ mem2[x].prev = tail /\ mem2[x].next = Null /\ mem2[x].index = index
  /\ mem2[x].tag = tag /\ mem2[x].data = data /\ mem2[x].last = TRUE
  /\ mem2[x].first = IF first = Null THEN x ELSE first
  /\ \A n \in Node \ {x} :
        /\ mem2[n].prev = mem[n].prev
        /\ mem2[n].next = IF n = tail THEN x ELSE mem[n].next
        /\ mem2[n].index = mem[n].index /\ mem2[n].tag = mem[n].tag
        /\ mem2[n].first = mem[n].first /\ mem2[n].data = mem[n].data
        /\ mem2[n].last = (mem[n].last /\ n \notin ends)

LEMMA ExtendedFields ==
  ASSUME NEW mem \in [Node -> Memory], NEW x \in Node, NEW tail, NEW tag, NEW data,
         NEW index, NEW first, NEW ends
  PROVE  ExtendsAs(Extended(mem, x, tail, tag, data, index, first, ends),
                   mem, x, tail, tag, data, index, first, ends)
BY DEF Extended, ExtendsAs, Memory

LEMMA LinkKeepsLinked ==
  ASSUME NEW mem \in [Node -> Memory], NEW s, NEW used, NEW head, NEW tail,
         Linked(s, mem, used, head, tail),
         NEW x \in Node \ used, NEW tag, NEW data, NEW index, NEW first, NEW ends,
         NEW mem2, ExtendsAs(mem2, mem, x, tail, tag, data, index, first, ends)
  PROVE  Linked(Append(s, x), mem2, used \cup {x}, IF tail = Null THEN x ELSE head, x)
<1> USE ParallelListAssumption
<1> DEFINE t == Append(s, x)
<1>0. /\ s \in Seq(Node) /\ Len(s) \in Nat /\ Len(s) <= MaxNodes
      /\ \A k \in 1..Len(s) : s[k] \in Node /\ s[k] # x
  <2>1. s \in Seq(Node) /\ Len(s) \in Nat /\ Len(s) <= MaxNodes
    BY DEF Linked, Path
  <2>2. used = {s[k] : k \in 1..Len(s)}
    BY DEF Linked
  <2> QED BY <2>1, <2>2
<1>1. /\ t \in Seq(Node) /\ Len(t) = Len(s) + 1
      /\ t[Len(s) + 1] = x /\ \A k \in 1..Len(s) : t[k] = s[k]
  BY <1>0
<1> HIDE DEF t
<1>2. Injective(t)
  <2> SUFFICES ASSUME NEW i \in 1..Len(t), NEW j \in 1..Len(t), t[i] = t[j] PROVE i = j
    BY DEF Injective
  <2>1. Injective(s)
    BY DEF Linked
  <2>2. CASE i \in 1..Len(s) /\ j \in 1..Len(s)
    BY <2>1, <2>2, <1>1 DEF Injective
  <2>3. CASE i = Len(s) + 1 /\ j \in 1..Len(s)
    BY <2>3, <1>0, <1>1
  <2>4. CASE i \in 1..Len(s) /\ j = Len(s) + 1
    BY <2>4, <1>0, <1>1
  <2>5. CASE i = Len(s) + 1 /\ j = Len(s) + 1
    BY <2>5
  <2> QED BY <2>2, <2>3, <2>4, <2>5, <1>0, <1>1
<1>3. Len(t) <= MaxNodes
  BY <1>1, <1>2, InjectiveLen DEF Injective
<1>4. tail = IF Len(s) = 0 THEN Null ELSE s[Len(s)]
  BY DEF Linked
<1>5. (IF tail = Null THEN x ELSE head) = IF Len(t) = 0 THEN Null ELSE t[1]
  <2>1. head = IF Len(s) = 0 THEN Null ELSE s[1]
    BY DEF Linked, Path
  <2>2. CASE Len(s) = 0
    BY <2>2, <1>1, <1>4
  <2>3. CASE Len(s) # 0
    <3>1. s[Len(s)] \in Node /\ tail = s[Len(s)] /\ head = s[1] /\ t[1] = s[1]
      BY <2>1, <2>3, <1>0, <1>1, <1>4
    <3>2. tail # Null
      BY <3>1
    <3> QED BY <3>1, <3>2, <1>0, <1>1
  <2> QED BY <2>2, <2>3
<1>6. ASSUME NEW k \in 1..Len(t)
      PROVE  mem2[t[k]].next = IF k = Len(t) THEN Null ELSE t[k + 1]
  <2>1. CASE k = Len(s) + 1
    BY <2>1, <1>1 DEF ExtendsAs
  <2>2. CASE k = Len(s) /\ k \in 1..Len(s)
    <3>1. tail = s[k] /\ s[k] # x /\ s[k] \in Node /\ t[k] = s[k] /\ t[k + 1] = x /\ k # Len(t)
      BY <2>2, <1>0, <1>1, <1>4
    <3>2. mem2[s[k]].next = x
      BY <3>1 DEF ExtendsAs
    <3> QED BY <3>1, <3>2
  <2>3. CASE k \in 1..Len(s) /\ k # Len(s)
    <3>1. /\ s[k] # x /\ s[k] \in Node /\ t[k] = s[k] /\ t[k + 1] = s[k + 1]
          /\ k # Len(t) /\ s[k] # tail
      <4>1. k + 1 \in 1..Len(s) /\ Len(s) \in 1..Len(s)
        BY <2>3, <1>0
      <4>2. Injective(s)
        BY DEF Linked
      <4>3. s[k] # s[Len(s)]
        BY <4>1, <4>2, <2>3 DEF Injective
      <4> QED BY <4>1, <4>3, <2>3, <1>0, <1>1, <1>4
    <3>2. mem2[s[k]].next = mem[s[k]].next
      BY <3>1 DEF ExtendsAs
    <3>3. mem[s[k]].next = s[k + 1]
      BY <2>3 DEF Linked, Path
    <3> QED BY <3>1, <3>2, <3>3
  <2> QED BY <2>1, <2>2, <2>3, <1>0, <1>1
<1>7. ASSUME NEW k \in 1..Len(t)
      PROVE  mem2[t[k]].prev = IF k = 1 THEN Null ELSE t[k - 1]
  <2>1. CASE k = Len(s) + 1
    <3>1. mem2[t[k]].prev = tail
      BY <2>1, <1>1 DEF ExtendsAs
    <3>2. CASE Len(s) = 0
      BY <3>1, <3>2, <2>1, <1>4
    <3>3. CASE Len(s) # 0
      <4>1. t[k - 1] = s[Len(s)] /\ k # 1
        BY <3>3, <2>1, <1>0, <1>1
      <4> QED BY <3>1, <3>3, <4>1, <1>4
    <3> QED BY <3>2, <3>3
  <2>2. CASE k \in 1..Len(s)
    <3>1. s[k] # x /\ s[k] \in Node /\ t[k] = s[k] /\ (k # 1 => t[k - 1] = s[k - 1])
      BY <2>2, <1>0, <1>1
    <3>2. mem2[s[k]].prev = mem[s[k]].prev
      BY <3>1 DEF ExtendsAs
    <3>3. mem[s[k]].prev = IF k = 1 THEN Null ELSE s[k - 1]
      BY <2>2 DEF Linked
    <3> QED BY <3>1, <3>2, <3>3
  <2> QED BY <2>1, <2>2, <1>0, <1>1
<1>8. used \cup {x} = {t[k] : k \in 1..Len(t)}
  <2>1. used = {s[k] : k \in 1..Len(s)}
    BY DEF Linked
  <2>2. ASSUME NEW n \in used \cup {x} PROVE n \in {t[k] : k \in 1..Len(t)}
    <3>1. CASE n = x
      BY <3>1, <1>0, <1>1
    <3>2. CASE n \in used
      <4>1. PICK k \in 1..Len(s) : n = s[k]
        BY <3>2, <2>1
      <4> QED BY <4>1, <1>0, <1>1
    <3> QED BY <3>1, <3>2
  <2>3. ASSUME NEW k \in 1..Len(t) PROVE t[k] \in used \cup {x}
    <3>1. CASE k = Len(s) + 1
      BY <3>1, <1>1
    <3>2. CASE k \in 1..Len(s)
      BY <3>2, <1>1, <2>1
    <3> QED BY <3>1, <3>2, <1>0, <1>1
  <2> QED BY <2>2, <2>3
<1>9. x = IF Len(t) = 0 THEN Null ELSE t[Len(t)]
  BY <1>0, <1>1
<1> QED BY <1>1, <1>2, <1>3, <1>5, <1>6, <1>7, <1>8, <1>9 DEF Linked, Path, t

\* A node is added to a section of its own, or to that of a node first; the
\* nodes that lose their mark are in the section.
LEMMA LinkKeepsSections ==
  ASSUME NEW mem \in [Node -> Memory], NEW s, NEW used, NEW head, NEW tail,
         Linked(s, mem, used, head, tail),
         NEW x \in Node \ used, NEW tag, NEW data, NEW index, NEW first, NEW ends,
         NEW mem2, ExtendsAs(mem2, mem, x, tail, tag, data, index, first, ends),
         NEW highest \in Nat, NEW highest2 \in Nat, Sections(s, mem, highest),
         \/ first = Null /\ ends = {} /\ index = highest + 1 /\ highest2 = highest + 1
         \/ /\ first \in used /\ Leads(mem, first) /\ mem[first].index = index
            /\ mem[first].tag = tag /\ highest2 = highest
            /\ \A n \in ends : mem[n].index = index
  PROVE  Sections(Append(s, x), mem2, highest2)
<1> USE ParallelListAssumption
<1> DEFINE t == Append(s, x)
<1>0. /\ s \in Seq(Node) /\ Len(s) \in Nat
      /\ \A k \in 1..Len(s) : s[k] \in Node /\ s[k] # x /\ s[k] \in used
      /\ \A n \in used : n \in Node /\ \E k \in 1..Len(s) : n = s[k]
  <2>1. s \in Seq(Node) /\ Len(s) \in Nat
    BY DEF Linked, Path
  <2>2. used = {s[k] : k \in 1..Len(s)}
    BY DEF Linked
  <2> QED BY <2>1, <2>2
<1>1. /\ Len(t) = Len(s) + 1
      /\ t[Len(s) + 1] = x /\ \A k \in 1..Len(s) : t[k] = s[k]
  BY <1>0
<1> HIDE DEF t
<1>2. ASSUME NEW k \in 1..Len(t)
      PROVE  k = Len(s) + 1 \/ k \in 1..Len(s)
  BY <1>0, <1>1
<1>3. ASSUME NEW k \in 1..Len(s)
      PROVE  /\ t[k] = s[k] /\ mem2[t[k]].index = mem[s[k]].index
             /\ mem2[t[k]].tag = mem[s[k]].tag /\ mem2[t[k]].first = mem[s[k]].first
             /\ mem2[t[k]].last = (mem[s[k]].last /\ s[k] \notin ends)
             /\ Leads(mem2, t[k]) <=> Leads(mem, s[k])
  BY <1>0, <1>1 DEF ExtendsAs, Leads
<1>4. /\ mem2[x].index = index /\ mem2[x].tag = tag /\ mem2[x].last = TRUE
      /\ mem2[x].first = IF first = Null THEN x ELSE first
  BY DEF ExtendsAs
<1>5. \A k \in 1..Len(s) : mem[s[k]].index \in 1..highest
  BY DEF Sections
<1>6. index \in 1..highest2 /\ highest <= highest2
  BY <1>0, <1>5
<1>7. ASSUME NEW k \in 1..Len(t) PROVE mem2[t[k]].index \in 1..highest2
  <2>1. CASE k = Len(s) + 1
    BY <2>1, <1>1, <1>4, <1>6
  <2>2. CASE k \in 1..Len(s)
    <3>1. mem[s[k]].index \in 1..highest
      BY <2>2, <1>5
    <3> QED BY <3>1, <2>2, <1>3, <1>6
  <2> QED BY <2>1, <2>2, <1>2
<1>8. ASSUME NEW k \in 1..Len(t)
      PROVE  \E j \in 1..k :
                /\ Leads(mem2, t[j]) /\ mem2[t[k]].first = t[j]
                /\ mem2[t[j]].index = mem2[t[k]].index /\ mem2[t[j]].tag = mem2[t[k]].tag
  <2>1. CASE k \in 1..Len(s)
    <3>1. PICK j \in 1..k :
             /\ Leads(mem, s[j]) /\ mem[s[k]].first = s[j]
             /\ mem[s[j]].index = mem[s[k]].index /\ mem[s[j]].tag = mem[s[k]].tag
      BY <2>1 DEF Sections
    <3>2. j \in 1..Len(s)
      BY <2>1, <1>0
    <3> QED BY <3>1, <3>2, <2>1, <1>3
  <2>2. CASE k = Len(s) + 1 /\ first = Null
    <3>1. Leads(mem2, x) /\ t[k] = x /\ k \in 1..k
      BY <2>2, <1>0, <1>1, <1>4 DEF Leads
    <3> QED BY <3>1 DEF Leads
  <2>3. CASE k = Len(s) + 1 /\ first # Null
    <3>1. PICK j \in 1..Len(s) : first = s[j]
      BY <2>3, <1>0
    <3>2. j \in 1..k /\ t[k] = x
      BY <2>3, <1>0, <1>1
    <3>3. Leads(mem, s[j]) /\ mem[s[j]].index = index /\ mem[s[j]].tag = tag
      BY <2>3, <3>1
    <3> QED BY <3>1, <3>2, <3>3, <2>3, <1>3, <1>4
  <2> QED BY <2>1, <2>2, <2>3, <1>2
<1>9. ASSUME NEW i \in 1..Len(t), NEW j \in 1..Len(t), i < j,
             Leads(mem2, t[i]), Leads(mem2, t[j])
      PROVE  mem2[t[i]].index < mem2[t[j]].index
  <2>1. CASE j \in 1..Len(s)
    <3>1. i \in 1..Len(s)
      BY <2>1, <1>9, <1>0, <1>1
    <3>2. mem[s[i]].index < mem[s[j]].index
      BY <2>1, <3>1, <1>9, <1>3 DEF Sections
    <3> QED BY <2>1, <3>1, <3>2, <1>3
  <2>2. CASE j = Len(s) + 1
    <3>1. i \in 1..Len(s) /\ t[j] = x
      BY <2>2, <1>9, <1>0, <1>1
    <3>2. first = Null
      <4>1. mem2[x].first = x
        BY <3>1, <1>9 DEF Leads
      <4> QED BY <4>1, <1>4
    <3>3. first \notin used
      BY <3>2, <1>0 DEF Node
    <3>4. mem[s[i]].index \in 1..highest /\ index = highest + 1
      BY <3>1, <3>3, <1>5
    <3> QED BY <3>1, <3>4, <1>3, <1>4
  <2> QED BY <2>1, <2>2, <1>2
<1>10. ASSUME NEW k \in 1..Len(t), Leads(mem2, t[k])
       PROVE  \E j \in k..Len(t) : mem2[t[j]].index = mem2[t[k]].index /\ mem2[t[j]].last
  <2>0. Len(t) \in k..Len(t) /\ t[Len(t)] = x
    BY <1>0, <1>1
  <2>1. CASE k = Len(s) + 1
    BY <2>0, <2>1, <1>1, <1>4
  <2>2. CASE k \in 1..Len(s)
    <3>1. Leads(mem, s[k])
      BY <2>2, <1>3, <1>10
    <3>2. PICK j \in k..Len(s) : mem[s[j]].index = mem[s[k]].index /\ mem[s[j]].last
      BY <2>2, <3>1 DEF Sections
    <3>3. j \in 1..Len(s) /\ j \in k..Len(t)
      BY <2>2, <1>0, <1>1
    <3>4. CASE s[j] \in ends
      <4>1. mem[s[j]].index = index
        BY <3>4
      <4> QED BY <4>1, <2>0, <2>2, <3>2, <1>3, <1>4
    <3>5. CASE s[j] \notin ends
      BY <3>2, <3>3, <3>5, <2>2, <1>3
    <3> QED BY <3>4, <3>5
  <2> QED BY <2>1, <2>2, <1>2
<1> HIDE DEF Leads
<1> QED BY <1>7, <1>8, <1>9, <1>10 DEF Sections, t

LEMMA ChainOfListing ==
  ASSUME NEW mem, NEW s, NEW used, NEW head, NEW tail, Linked(s, mem, used, head, tail)
  PROVE  /\ s \in Seq(Node) /\ ChainIn(mem, head) = s /\ ToSet(ChainIn(mem, head)) = used
         /\ head = Null <=> used = {}
         /\ tail = Null <=> used = {}
<1>0. Path(s, mem, head)
  BY DEF Linked
<1>1. s \in Seq(Node) /\ ChainIn(mem, head) = s
  BY <1>0, ChainOfPath DEF Path
<1>2. used = {s[k] : k \in 1..Len(s)}
  BY DEF Linked
<1>3. ToSet(s) = used
  BY <1>1, <1>2 DEF ToSet
<1>4. CASE Len(s) = 0
  <2>1. used = {} /\ head = Null /\ tail = Null
    BY <1>2, <1>4 DEF Linked, Path
  <2> QED BY <2>1, <1>1, <1>3
<1>5. CASE Len(s) # 0
  <2>1. 1 \in 1..Len(s) /\ Len(s) \in 1..Len(s)
    BY <1>1, <1>5
  <2>2. head = s[1] /\ tail = s[Len(s)]
    BY <1>5 DEF Linked, Path
  <2>3. s[1] \in Node /\ s[Len(s)] \in Node /\ s[1] \in used
    BY <1>1, <1>2, <2>1
  <2>4. head # Null /\ tail # Null /\ used # {}
    BY <2>2, <2>3, ParallelListAssumption
  <2> QED BY <2>4, <1>1, <1>3
<1> QED BY <1>4, <1>5

\* The section of a first node has an end, and a walk from there on meets it.
LEMMA SectionHasEnd ==
  ASSUME NEW mem, NEW s, NEW used, NEW head, NEW tail, NEW highest, NEW first \in used,
         Linked(s, mem, used, head, tail), Sections(s, mem, highest), Leads(mem, first)
  PROVE  \E n \in ToSet(ChainIn(mem, first)) : mem[n].index = mem[first].index /\ mem[n].last
<1>1. s \in Seq(Node) /\ Len(s) \in Nat
  BY DEF Linked, Path
<1>2. PICK i \in 1..Len(s) : first = s[i]
  BY DEF Linked
<1>3. PICK j \in i..Len(s) : mem[s[j]].index = mem[s[i]].index /\ mem[s[j]].last
  BY <1>2 DEF Sections
<1> DEFINE r == SubSeq(s, i, Len(s))
<1>4. Path(r, mem, first)
  BY <1>2, RestOfPath DEF Linked
<1>5. ChainIn(mem, first) = r
  BY <1>4, ChainOfPath
<1>6. j - i + 1 \in 1..Len(r) /\ r[j - i + 1] = s[j]
  <2>1. j \in Nat /\ i \in Nat /\ i <= j /\ j <= Len(s) /\ 1 <= i
    BY <1>1
  <2>2. Len(r) = Len(s) - i + 1 /\ \A k \in 1..Len(r) : r[k] = s[i + k - 1]
    BY <1>1
  <2> HIDE DEF r
  <2>3. j - i + 1 \in 1..Len(r) /\ i + (j - i + 1) - 1 = j
    BY <2>1, <2>2, <1>1
  <2>4. r[j - i + 1] = s[i + (j - i + 1) - 1]
    BY <2>2, <2>3
  <2> QED BY <2>3, <2>4
<1>7. r \in Seq(Node)
  BY <1>4 DEF Path
<1> HIDE DEF r
<1>8. s[j] \in ToSet(r)
  BY <1>6, <1>7 DEF ToSet
<1> QED BY <1>2, <1>3, <1>5, <1>8

\* The nodes of a list keep what the rules and the sections need of them.
Kept(mem, mem2, used) ==
  \A n \in used : mem2[n].tag = mem[n].tag /\ mem2[n].data = mem[n].data
                  /\ mem2[n].first = mem[n].first

LEMMA FreshIsFree ==
  ASSUME ListTypeOK, pool # Node
  PROVE  Fresh \in Node \ pool
<1>1. Node \ pool \in SUBSET Nat
  BY DEF Node
<1>2. Node \ pool # {}
  BY DEF ListTypeOK
<1> QED BY <1>1, <1>2, MinExists DEF Fresh

LEMMA LinkStep ==
  ASSUME ListTypeOK, NEW tag \in Tag, NEW data \in Contents, NEW index \in Nat,
         NEW first \in Pointer, NEW ends, Link(tag, data, index, first, ends)
  PROVE  /\ Fresh \in Node \ pool /\ pool' = pool \cup {Fresh} /\ current' = Fresh
         /\ start' = IF current = Null THEN Fresh ELSE start
         /\ ExtendsAs(node', node, Fresh, current, tag, data, index, first, ends)
         /\ node' \in [Node -> Memory]
<1>1. Fresh \in Node \ pool
  BY FreshIsFree DEF Link
<1>2. node \in [Node -> Memory] /\ current \in Pointer
  BY DEF ListTypeOK
<1> DEFINE x == Fresh
<1> HIDE DEF x
<1>3. node' = Extended(node, x, current, tag, data, index, first, ends)
  BY DEF Link, Extended, x
<1>4. ExtendsAs(node', node, x, current, tag, data, index, first, ends)
  BY <1>1, <1>2, <1>3, ExtendedFields DEF x
<1>5. node' \in [Node -> Memory]
  <2> SUFFICES ASSUME NEW n \in Node
               PROVE  Extended(node, x, current, tag, data, index, first, ends)[n] \in Memory
    BY <1>3 DEF Extended
  <2>1. x \in Pointer
    BY <1>1 DEF x, Pointer
  <2>2. CASE n = x
    BY <1>2, <2>1, <2>2 DEF Extended, Memory, Pointer
  <2>3. CASE n # x
    <3>1. node[n] \in Memory
      BY <1>2
    <3> QED BY <3>1, <2>1, <2>3 DEF Extended, Memory
  <2> QED BY <2>2, <2>3
<1> QED BY <1>1, <1>4, <1>5 DEF Link, x

LEMMA LinkFailsStep ==
  ASSUME ListTypeOK, NEW ends, LinkFails(ends)
  PROVE  /\ node' \in [Node -> Memory] /\ pool' = pool
         /\ start' \in Pointer /\ current' \in Pointer
         /\ \A n \in Node : node'[n].tag = node[n].tag /\ node'[n].data = node[n].data
<1>1. node \in [Node -> Memory] /\ start \in Pointer
  BY DEF ListTypeOK
<1>2. node' = [n \in Node |-> [node[n] EXCEPT !.last = @ /\ n \notin ends]]
  BY DEF LinkFails
<1>3. ASSUME NEW n \in Node
      PROVE  /\ node'[n] \in Memory
             /\ node'[n].tag = node[n].tag /\ node'[n].data = node[n].data
  <2>1. node[n] \in Memory
    BY <1>1
  <2> QED BY <2>1, <1>2 DEF Memory
<1> QED BY <1>1, <1>2, <1>3 DEF LinkFails, Pointer

ListInv == Listing(node, pool, start, current, section)

\* What is said of action rules is a rule.
RulesIn(mem) == \A n \in Node : mem[n].tag = "Actn" => mem[n].data \in Rule

\* A node is added at the end.
Grows(tag, data) ==
  /\ current' \in Node \ pool /\ pool' = pool \cup {current'}
  /\ node'[current'].tag = tag /\ node'[current'].data = data
  /\ Kept(node, node', pool)

LEMMA LinkType ==
  ASSUME ListTypeOK, RulesIn(node), NEW tag \in Tag, NEW data \in Contents, NEW index \in Nat,
         NEW first \in Pointer, NEW ends, tag = "Actn" => data \in Rule, UNCHANGED reused,
         section' \in Nat,
         Link(tag, data, index, first, ends) \/ LinkFails(ends)
  PROVE  ListTypeOK' /\ RulesIn(node')
<1>1. CASE Link(tag, data, index, first, ends)
  <2>1. /\ Fresh \in Node \ pool /\ pool' = pool \cup {Fresh} /\ current' = Fresh
        /\ start' = IF current = Null THEN Fresh ELSE start
        /\ ExtendsAs(node', node, Fresh, current, tag, data, index, first, ends)
        /\ node' \in [Node -> Memory]
    BY <1>1, LinkStep
  <2>2. ListTypeOK'
    BY <2>1 DEF ListTypeOK, Pointer
  <2>3. RulesIn(node')
    BY <2>1 DEF RulesIn, ExtendsAs
  <2> QED BY <2>2, <2>3
<1>2. CASE LinkFails(ends)
  <2>1. /\ node' \in [Node -> Memory] /\ pool' = pool
        /\ start' \in Pointer /\ current' \in Pointer
        /\ \A n \in Node : node'[n].tag = node[n].tag /\ node'[n].data = node[n].data
    BY <1>2, LinkFailsStep
  <2> QED BY <2>1 DEF ListTypeOK, RulesIn
<1> QED BY <1>1, <1>2

LEMMA NewSectionType ==
  ASSUME ListTypeOK, RulesIn(node), NEW tag \in Tag, NEW data \in Contents,
         NEW short \in BOOLEAN, tag = "Actn" => data \in Rule, UNCHANGED reused,
         NewSection(tag, data, short)
  PROVE  ListTypeOK' /\ RulesIn(node')
<1>1. section' = section + 1 /\ section' \in Nat
  BY DEF NewSection, ListTypeOK
<1>2. Link(tag, data, section', Null, {}) \/ LinkFails({})
  BY DEF NewSection
<1>3. Null \in Pointer
  BY DEF Pointer
<1> QED BY <1>1, <1>2, <1>3, LinkType

LEMMA ToSectionType ==
  ASSUME ListTypeOK, RulesIn(node), NEW tag \in Tag, NEW data \in Contents,
         NEW at1 \in Pointer, at1 # Null,
         NEW short \in BOOLEAN, tag = "Actn" => data \in Rule, UNCHANGED reused,
         ToSection(tag, data, at1, short)
  PROVE  ListTypeOK' /\ RulesIn(node')
<1>1. section' = section /\ section' \in Nat
  BY DEF ToSection, ListTypeOK
<1>2. node[at1].index \in Nat /\ node[at1].first \in Pointer
  BY DEF ListTypeOK, Memory, Pointer
<1>3. \/ Link(tag, data, node[at1].index, Null, {})
      \/ Link(tag, data, node[at1].index, node[at1].first, Ends(at1))
      \/ \E ends : LinkFails(ends)
  BY DEF ToSection
<1>4. Null \in Pointer
  BY DEF Pointer
<1> QED BY <1>1, <1>2, <1>3, <1>4, LinkType

LEMMA NewSectionStep ==
  ASSUME ListTypeOK, ListInv, NEW tag \in Tag, NEW data \in Contents,
         NewSection(tag, data, FALSE)
  PROVE  ListInv' /\ Grows(tag, data) /\ Leads(node', current')
<1>1. section \in Nat /\ node \in [Node -> Memory] /\ pool \subseteq Node
  BY DEF ListTypeOK
<1>2. section' = section + 1 /\ Link(tag, data, section + 1, Null, {})
  BY DEF NewSection
<1>3. /\ Fresh \in Node \ pool /\ pool' = pool \cup {Fresh} /\ current' = Fresh
      /\ start' = IF current = Null THEN Fresh ELSE start
      /\ ExtendsAs(node', node, Fresh, current, tag, data, section + 1, Null, {})
  <2>1. section + 1 \in Nat /\ Null \in Pointer
    BY <1>1 DEF Pointer
  <2> QED BY <2>1, <1>2, LinkStep
<1>4. PICK s : Linked(s, node, pool, start, current) /\ Sections(s, node, section)
  BY DEF ListInv, Listing
<1> DEFINE x == Fresh
<1> HIDE DEF x
<1>5. Linked(Append(s, x), node', pool', start', current')
  <2>1. x \in Node \ pool /\ pool' = pool \cup {x} /\ current' = x
    BY <1>3 DEF x
  <2>2. start' = IF current = Null THEN x ELSE start
    BY <1>3 DEF x
  <2>3. ExtendsAs(node', node, x, current, tag, data, section + 1, Null, {})
    BY <1>3 DEF x
  <2>4. Linked(Append(s, x), node', pool \cup {x}, IF current = Null THEN x ELSE start, x)
    BY <2>1, <2>3, <1>1, <1>4, LinkKeepsLinked
  <2> QED BY <2>1, <2>2, <2>4
<1>6. Sections(Append(s, x), node', section')
  <2>1. section + 1 \in Nat
    BY <1>1
  <2> QED BY <2>1, <1>1, <1>2, <1>3, <1>4, LinkKeepsSections DEF x
<1>7. ListInv'
  BY <1>5, <1>6 DEF ListInv, Listing
<1>8. Grows(tag, data) /\ Leads(node', current')
  BY <1>1, <1>3 DEF Grows, Kept, ExtendsAs, Leads
<1> QED BY <1>7, <1>8

LEMMA ToSectionStep ==
  ASSUME ListTypeOK, ListInv, NEW tag \in Tag, NEW data \in Contents, NEW out \in pool,
         Leads(node, out), node[out].tag = tag,
         ToSection(tag, data, out, FALSE)
  PROVE  ListInv' /\ Grows(tag, data)
<1>1. section \in Nat /\ node \in [Node -> Memory] /\ pool \subseteq Node
  BY DEF ListTypeOK
<1>2. PICK s : Linked(s, node, pool, start, current) /\ Sections(s, node, section)
  BY DEF ListInv, Listing
<1>3. current # Null
  BY <1>2, ChainOfListing
<1>4. node[out].first = out
  BY DEF Leads
<1>5. Ends(out) # {} /\ \A n \in Ends(out) : node[n].index = node[out].index
  <2>1. \E n \in ToSet(ChainIn(node, out)) : node[n].index = node[out].index /\ node[n].last
    BY <1>2, SectionHasEnd
  <2>2. Section(out) = ChainIn(node, out)
    BY <1>4, ChainIsChainIn DEF Section
  <2> QED BY <2>1, <2>2 DEF Ends
<1>6. section' = section /\ Link(tag, data, node[out].index, out, Ends(out))
  BY <1>3, <1>4, <1>5 DEF ToSection
<1>7. /\ Fresh \in Node \ pool /\ pool' = pool \cup {Fresh} /\ current' = Fresh
      /\ start' = IF current = Null THEN Fresh ELSE start
      /\ ExtendsAs(node', node, Fresh, current, tag, data, node[out].index, out, Ends(out))
  <2>1. node[out].index \in Nat /\ out \in Pointer
    BY <1>1 DEF Memory, Pointer
  <2> QED BY <2>1, <1>6, LinkStep
<1> DEFINE x == Fresh
           ends == Ends(out)
           index == node[out].index
<1> HIDE DEF x, ends, index
<1>8. ExtendsAs(node', node, x, current, tag, data, index, out, ends)
  BY <1>7 DEF x, ends, index
<1>9. Linked(Append(s, x), node', pool', start', current')
  <2>1. x \in Node \ pool /\ pool' = pool \cup {x} /\ current' = x
    BY <1>7 DEF x
  <2>2. start' = IF current = Null THEN x ELSE start
    BY <1>7 DEF x
  <2>3. ExtendsAs(node', node, x, current, tag, data, index, out, ends)
    BY <1>8
  <2>4. Linked(Append(s, x), node', pool \cup {x}, IF current = Null THEN x ELSE start, x)
    BY <2>1, <2>3, <1>1, <1>2, LinkKeepsLinked
  <2> QED BY <2>1, <2>2, <2>4
<1>10. Sections(Append(s, x), node', section')
  <2>1. \A n \in ends : node[n].index = index
    BY <1>5 DEF ends, index
  <2>2. node[out].index = index
    BY DEF index
  <2>3. x \in Node \ pool
    BY <1>7 DEF x
  <2> QED BY <2>1, <2>2, <2>3, <1>1, <1>2, <1>6, <1>8, LinkKeepsSections
<1>11. ListInv'
  BY <1>9, <1>10 DEF ListInv, Listing
<1>12. Grows(tag, data)
  BY <1>1, <1>7 DEF Grows, Kept, ExtendsAs
<1> QED BY <1>11, <1>12

-----------------------------------------------------------------------------
(* The nodes of 'Dirs' go.  e enumerates the places in s of those that     *)
(* stay, d is the index of the first that goes.                            *)

Staying(s, mem) == {k \in 1..Len(s) : mem[s[k]].tag # "Dirs"}

Selected(s, e, m) == [i \in 1..m |-> s[e[i]]]

RelinkedAs(mem2, mem, s, e, m, d) ==
  \A i \in 1..m :
     /\ mem2[s[e[i]]].prev = IF i = 1 THEN Null ELSE s[e[i - 1]]
     /\ mem2[s[e[i]]].next = IF i = m THEN Null ELSE s[e[i + 1]]
     /\ mem2[s[e[i]]].index = mem[s[e[i]]].index - (IF mem[s[e[i]]].index > d THEN 1 ELSE 0)
     /\ mem2[s[e[i]]].first = mem[s[e[i]]].first
     /\ mem2[s[e[i]]].tag = mem[s[e[i]]].tag
     /\ mem2[s[e[i]]].last = mem[s[e[i]]].last

LEMMA RemovalKeepsLinked ==
  ASSUME NEW mem, NEW mem2, NEW s, NEW used, NEW head, NEW tail, NEW d,
         Linked(s, mem, used, head, tail),
         NEW m \in Nat, NEW e, Enumerates(e, m, Staying(s, mem)),
         RelinkedAs(mem2, mem, s, e, m, d)
  PROVE  Linked(Selected(s, e, m), mem2, {n \in used : mem[n].tag # "Dirs"},
                IF m = 0 THEN Null ELSE s[e[1]], IF m = 0 THEN Null ELSE s[e[m]])
<1> DEFINE t == Selected(s, e, m)
<1>0. s \in Seq(Node) /\ Len(s) \in Nat /\ Injective(s) /\ used = {s[k] : k \in 1..Len(s)}
  BY DEF Linked, Path
<1>1. /\ \A i \in 1..m : e[i] \in 1..Len(s) /\ mem[s[e[i]]].tag # "Dirs"
      /\ \A i, j \in 1..m : i < j => e[i] < e[j]
      /\ \A k \in 1..Len(s) : mem[s[k]].tag # "Dirs" => \E i \in 1..m : e[i] = k
  BY DEF Enumerates, Staying
<1>2. t \in Seq(Node) /\ Len(t) = m /\ \A i \in 1..m : t[i] = s[e[i]]
  BY <1>0, <1>1 DEF Selected
<1> HIDE DEF t
<1>3. Injective(t)
  <2> SUFFICES ASSUME NEW i \in 1..m, NEW j \in 1..m, t[i] = t[j] PROVE i = j
    BY <1>2 DEF Injective
  <2>1. e[i] = e[j]
    BY <1>0, <1>1, <1>2 DEF Injective
  <2>2. e[i] \in Nat /\ e[j] \in Nat
    BY <1>1
  <2>3. CASE i < j
    <3>1. e[i] < e[j]
      BY <2>3, <1>1
    <3> QED BY <3>1, <2>1, <2>2
  <2>4. CASE j < i
    <3>1. e[j] < e[i]
      BY <2>4, <1>1
    <3> QED BY <3>1, <2>1, <2>2
  <2> QED BY <2>3, <2>4
<1>4. Len(t) <= MaxNodes
  BY <1>2, <1>3, InjectiveLen DEF Injective
<1>5. ASSUME NEW i \in 1..Len(t)
      PROVE  /\ mem2[t[i]].next = IF i = Len(t) THEN Null ELSE t[i + 1]
             /\ mem2[t[i]].prev = IF i = 1 THEN Null ELSE t[i - 1]
  <2>1. /\ mem2[s[e[i]]].prev = IF i = 1 THEN Null ELSE s[e[i - 1]]
        /\ mem2[s[e[i]]].next = IF i = m THEN Null ELSE s[e[i + 1]]
    BY <1>2 DEF RelinkedAs
  <2>2. i # m => i + 1 \in 1..m
    BY <1>2
  <2>3. i # 1 => i - 1 \in 1..m
    BY <1>2
  <2> QED BY <2>1, <2>2, <2>3, <1>2
<1>6. {n \in used : mem[n].tag # "Dirs"} = {t[i] : i \in 1..Len(t)}
  <2>1. ASSUME NEW n \in used, mem[n].tag # "Dirs" PROVE \E i \in 1..Len(t) : n = t[i]
    <3>1. PICK k \in 1..Len(s) : n = s[k]
      BY <1>0
    <3> QED BY <3>1, <2>1, <1>1, <1>2
  <2>2. ASSUME NEW i \in 1..Len(t) PROVE t[i] \in used /\ mem[t[i]].tag # "Dirs"
    <3>1. i \in 1..m /\ t[i] = s[e[i]]
      BY <1>2
    <3>2. e[i] \in 1..Len(s) /\ mem[s[e[i]]].tag # "Dirs"
      BY <3>1, <1>1
    <3> QED BY <3>1, <3>2, <1>0
  <2> QED BY <2>1, <2>2
<1>7. /\ (IF m = 0 THEN Null ELSE s[e[1]]) = IF Len(t) = 0 THEN Null ELSE t[1]
      /\ (IF m = 0 THEN Null ELSE s[e[m]]) = IF Len(t) = 0 THEN Null ELSE t[Len(t)]
  BY <1>2
<1>8. Linked(t, mem2, {n \in used : mem[n].tag # "Dirs"},
             IF m = 0 THEN Null ELSE s[e[1]], IF m = 0 THEN Null ELSE s[e[m]])
  BY <1>2, <1>3, <1>4, <1>5, <1>6, <1>7 DEF Linked, Path
<1> QED BY <1>8 DEF t

\* A first node is the only one with its index.
LEMMA OneFirst ==
  ASSUME NEW mem, NEW s \in Seq(Node), NEW highest \in Nat, Sections(s, mem, highest),
         NEW i \in 1..Len(s), NEW j \in 1..Len(s), Leads(mem, s[i]), Leads(mem, s[j]),
         mem[s[i]].index = mem[s[j]].index
  PROVE  i = j
<1>1. mem[s[i]].index \in Nat /\ mem[s[j]].index \in Nat
  BY DEF Sections
<1>2. CASE i < j
  <2>1. mem[s[i]].index < mem[s[j]].index
    BY <1>2 DEF Sections
  <2> QED BY <2>1, <1>1
<1>3. CASE j < i
  <2>1. mem[s[j]].index < mem[s[i]].index
    BY <1>3 DEF Sections
  <2> QED BY <2>1, <1>1
<1> QED BY <1>2, <1>3

\* The first node of 'Dirs', at place D, begins its section: the nodes with
\* its index are of 'Dirs', and those with a higher one are behind it.
LEMMA FirstOfDirs ==
  ASSUME NEW mem, NEW s \in Seq(Node), NEW highest \in Nat, Sections(s, mem, highest),
         NEW D \in 1..Len(s), mem[s[D]].tag = "Dirs",
         \A k \in 1..Len(s) : k < D => mem[s[k]].tag # "Dirs"
  PROVE  /\ Leads(mem, s[D])
         /\ \A k \in 1..Len(s) : /\ mem[s[k]].index = mem[s[D]].index => mem[s[k]].tag = "Dirs"
                                 /\ mem[s[k]].index > mem[s[D]].index => D < k
<1>0. \A k \in 1..Len(s) : mem[s[k]].index \in Nat
  BY DEF Sections
<1>1. ASSUME NEW k \in 1..Len(s)
      PROVE  \E j \in 1..Len(s) :
                /\ j <= k /\ Leads(mem, s[j]) /\ mem[s[k]].first = s[j]
                /\ mem[s[j]].index = mem[s[k]].index /\ mem[s[j]].tag = mem[s[k]].tag
  <2>1. PICK j \in 1..k :
                /\ Leads(mem, s[j]) /\ mem[s[k]].first = s[j]
                /\ mem[s[j]].index = mem[s[k]].index /\ mem[s[j]].tag = mem[s[k]].tag
    BY DEF Sections
  <2>2. j \in 1..Len(s) /\ j <= k
    OBVIOUS
  <2> QED BY <2>1, <2>2
<1>2. Leads(mem, s[D])
  <2>1. PICK j \in 1..Len(s) : /\ j <= D /\ Leads(mem, s[j]) /\ mem[s[D]].first = s[j]
                               /\ mem[s[j]].tag = mem[s[D]].tag
    BY <1>1
  <2>2. ~(j < D)
    BY <2>1
  <2>3. j = D
    BY <2>1, <2>2
  <2> QED BY <2>1, <2>3
<1>3. ASSUME NEW k \in 1..Len(s), mem[s[k]].index = mem[s[D]].index
      PROVE  mem[s[k]].tag = "Dirs"
  <2>1. PICK j \in 1..Len(s) :
                /\ Leads(mem, s[j])
                /\ mem[s[j]].index = mem[s[k]].index /\ mem[s[j]].tag = mem[s[k]].tag
    BY <1>1
  <2>2. j = D
    BY <2>1, <1>2, <1>3, OneFirst
  <2> QED BY <2>1, <2>2
<1>4. ASSUME NEW k \in 1..Len(s), mem[s[k]].index > mem[s[D]].index
      PROVE  D < k
  <2>1. PICK j \in 1..Len(s) :
                j <= k /\ Leads(mem, s[j]) /\ mem[s[j]].index = mem[s[k]].index
    BY <1>1
  <2>2. ~(j < D)
    <3> SUFFICES ASSUME j < D PROVE FALSE
      OBVIOUS
    <3>1. mem[s[j]].index < mem[s[D]].index
      BY <2>1, <1>2 DEF Sections
    <3> QED BY <3>1, <2>1, <1>4, <1>0
  <2>3. j # D
    BY <2>1, <1>4, <1>0
  <2> QED BY <2>1, <2>2, <2>3
<1> QED BY <1>2, <1>3, <1>4

LEMMA RemovalKeepsSections ==
  ASSUME NEW mem, NEW mem2, NEW s \in Seq(Node), NEW highest \in Nat, NEW highest2 \in Nat,
         Sections(s, mem, highest),
         NEW D \in 1..Len(s), mem[s[D]].tag = "Dirs",
         \A k \in 1..Len(s) : k < D => mem[s[k]].tag # "Dirs",
         NEW m \in Nat, NEW e, Enumerates(e, m, Staying(s, mem)),
         RelinkedAs(mem2, mem, s, e, m, mem[s[D]].index),
         mem[s[D]].index <= highest2,
         \A k \in Staying(s, mem) :
            mem[s[k]].index > mem[s[D]].index => mem[s[k]].index - 1 <= highest2
  PROVE  Sections(Selected(s, e, m), mem2, highest2)
<1> DEFINE t == Selected(s, e, m)
           d == mem[s[D]].index
           less(x) == x - (IF x > d THEN 1 ELSE 0)
<1>0. Len(s) \in Nat
  OBVIOUS
<1>1. /\ \A i \in 1..m : e[i] \in 1..Len(s) /\ mem[s[e[i]]].tag # "Dirs"
                         /\ e[i] \in Staying(s, mem)
      /\ \A i, j \in 1..m : i < j => e[i] < e[j]
      /\ \A k \in 1..Len(s) : mem[s[k]].tag # "Dirs" => \E i \in 1..m : e[i] = k
  BY DEF Enumerates, Staying
<1>2. Len(t) = m /\ \A i \in 1..m : t[i] = s[e[i]]
  <2>1. t \in Seq(Node)
    BY <1>1 DEF Selected
  <2> QED BY <2>1 DEF Selected
<1> HIDE DEF t
<1>3. ASSUME NEW i \in 1..m
      PROVE  /\ mem2[t[i]].index = less(mem[s[e[i]]].index)
             /\ mem2[t[i]].first = mem[s[e[i]]].first /\ mem2[t[i]].tag = mem[s[e[i]]].tag
             /\ mem2[t[i]].last = mem[s[e[i]]].last
             /\ Leads(mem2, t[i]) <=> Leads(mem, s[e[i]])
  BY <1>2 DEF RelinkedAs, Leads
<1>4. ASSUME NEW i \in 1..m, NEW j \in 1..m, e[i] <= e[j] PROVE i <= j
  <2>1. e[i] \in Nat /\ e[j] \in Nat
    BY <1>1
  <2>2. j < i => e[j] < e[i]
    BY <1>1
  <2> QED BY <2>1, <2>2, <1>4
<1>5. d \in 1..highest /\ d \in Nat
  BY DEF Sections
<1>6. ASSUME NEW i \in 1..m
      PROVE  mem[s[e[i]]].index \in 1..highest /\ mem[s[e[i]]].index # d
  <2>1. e[i] \in 1..Len(s) /\ mem[s[e[i]]].tag # "Dirs"
    BY <1>1
  <2>2. mem[s[e[i]]].index # mem[s[D]].index
    BY <2>1, FirstOfDirs
  <2> QED BY <2>1, <2>2 DEF Sections
<1>7. ASSUME NEW i \in 1..m PROVE mem2[t[i]].index \in 1..highest2
  <2> DEFINE x == mem[s[e[i]]].index
  <2>1. x \in 1..highest /\ x # d /\ mem2[t[i]].index = less(x)
    BY <1>6, <1>3
  <2>2. x > d => x - 1 <= highest2
    BY <1>1
  <2>3. d <= highest2
    OBVIOUS
  <2> HIDE DEF x, d
  <2> QED BY <2>1, <2>2, <2>3, <1>5
<1> HIDE DEF less
<1>8. ASSUME NEW i \in 1..m
      PROVE  \E j \in 1..i :
                /\ Leads(mem2, t[j]) /\ mem2[t[i]].first = t[j]
                /\ mem2[t[j]].index = mem2[t[i]].index /\ mem2[t[j]].tag = mem2[t[i]].tag
  <2>0. e[i] \in 1..Len(s) /\ mem[s[e[i]]].tag # "Dirs"
    BY <1>1
  <2>1. PICK k \in 1..e[i] :
                /\ Leads(mem, s[k]) /\ mem[s[e[i]]].first = s[k]
                /\ mem[s[k]].index = mem[s[e[i]]].index /\ mem[s[k]].tag = mem[s[e[i]]].tag
    BY <2>0 DEF Sections
  <2>2. k \in 1..Len(s)
    BY <2>0, <1>0
  <2>3. PICK j \in 1..m : e[j] = k
    BY <2>0, <2>1, <2>2, <1>1
  <2>4. j <= i
    <3>1. e[j] <= e[i]
      BY <2>0, <2>1, <2>3
    <3> QED BY <3>1, <1>4
  <2>5. j \in 1..i
    BY <2>4
  <2> QED BY <2>1, <2>3, <2>5, <1>2, <1>3
<1>9. ASSUME NEW i \in 1..m, NEW j \in 1..m, i < j, Leads(mem2, t[i]), Leads(mem2, t[j])
      PROVE  mem2[t[i]].index < mem2[t[j]].index
  <2> DEFINE x == mem[s[e[i]]].index
             y == mem[s[e[j]]].index
  <2>1. x \in Nat /\ y \in Nat /\ x # d /\ y # d
    BY <1>6
  <2>2. x < y
    <3>1. e[i] \in 1..Len(s) /\ e[j] \in 1..Len(s) /\ e[i] < e[j]
      BY <1>1, <1>9
    <3>2. Leads(mem, s[e[i]]) /\ Leads(mem, s[e[j]])
      BY <1>3, <1>9
    <3> QED BY <3>1, <3>2 DEF Sections
  <2>3. mem2[t[i]].index = less(x) /\ mem2[t[j]].index = less(y)
    BY <1>3
  <2> HIDE DEF x, y, d
  <2> QED BY <2>1, <2>2, <2>3, <1>5 DEF less
<1>10. ASSUME NEW i \in 1..m, Leads(mem2, t[i])
       PROVE  \E j \in i..m : mem2[t[j]].index = mem2[t[i]].index /\ mem2[t[j]].last
  <2>0. e[i] \in 1..Len(s) /\ mem[s[e[i]]].tag # "Dirs" /\ Leads(mem, s[e[i]])
    BY <1>1, <1>3, <1>10
  <2>1. PICK k \in e[i]..Len(s) : mem[s[k]].index = mem[s[e[i]]].index /\ mem[s[k]].last
    BY <2>0 DEF Sections
  <2>2. k \in 1..Len(s) /\ e[i] <= k
    BY <2>0, <1>0
  <2>3. mem[s[k]].tag # "Dirs"
    <3>1. PICK f \in 1..k : /\ Leads(mem, s[f]) /\ mem[s[f]].index = mem[s[k]].index
                            /\ mem[s[f]].tag = mem[s[k]].tag
      BY <2>2 DEF Sections
    <3>2. f \in 1..Len(s)
      BY <2>2
    <3>3. f = e[i]
      BY <3>1, <3>2, <2>0, <2>1, OneFirst
    <3> QED BY <3>1, <3>3, <2>0
  <2>4. PICK j \in 1..m : e[j] = k
    BY <2>2, <2>3, <1>1
  <2>5. i <= j
    BY <2>2, <2>4, <1>4
  <2>6. j \in i..m
    BY <2>5
  <2> QED BY <2>1, <2>4, <2>6, <1>3
<1>11. Sections(t, mem2, highest2)
  BY <1>2, <1>7, <1>8, <1>9, <1>10 DEF Sections
<1> QED BY <1>11 DEF t

LEMMA MinIs ==
  ASSUME NEW S \in SUBSET Nat, NEW x \in S, \A k \in S : x <= k
  PROVE  Min(S) = x
<1>1. Min(S) \in S /\ \A k \in S : Min(S) <= k
  BY MinExists
<1>2. Min(S) <= x /\ x <= Min(S) /\ Min(S) \in Nat /\ x \in Nat
  BY <1>1
<1> QED BY <1>2

LEMMA MaxIs ==
  ASSUME NEW S \in SUBSET Nat, NEW x \in S, \A k \in S : k <= x
  PROVE  Max(S) = x
<1>1. Max(S) \in S /\ \A k \in S : k <= Max(S)
  BY MaxExists
<1>2. Max(S) <= x /\ x <= Max(S) /\ Max(S) \in Nat /\ x \in Nat
  BY <1>1
<1> QED BY <1>2

\* Whatever the list has become, these are nodes and numbers.
LEMMA ChainNodes ==
  ASSUME ListTypeOK
  PROVE  /\ Chain(start) \in Seq(Node)
         /\ DOMAIN Chain(start) = 1..Len(Chain(start)) /\ Len(Chain(start)) \in Nat
         /\ ToSet(Chain(start)) \subseteq Node
         /\ Behind \subseteq Node /\ Doomed \subseteq Node
         /\ Stay \subseteq 1..Len(Chain(start))
<1>1. Chain(start) \in Seq(Node)
  <2>1. node \in [Node -> Memory] /\ start \in Pointer
    BY DEF ListTypeOK
  <2> QED BY <2>1, ChainType, ChainIsChainIn
<1> DEFINE c == Chain(start)
<1>2. /\ c \in Seq(Node) /\ DOMAIN c = 1..Len(c) /\ Len(c) \in Nat
      /\ \A k \in DOMAIN c : c[k] \in Node
  BY <1>1
<1> HIDE DEF c
<1>3. ToSet(c) \subseteq Node
  BY <1>2 DEF ToSet
<1>4. Behind \subseteq Node
  BY <1>2 DEF Behind, c
<1>5. Doomed \subseteq Node
  BY <1>3 DEF Doomed, c
<1>6. Stay \subseteq 1..Len(c)
  BY <1>2 DEF Stay, c
<1> QED BY <1>2, <1>3, <1>4, <1>5, <1>6 DEF c

LEMMA LoweredIndex ==
  ASSUME ListTypeOK, NEW n \in Lowered
  PROVE  n \in Node /\ node[n].index \in Nat /\ node[n].index - 1 \in Nat
<1> DEFINE c == Chain(start)
<1>1. c \in Seq(Node) /\ DOMAIN c = 1..Len(c) /\ Len(c) \in Nat /\ Behind \subseteq Node
  BY ChainNodes
<1>2. \A x \in Node : node[x].index \in Nat
  BY DEF ListTypeOK, Memory
<1>3. n \in Behind /\ node[n].index > node[c[Detected]].index
  BY DEF Lowered
<1>4. PICK j \in DOMAIN c : 0 < Detected /\ Detected < j
  BY <1>3 DEF Behind
<1>5. Detected \in Nat
  <2> DEFINE I == {i \in 1..Len(c) : IsDirs(c[i])}
  <2>1. Detected = IF I # {} THEN Min(I) ELSE 0
    BY DEF Detected, SelectInSeq
  <2>2. I \in SUBSET Nat
    BY <1>1
  <2> HIDE DEF I
  <2>3. I # {} => Min(I) \in Nat
    BY <2>2, MinExists
  <2> QED BY <2>1, <2>3
<1>6. c[Detected] \in Node
  <2> HIDE DEF c
  <2>1. Detected \in 1..Len(c)
    BY <1>1, <1>4, <1>5
  <2> QED BY <2>1, <1>1
<1>7. node[c[Detected]].index \in Nat /\ node[n].index \in Nat /\ n \in Node
  BY <1>1, <1>2, <1>3, <1>6
<1> HIDE DEF c
<1> QED BY <1>3, <1>7

LEMMA HighestBounds ==
  ASSUME ListTypeOK, NEW removed \in SUBSET {node[n].index : n \in Node}
  PROVE  /\ Highest(removed) \in Nat
         /\ \A x \in removed : x <= Highest(removed)
         /\ \A n \in Lowered : node[n].index - 1 <= Highest(removed)
<1>0. \A n \in Node : node[n].index \in Nat
  BY DEF ListTypeOK, Memory
<1> DEFINE S == {node[n].index - 1 : n \in Lowered} \cup removed \cup {0}
           f == [n \in Node |-> node[n].index]
<1>1. S \in SUBSET Nat /\ S # {}
  BY <1>0, LoweredIndex
<1>2. PICK b \in Nat : \A n \in Node : f[n] <= b
  BY <1>0, BoundExists, ParallelListAssumption DEF Node
<1>3. \A x \in S : x <= b
  <2>1. ASSUME NEW n \in Lowered PROVE node[n].index - 1 <= b
    <3>1. n \in Node /\ node[n].index \in Nat
      BY LoweredIndex
    <3>2. node[n].index <= b
      BY <3>1, <1>2
    <3> QED BY <3>1, <3>2
  <2>2. \A x \in removed : x <= b
    BY <1>2
  <2> QED BY <2>1, <2>2
<1>4. Max(S) \in S /\ \A x \in S : x <= Max(S)
  <2> HIDE DEF S
  <2> QED BY <1>1, <1>3, MaxExists
<1>5. Highest(removed) = Max(S)
  BY DEF Highest
<1>6. removed \subseteq S /\ \A n \in Lowered : node[n].index - 1 \in S
  OBVIOUS
<1> HIDE DEF S
<1> QED BY <1>1, <1>4, <1>5, <1>6

\* Nodes change hands or go, but what they hold stays.
LEMMA RemoveDirsType ==
  ASSUME ListTypeOK, RulesIn(node), RemoveDirs, reused' \in BOOLEAN
  PROVE  ListTypeOK' /\ RulesIn(node')
<1> DEFINE c == Chain(start)
<1>1. /\ c \in Seq(Node) /\ DOMAIN c = 1..Len(c) /\ Len(c) \in Nat
      /\ Doomed \subseteq Node /\ Stay \subseteq 1..Len(c)
  BY ChainNodes
<1>2. ASSUME NEW K \in SUBSET Stay
      PROVE  FirstOf(K) \in Pointer /\ LastOf(K) \in Pointer
  <2>1. CASE K = {}
    BY <2>1 DEF FirstOf, LastOf, Pointer
  <2>2. CASE K # {}
    <3>1. K \in SUBSET Nat /\ K \subseteq 1..Len(c) /\ \A k \in K : k <= Len(c)
      BY <1>1
    <3>2. Min(K) \in K
      BY <2>2, <3>1, MinExists
    <3>3. Max(K) \in K
      BY <2>2, <3>1, <1>1, MaxExists
    <3>4. c[Min(K)] \in Node /\ c[Max(K)] \in Node
      <4>1. Min(K) \in 1..Len(c) /\ Max(K) \in 1..Len(c)
        BY <3>1, <3>2, <3>3
      <4> HIDE DEF c
      <4> QED BY <4>1, <1>1
    <3> QED BY <2>2, <3>4 DEF FirstOf, LastOf, Pointer
  <2> QED BY <2>1, <2>2
<1>3. ASSUME NEW k \in Stay
      PROVE  /\ c[k] \in Node /\ Relinked(k) \in Memory
             /\ Relinked(k).tag = node[c[k]].tag /\ Relinked(k).data = node[c[k]].data
  <2>1. c[k] \in Node
    BY <1>1
  <2>2. node[c[k]] \in Memory
    BY <2>1 DEF ListTypeOK
  <2>3. c[k] \in Lowered => node[c[k]].index - 1 \in Nat
    BY LoweredIndex
  <2>4. LastOf({j \in Stay : j < k}) \in Pointer /\ FirstOf({j \in Stay : j > k}) \in Pointer
    BY <1>2
  <2> DEFINE l == LastOf({j \in Stay : j < k})
             f == FirstOf({j \in Stay : j > k})
  <2> HIDE DEF l, f, c
  <2>5. Relinked(k) = [node[c[k]] EXCEPT !.prev = l, !.next = f,
                                         !.index = IF c[k] \in Lowered THEN @ - 1 ELSE @]
    BY DEF Relinked, l, f, c
  <2>6. l \in Pointer /\ f \in Pointer
    BY <2>4 DEF l, f
  <2> QED BY <2>1, <2>2, <2>3, <2>5, <2>6 DEF Memory
<1>4. ASSUME NEW n \in Node
      PROVE  /\ node'[n] \in Memory
             /\ node'[n].tag = node[n].tag /\ node'[n].data = node[n].data
  <2>0. node[n] \in Memory
    BY DEF ListTypeOK
  <2>1. CASE \E k \in Stay : c[k] = n
    <3>1. PICK k \in Stay : c[k] = n /\ node'[n] = Relinked(k)
      <4> DEFINE k == CHOOSE k \in Stay : c[k] = n
      <4>1. k \in Stay /\ c[k] = n
        BY <2>1
      <4>2. node'[n] = Relinked(k)
        BY <2>1 DEF RemoveDirs
      <4> QED BY <4>1, <4>2
    <3> QED BY <3>1, <1>3
  <2>2. CASE ~ \E k \in Stay : c[k] = n
    <3>1. node'[n] = node[n]
      BY <2>2 DEF RemoveDirs
    <3> QED BY <2>0, <3>1
  <2> QED BY <2>1, <2>2
<1>5. node' \in [Node -> Memory]
  BY <1>4 DEF RemoveDirs
<1>6. section' \in Nat
  <2>1. section \in Nat
    BY DEF ListTypeOK
  <2>2. Highest({}) \in Nat
    BY HighestBounds
  <2>3. Highest({node[n].index : n \in Doomed}) \in Nat
    BY <1>1, HighestBounds
  <2>4. \/ section' = Highest({node[n].index : n \in Doomed})
        \/ section' \in Highest({})..(section + 1)
    BY DEF RemoveDirs
  <2> QED BY <2>1, <2>2, <2>3, <2>4
<1>7. pool' \subseteq Node /\ start' \in Pointer /\ current' \in Pointer
  BY <1>2 DEF RemoveDirs, ListTypeOK
<1>8. RulesIn(node')
  BY <1>4 DEF RulesIn
<1> QED BY <1>5, <1>6, <1>7, <1>8 DEF ListTypeOK

\* What a removal does, place by place.
RemovedAs(s, e, m, d) ==
  /\ RelinkedAs(node', node, s, e, m, d)
  /\ start' = IF m = 0 THEN Null ELSE s[e[1]]
  /\ current' = IF m = 0 THEN Null ELSE s[e[m]]
  /\ \A i \in 1..m : node'[s[e[i]]].data = node[s[e[i]]].data

LEMMA RemovalSteps ==
  ASSUME ListTypeOK, NEW s, Linked(s, node, pool, start, current), RemoveDirs,
         NEW m \in Nat, NEW e, Enumerates(e, m, Stay),
         NEW d, \A k \in Stay : s[k] \in Lowered <=> node[s[k]].index > d
  PROVE  RemovedAs(s, e, m, d)
<1>1. Chain(start) = s /\ s \in Seq(Node)
  BY ChainOfListing, ChainIsChainIn
<1>2. Stay \subseteq 1..Len(s) /\ Stay \in SUBSET Nat
  BY <1>1, ChainNodes
<1>3. /\ \A i \in 1..m : e[i] \in Stay /\ e[i] \in Nat
      /\ \A i, j \in 1..m : i < j => e[i] < e[j]
      /\ \A k \in Stay : \E i \in 1..m : e[i] = k
  BY <1>2 DEF Enumerates
<1>4. ASSUME NEW i \in 1..m, NEW j \in 1..m
      PROVE  (e[i] < e[j] <=> i < j) /\ (e[i] <= e[j] <=> i <= j)
  <2>1. i < j => e[i] < e[j]
    BY <1>3
  <2>2. j < i => e[j] < e[i]
    BY <1>3
  <2>3. e[i] \in Nat /\ e[j] \in Nat
    BY <1>3
  <2> QED BY <2>1, <2>2, <2>3
<1>5. FirstOf(Stay) = IF m = 0 THEN Null ELSE s[e[1]]
  <2>1. CASE m = 0
    <3>1. Stay = {}
      BY <2>1, <1>3
    <3> QED BY <2>1, <3>1 DEF FirstOf
  <2>2. CASE m # 0
    <3>1. 1 \in 1..m
      BY <2>2
    <3>2. e[1] \in Stay /\ \A k \in Stay : e[1] <= k
      <4>1. ASSUME NEW k \in Stay PROVE e[1] <= k
        <5>1. PICK i \in 1..m : e[i] = k
          BY <1>3
        <5>2. 1 <= i
          OBVIOUS
        <5> QED BY <5>1, <5>2, <3>1, <1>4
      <4> QED BY <4>1, <3>1, <1>3
    <3>3. Min(Stay) = e[1]
      BY <3>2, <1>2, MinIs
    <3> QED BY <2>2, <3>2, <3>3, <1>1 DEF FirstOf
  <2> QED BY <2>1, <2>2
<1>6. LastOf(Stay) = IF m = 0 THEN Null ELSE s[e[m]]
  <2>1. CASE m = 0
    <3>1. Stay = {}
      BY <2>1, <1>3
    <3> QED BY <2>1, <3>1 DEF LastOf
  <2>2. CASE m # 0
    <3>1. m \in 1..m
      BY <2>2
    <3>2. e[m] \in Stay /\ \A k \in Stay : k <= e[m]
      <4>1. ASSUME NEW k \in Stay PROVE k <= e[m]
        <5>1. PICK i \in 1..m : e[i] = k
          BY <1>3
        <5>2. i <= m
          OBVIOUS
        <5> QED BY <5>1, <5>2, <3>1, <1>4
      <4> QED BY <4>1, <3>1, <1>3
    <3>3. Max(Stay) = e[m]
      BY <3>2, <1>2, MaxIs
    <3> QED BY <2>2, <3>2, <3>3, <1>1 DEF LastOf
  <2> QED BY <2>1, <2>2
<1>7. ASSUME NEW i \in 1..m
      PROVE  FirstOf({j \in Stay : j > e[i]}) = IF i = m THEN Null ELSE s[e[i + 1]]
  <2> DEFINE K == {j \in Stay : j > e[i]}
  <2>1. CASE i = m
    <3>1. ASSUME NEW k \in K PROVE FALSE
      <4>1. PICK j \in 1..m : e[j] = k
        BY <1>3
      <4>2. e[i] < e[j]
        BY <4>1, <1>2, <1>3
      <4>3. i < j
        BY <4>2, <1>4
      <4> QED BY <4>3, <2>1
    <3> QED BY <2>1, <3>1 DEF FirstOf
  <2>2. CASE i # m
    <3>1. i + 1 \in 1..m /\ i < i + 1
      BY <2>2
    <3>2. e[i + 1] \in K
      <4>1. e[i] < e[i + 1]
        BY <3>1, <1>4
      <4> QED BY <4>1, <3>1, <1>3
    <3>3. ASSUME NEW k \in K PROVE e[i + 1] <= k
      <4>1. PICK j \in 1..m : e[j] = k
        BY <1>3
      <4>2. e[i] < e[j]
        BY <4>1, <1>2, <1>3
      <4>3. i < j
        BY <4>2, <1>4
      <4>4. i + 1 <= j
        BY <4>3
      <4> QED BY <4>1, <4>4, <3>1, <1>4
    <3>4. K \in SUBSET Nat
      BY <1>2
    <3> HIDE DEF K
    <3>5. Min(K) = e[i + 1]
      BY <3>2, <3>3, <3>4, MinIs
    <3>6. FirstOf(K) = s[e[i + 1]]
      BY <3>2, <3>5, <1>1 DEF FirstOf
    <3> QED BY <2>2, <3>6 DEF K
  <2> QED BY <2>1, <2>2
<1>8. ASSUME NEW i \in 1..m
      PROVE  LastOf({j \in Stay : j < e[i]}) = IF i = 1 THEN Null ELSE s[e[i - 1]]
  <2> DEFINE K == {j \in Stay : j < e[i]}
  <2>1. CASE i = 1
    <3>1. ASSUME NEW k \in K PROVE FALSE
      <4>1. PICK j \in 1..m : e[j] = k
        BY <1>3
      <4>2. e[j] < e[i]
        BY <4>1, <1>2, <1>3
      <4>3. j < i
        BY <4>2, <1>4
      <4> QED BY <4>3, <2>1
    <3> QED BY <2>1, <3>1 DEF LastOf
  <2>2. CASE i # 1
    <3>1. i - 1 \in 1..m /\ i - 1 < i
      BY <2>2
    <3>2. e[i - 1] \in K
      <4>1. e[i - 1] < e[i]
        BY <3>1, <1>4
      <4> QED BY <4>1, <3>1, <1>3
    <3>3. ASSUME NEW k \in K PROVE k <= e[i - 1]
      <4>1. PICK j \in 1..m : e[j] = k
        BY <1>3
      <4>2. e[j] < e[i]
        BY <4>1, <1>2, <1>3
      <4>3. j < i
        BY <4>2, <1>4
      <4>4. j <= i - 1
        BY <4>3
      <4> QED BY <4>1, <4>4, <3>1, <1>4
    <3>4. K \in SUBSET Nat
      BY <1>2
    <3> HIDE DEF K
    <3>5. Max(K) = e[i - 1]
      BY <3>2, <3>3, <3>4, MaxIs
    <3>6. LastOf(K) = s[e[i - 1]]
      BY <3>2, <3>5, <1>1 DEF LastOf
    <3> QED BY <2>2, <3>6 DEF K
  <2> QED BY <2>1, <2>2
<1>9. ASSUME NEW k \in Stay PROVE node'[s[k]] = Relinked(k)
  <2>1. s[k] \in Node
    BY <1>1, <1>2
  <2>2. ASSUME NEW j \in Stay, s[j] = s[k] PROVE j = k
    BY <2>2, <1>2 DEF Linked, Injective
  <2>3. (CHOOSE j \in Stay : s[j] = s[k]) = k
    BY <2>2
  <2> QED BY <2>1, <2>3, <1>1 DEF RemoveDirs
<1>10. ASSUME NEW i \in 1..m
       PROVE  /\ node'[s[e[i]]].prev = IF i = 1 THEN Null ELSE s[e[i - 1]]
              /\ node'[s[e[i]]].next = IF i = m THEN Null ELSE s[e[i + 1]]
              /\ node'[s[e[i]]].index
                    = node[s[e[i]]].index - (IF node[s[e[i]]].index > d THEN 1 ELSE 0)
              /\ node'[s[e[i]]].first = node[s[e[i]]].first
              /\ node'[s[e[i]]].tag = node[s[e[i]]].tag
              /\ node'[s[e[i]]].last = node[s[e[i]]].last
              /\ node'[s[e[i]]].data = node[s[e[i]]].data
  <2> DEFINE n == s[e[i]]
             l == LastOf({j \in Stay : j < e[i]})
             f == FirstOf({j \in Stay : j > e[i]})
  <2>1. node'[n] = Relinked(e[i]) /\ e[i] \in Stay
    BY <1>3, <1>9
  <2>2. n \in Node /\ node[n] \in Memory
    BY <2>1, <1>1, <1>2 DEF ListTypeOK
  <2>3. l = (IF i = 1 THEN Null ELSE s[e[i - 1]]) /\ f = IF i = m THEN Null ELSE s[e[i + 1]]
    BY <1>7, <1>8
  <2>4. n \in Lowered <=> node[n].index > d
    BY <2>1
  <2>5. Relinked(e[i]) = [node[n] EXCEPT !.prev = l, !.next = f,
                                         !.index = IF n \in Lowered THEN @ - 1 ELSE @]
    BY <1>1 DEF Relinked
  <2>6. node[n].index \in Nat
    BY <2>2 DEF Memory
  <2> HIDE DEF n, l, f
  <2>7. /\ node'[n].prev = l /\ node'[n].next = f
        /\ node'[n].index = node[n].index - (IF node[n].index > d THEN 1 ELSE 0)
        /\ node'[n].first = node[n].first /\ node'[n].tag = node[n].tag
        /\ node'[n].last = node[n].last /\ node'[n].data = node[n].data
    BY <2>1, <2>2, <2>4, <2>5, <2>6 DEF Memory
  <2> QED BY <2>3, <2>7 DEF n
<1> QED BY <1>5, <1>6, <1>10 DEF RemoveDirs, RemovedAs, RelinkedAs

\* A scan removes what scans have added, and nothing else: the others keep
\* their order, their sections, and what they hold.
LEMMA RemoveDirsStep ==
  ASSUME ListTypeOK, ListInv, RemoveDirs, UNCHANGED reused, reused = FALSE,
         NEW out \in pool, node[out].tag = "Dirs"
  PROVE  /\ ListInv'
         /\ pool' = {n \in pool : node[n].tag # "Dirs"}
         /\ Kept(node, node', pool')
<1>1. PICK s : Linked(s, node, pool, start, current) /\ Sections(s, node, section)
  BY DEF ListInv, Listing
<1>2. Chain(start) = s /\ s \in Seq(Node) /\ ToSet(Chain(start)) = pool
  BY <1>1, ChainOfListing, ChainIsChainIn
<1>3. Len(s) \in Nat /\ DOMAIN s = 1..Len(s) /\ pool = {s[k] : k \in 1..Len(s)}
      /\ Injective(s)
  BY <1>1, <1>2 DEF Linked
<1>4. Doomed = {n \in pool : node[n].tag = "Dirs"}
  BY <1>2 DEF Doomed, IsDirs
<1>5. Stay = Staying(s, node)
  BY <1>2, <1>3, <1>4 DEF Stay, Staying
<1>6. PICK D \in 1..Len(s) :
         /\ D = Detected /\ node[s[D]].tag = "Dirs"
         /\ \A k \in 1..Len(s) : k < D => node[s[k]].tag # "Dirs"
  <2> DEFINE D == Detected
             I == {i \in 1..Len(s) : IsDirs(s[i])}
  <2>1. D = IF I # {} THEN Min(I) ELSE 0
    BY <1>2 DEF Detected, SelectInSeq
  <2>2. PICK k \in 1..Len(s) : s[k] = out
    BY <1>3
  <2>3. k \in I
    BY <2>2 DEF IsDirs
  <2>4. I \in SUBSET Nat
    OBVIOUS
  <2>a. \A i \in 1..Len(s) : i \in I <=> node[s[i]].tag = "Dirs"
    BY DEF IsDirs
  <2>b. I \subseteq 1..Len(s)
    OBVIOUS
  <2> HIDE DEF I, D
  <2>5. D \in I /\ \A i \in I : D <= i
    BY <2>1, <2>3, <2>4, MinExists
  <2>6. ASSUME NEW i \in 1..Len(s), i < D PROVE node[s[i]].tag # "Dirs"
    <3>0. D \in Nat
      BY <2>4, <2>5
    <3>1. D \in Nat /\ i \in Nat
      BY <3>0
    <3>2. i \notin I
      BY <3>1, <2>5, <2>6
    <3> QED BY <3>2, <2>a
  <2>7. D \in 1..Len(s) /\ node[s[D]].tag = "Dirs"
    BY <2>5, <2>a, <2>b
  <2> QED BY <2>6, <2>7 DEF D
<1>7. section \in Nat
  BY DEF ListTypeOK
<1>d. PICK d : d = node[s[D]].index
  OBVIOUS
<1>8. \A k \in 1..Len(s) : /\ node[s[k]].index = d => node[s[k]].tag = "Dirs"
                           /\ node[s[k]].index > d => D < k
  BY <1>1, <1>2, <1>6, <1>7, <1>d, FirstOfDirs
<1>9. ASSUME NEW k \in Stay PROVE s[k] \in Lowered <=> node[s[k]].index > d
  <2>1. k \in 1..Len(s) /\ node[s[k]].tag # "Dirs"
    BY <1>5 DEF Staying
  <2>2. Behind = {s[j] : j \in {i \in 1..Len(s) : 0 < D /\ D < i}}
    BY <1>2, <1>3, <1>6 DEF Behind
  <2>3. s[k] \in Lowered <=> s[k] \in Behind /\ node[s[k]].index > d
    BY <2>1, <1>2, <1>6, <1>d DEF Lowered, IsDirs
  <2>4. node[s[k]].index > d => s[k] \in Behind
    BY <2>1, <2>2, <1>6, <1>8
  <2> QED BY <2>3, <2>4
<1>10. PICK m \in Nat : \E e : Enumerates(e, m, Stay)
  BY <1>3, <1>5, EnumerationExists DEF Staying
<1>11. PICK e : Enumerates(e, m, Stay)
  BY <1>10
<1>12. d \in Nat
  BY <1>1, <1>6, <1>d DEF Sections
<1>13. /\ RelinkedAs(node', node, s, e, m, d)
       /\ start' = IF m = 0 THEN Null ELSE s[e[1]]
       /\ current' = IF m = 0 THEN Null ELSE s[e[m]]
       /\ \A i \in 1..m : node'[s[e[i]]].data = node[s[e[i]]].data
  <2>1. RemovedAs(s, e, m, d)
    BY <1>1, <1>9, <1>11, RemovalSteps
  <2> QED BY <2>1 DEF RemovedAs
<1>14. pool' = {n \in pool : node[n].tag # "Dirs"}
  BY <1>4 DEF RemoveDirs
<1> DEFINE t == Selected(s, e, m)
<1>15. Linked(t, node', pool', start', current')
  <2>1. Linked(t, node', {n \in pool : node[n].tag # "Dirs"},
               IF m = 0 THEN Null ELSE s[e[1]], IF m = 0 THEN Null ELSE s[e[m]])
    BY <1>1, <1>5, <1>11, <1>13, RemovalKeepsLinked
  <2> HIDE DEF t
  <2> QED BY <2>1, <1>13, <1>14
<1> DEFINE gone == {node[n].index : n \in Doomed}
<1>16. section' = Highest(gone)
  BY DEF RemoveDirs
<1>17. /\ section' \in Nat /\ d <= section'
       /\ \A n \in Lowered : node[n].index - 1 <= section'
  <2>1. Doomed \subseteq Node
    BY ChainNodes
  <2>2. gone \in SUBSET {node[n].index : n \in Node}
    BY <2>1
  <2>3. d \in gone
    BY <1>3, <1>4, <1>6, <1>d
  <2> HIDE DEF gone
  <2> QED BY <2>2, <2>3, <1>16, HighestBounds
<1>18. Sections(t, node', section')
  <2>1. \A k \in Staying(s, node) : node[s[k]].index > d => node[s[k]].index - 1 <= section'
    BY <1>5, <1>9, <1>17
  <2> HIDE DEF t
  <2>3. /\ RelinkedAs(node', node, s, e, m, node[s[D]].index)
        /\ node[s[D]].index <= section'
        /\ \A k \in Staying(s, node) :
              node[s[k]].index > node[s[D]].index => node[s[k]].index - 1 <= section'
    BY <2>1, <1>d, <1>13, <1>17
  <2>4. Enumerates(e, m, Staying(s, node))
    BY <1>5, <1>11
  <2> QED BY <2>3, <2>4, <1>1, <1>2, <1>6, <1>7, <1>17, RemovalKeepsSections DEF t
<1>19. Kept(node, node', pool')
  <2> SUFFICES ASSUME NEW n \in pool'
               PROVE  /\ node'[n].tag = node[n].tag /\ node'[n].data = node[n].data
                      /\ node'[n].first = node[n].first
    BY DEF Kept
  <2>1. PICK k \in 1..Len(s) : n = s[k] /\ node[s[k]].tag # "Dirs"
    BY <1>3, <1>14
  <2>2. k \in Stay
    BY <2>1, <1>5 DEF Staying
  <2>3. PICK i \in 1..m : e[i] = k
    BY <2>2, <1>11 DEF Enumerates
  <2> QED BY <2>1, <2>3, <1>13 DEF RelinkedAs
<1>20. ListInv'
  BY <1>15, <1>18 DEF ListInv, Listing
<1> QED BY <1>14, <1>19, <1>20

-----------------------------------------------------------------------------
(* What holds whatever happens to the list.                                *)

CommPlace == {"idle", "parse", "look", "search", "again", "searchAgain", "test",
              "first", "append", "remove", "count", "spin"}
LoaderPlace == {"idle", "look", "search", "again", "searchAgain", "test",
                "first", "append", "over"}
ScannerPlace == {"idle", "scan", "clean"}
HandlerPlace == {"idle", "hash", "stuck", "look", "search", "skip", "mask", "done"}

Places ==
  /\ at[Comm] \in CommPlace /\ at[Loader] \in LoaderPlace /\ at[Scanner] \in ScannerPlace
  /\ \A h \in Handlers : at[h] \in HandlerPlace

\* Who adds rules has one.
AddersHaveRules ==
  \A t \in Adder : at[t] \notin {"idle", "parse", "over"} => wanted[t] \in Rule

CanBe(t, place) ==
  /\ t = Comm => place \in CommPlace
  /\ t = Loader => place \in LoaderPlace
  /\ t = Scanner => place \in ScannerPlace
  /\ t \in Handlers => place \in HandlerPlace

Base == TypeOK /\ RulesIn(node) /\ Places /\ AddersHaveRules

LEMMA Threads ==
  /\ Comm \in Thread /\ Loader \in Thread /\ Scanner \in Thread /\ Handlers \subseteq Thread
  /\ Comm # Loader /\ Comm # Scanner /\ Loader # Scanner
  /\ Adder = {Comm, Loader}
  /\ Comm \notin Handlers /\ Loader \notin Handlers /\ Scanner \notin Handlers
BY ActionRulesAssumption DEF Thread, Adder, Comm, Loader, Scanner

LEMMA RulesAreContents ==
  Rule \subseteq Contents /\ Contents # {} /\ ToSet(Files) \subseteq Contents
<1>1. Rule # {}
  <2>1. Blocked(LoaderImage, "Remove") \in Rule
    BY ActionRulesAssumption DEF Blocked, Rule, Feature
  <2> QED BY <2>1
<1> QED BY <1>1, ActionRulesAssumption

\* The rule a thread works on, and where it goes.
WantedType == [block : BOOLEAN, sha : Image \cup {NoImage}, feature : Feature]

LEMMA BlockedType ==
  ASSUME NEW sha \in Image \cup {NoImage}, NEW feature \in Feature
  PROVE  Blocked(sha, feature) \in WantedType /\ (sha \in Image => Blocked(sha, feature) \in Rule)
BY DEF Blocked, WantedType, Rule

\* The variables of the threads, the list apart.
Typed ==
    /\ at \in [Thread -> Place]
    /\ actionNode \in Pointer
    /\ wanted \in [Thread -> WantedType]
    /\ command \in Commands \cup {<<>>}
    /\ handle \in [Handlers -> Ask] /\ asked \in [Handlers -> Ask]
    /\ image \in [Handlers -> Image \cup {NoImage}]
    /\ before \in [Handlers -> SUBSET Rule]
    /\ work \in 0..MaxWork
    /\ unlisted \in Seq(ToSet(Files))
    /\ output \in Pointer
    /\ isInit \in BOOLEAN
    /\ shortages \in 0..MaxShort
    /\ fault \in BOOLEAN

LEMMA TypedIsType == TypeOK <=> ListTypeOK /\ Typed
BY DEF TypeOK, Typed, WantedType

LEMMA BaseInit == Init => Base
<1> SUFFICES ASSUME Init PROVE Base
  OBVIOUS
<1> USE ParallelListAssumption, ActionRulesAssumption
<1>1. ListTypeOK /\ RulesIn(node)
  <2> DEFINE content == CHOOSE content \in Contents : TRUE
  <2>1. content \in Contents
    BY RulesAreContents
  <2> HIDE DEF content
  <2>2. node = [n \in Node |-> [prev |-> Null, next |-> Null, first |-> Null, index |-> 0,
                                tag |-> "Dirs", data |-> content, last |-> FALSE]]
    BY DEF Init, ListInit, content
  <2>3. node \in [Node -> Memory]
    BY <2>1, <2>2 DEF Memory, Pointer, Tag
  <2>4. RulesIn(node)
    BY <2>2 DEF RulesIn
  <2>5. ListTypeOK
    BY <2>3 DEF ListTypeOK, Init, ListInit, Pointer
  <2> QED BY <2>4, <2>5
<1>2. NoAsk \in Ask
  BY DEF NoAsk, Ask
<1>3. Blocked(NoImage, "Remove") \in WantedType
  BY BlockedType DEF Feature
<1>4. Typed
  <2>1. at \in [Thread -> Place] /\ wanted \in [Thread -> WantedType]
    BY <1>3 DEF Init, Place
  <2>2. handle \in [Handlers -> Ask] /\ asked \in [Handlers -> Ask]
    BY <1>2 DEF Init
  <2>3. /\ image \in [Handlers -> Image \cup {NoImage}]
        /\ before \in [Handlers -> SUBSET Rule]
    BY DEF Init
  <2>4. /\ actionNode \in Pointer /\ output \in Pointer /\ command \in Commands \cup {<<>>}
        /\ isInit \in BOOLEAN /\ fault \in BOOLEAN
    BY DEF Init, Pointer
  <2>a. unlisted \in Seq(ToSet(Files))
    BY DEF Init
  <2>5. work \in 0..MaxWork /\ shortages \in 0..MaxShort
    BY DEF Init
  <2> QED BY <2>1, <2>2, <2>3, <2>4, <2>a, <2>5 DEF Typed
<1>5. Places /\ AddersHaveRules
  BY Threads DEF Init, Places, AddersHaveRules, CommPlace, LoaderPlace,
                ScannerPlace, HandlerPlace
<1> QED BY <1>1, <1>4, <1>5, TypedIsType DEF Base

LEMMA ListUnchanged ==
  ASSUME ListTypeOK, RulesIn(node), UNCHANGED list
  PROVE  ListTypeOK' /\ RulesIn(node')
BY DEF ListTypeOK, RulesIn, list

\* A thread that goes on is where its kind of thread can be, the others stay
\* where they are, and those that add rules have one.
LEMMA GoStep ==
  ASSUME Typed, Places, AddersHaveRules, NEW t \in Thread, NEW from, NEW to,
         Go(t, from, to), CanBe(t, to),
         \A u \in Adder : u # t => wanted'[u] = wanted[u],
         t \in Adder => to \in {"idle", "parse", "over"} \/ wanted'[t] \in Rule
  PROVE  at' \in [Thread -> Place] /\ Places' /\ AddersHaveRules'
<1>1. to \in Place
  BY Threads DEF CanBe, Thread, Place, CommPlace, LoaderPlace, ScannerPlace, HandlerPlace,
     Comm, Loader, Scanner
<1>2. /\ at' \in [Thread -> Place] /\ at'[t] = to
      /\ \A u \in Thread : u # t => at'[u] = at[u]
  BY <1>1 DEF Go, Is, Typed
<1>3. Places'
  BY <1>2, Threads DEF Places, CanBe
<1>4. AddersHaveRules'
  BY <1>2, Threads DEF AddersHaveRules
<1> QED BY <1>2, <1>3, <1>4

\* Who goes on with its rule has it.
LEMMA AdderGoes ==
  ASSUME Typed, Places, AddersHaveRules, NEW t \in Adder, NEW from, NEW to,
         Go(t, from, to), CanBe(t, to), UNCHANGED wanted,
         from \notin {"idle", "parse", "over"}
  PROVE  /\ at' \in [Thread -> Place] /\ Places' /\ AddersHaveRules'
         /\ wanted[t] \in Rule
<1>1. t \in Thread
  BY Threads
<1>2. wanted[t] \in Rule
  BY DEF AddersHaveRules, Go, Is
<1> QED BY <1>1, <1>2, GoStep

\* What a search finds.
LEMMA NodeWithFinds ==
  ASSUME ListTypeOK, NEW tag, NEW data
  PROVE  \/ /\ NodeWith(tag, data) = Null
            /\ \A n \in ToSet(Chain(start)) : ~(node[n].tag = tag /\ node[n].data = data)
         \/ /\ NodeWith(tag, data) \in Node
            /\ NodeWith(tag, data) \in ToSet(Chain(start))
            /\ node[NodeWith(tag, data)].tag = tag /\ node[NodeWith(tag, data)].data = data
<1> DEFINE c == Chain(start)
           I == {i \in 1..Len(c) : node[c[i]].tag = tag /\ node[c[i]].data = data}
           hit == IF I # {} THEN Min(I) ELSE 0
<1>1. /\ c \in Seq(Node) /\ DOMAIN c = 1..Len(c) /\ Len(c) \in Nat /\ ToSet(c) \subseteq Node
      /\ ToSet(c) = {c[i] : i \in 1..Len(c)}
  BY ChainNodes DEF ToSet
<1>2. NodeWith(tag, data) = IF hit = 0 THEN Null ELSE c[hit]
  BY DEF NodeWith, SelectInSeq
<1>3. CASE I = {}
  <2>1. NodeWith(tag, data) = Null
    BY <1>2, <1>3
  <2>2. \A n \in ToSet(c) : ~(node[n].tag = tag /\ node[n].data = data)
    BY <1>1, <1>3
  <2> QED BY <2>1, <2>2
<1>4. CASE I # {}
  <2>1. I \in SUBSET Nat
    BY <1>1
  <2>2. Min(I) \in I
    <3> HIDE DEF I
    <3> QED BY <2>1, <1>4, MinExists
  <2>3. hit \in 1..Len(c) /\ node[c[hit]].tag = tag /\ node[c[hit]].data = data
    BY <2>2, <1>4
  <2> HIDE DEF hit, I, c
  <2>4. hit # 0
    BY <2>3, <1>1
  <2>5. NodeWith(tag, data) = c[hit]
    BY <2>4, <1>2
  <2> QED BY <2>3, <2>5, <1>1 DEF c
<1> QED BY <1>3, <1>4

LEMMA FindType ==
  ASSUME Base, NEW t, NEW from, NEW found, NEW missing, Find(t, from, found, missing)
  PROVE  actionNode' \in Pointer
<1> DEFINE hit == NodeWith("Actn", wanted[t])
<1>1. actionNode' = IF hit # Null THEN node[hit].first ELSE actionNode
  BY DEF Find
<1>2. hit = Null \/ hit \in Node
  BY NodeWithFinds, TypedIsType DEF Base
<1> HIDE DEF hit
<1>3. hit \in Node => node[hit].first \in Pointer
  BY TypedIsType DEF Base, ListTypeOK, Memory
<1> QED BY <1>1, <1>2, <1>3, TypedIsType DEF Base, Typed

\* A step that leaves the list alone.
LEMMA QuietBase ==
  ASSUME Base, UNCHANGED list, Typed', Places', AddersHaveRules'
  PROVE  Base'
<1>1. ListTypeOK' /\ RulesIn(node')
  BY ListUnchanged, TypedIsType DEF Base
<1>2. TypeOK' <=> ListTypeOK' /\ Typed'
  BY DEF TypeOK, Typed, WantedType, ListTypeOK
<1> QED BY <1>1, <1>2 DEF Base

LEMMA QuietAdderBase ==
  ASSUME Base, NEW t \in Adder, LookFirst(t) \/ LookAgain(t) \/ TestPointer(t)
  PROVE  Base'
<1> USE TypedIsType
<1>0. Typed /\ Places /\ AddersHaveRules /\ t \in {Comm, Loader} /\ Comm # Loader
      /\ Comm \notin Handlers /\ Loader \notin Handlers /\ Comm # Scanner /\ Loader # Scanner
  BY Threads DEF Base
<1>1. /\ UNCHANGED <<list, adding, handling, scanning, bounds, fault>>
      /\ actionNode' \in Pointer
  <2>1. \/ \E from, search, missing : Glance(t, from, search, missing)
        \/ \E from, found, missing : Find(t, from, found, missing)
        \/ TestPointer(t)
    BY DEF LookFirst, LookAgain
  <2> QED BY <2>1, <1>0, FindType DEF Glance, Find, TestPointer, Typed
<1>2. PICK from, to : /\ Go(t, from, to) /\ CanBe(t, to)
                      /\ from \notin {"idle", "parse", "over"}
  <2>1. CASE LookFirst(t)
    BY <2>1, <1>0 DEF LookFirst, Glance, Find, CanBe, CommPlace, LoaderPlace
  <2>2. CASE LookAgain(t)
    BY <2>2, <1>0 DEF LookAgain, Glance, Find, CanBe, CommPlace, LoaderPlace, Finished
  <2>3. CASE TestPointer(t)
    BY <2>3, <1>0 DEF TestPointer, CanBe, CommPlace, LoaderPlace
  <2> QED BY <2>1, <2>2, <2>3
<1>3. at' \in [Thread -> Place] /\ Places' /\ AddersHaveRules'
  BY <1>0, <1>1, <1>2, AdderGoes DEF adding
<1>4. Typed'
  BY <1>0, <1>1, <1>3 DEF Typed, adding, handling, scanning, bounds
<1> QED BY <1>1, <1>3, <1>4, QuietBase

\* A step of an adder that writes.
LEMMA WritingAdderBase ==
  ASSUME Base, NEW t \in Adder, FirstRule(t) \/ AppendRule(t)
  PROVE  Base'
<1>0. /\ ListTypeOK /\ RulesIn(node) /\ Typed /\ Places /\ AddersHaveRules
      /\ t \in {Comm, Loader} /\ Comm # Loader
      /\ Comm \notin Handlers /\ Loader \notin Handlers /\ Comm # Scanner /\ Loader # Scanner
  BY Threads, TypedIsType DEF Base
<1>1. PICK from \in {"first", "append"} : Go(t, from, Finished(t))
  BY DEF FirstRule, AppendRule
<1>2. CanBe(t, Finished(t)) /\ UNCHANGED wanted
  BY <1>0 DEF CanBe, Finished, CommPlace, LoaderPlace, FirstRule, AppendRule, adding
<1>3. at' \in [Thread -> Place] /\ Places' /\ AddersHaveRules' /\ wanted[t] \in Rule
  BY <1>0, <1>1, <1>2, AdderGoes
<1>4. wanted[t] \in Contents /\ "Actn" \in Tag
  BY <1>3, RulesAreContents DEF Tag
<1>5. ListTypeOK' /\ RulesIn(node') /\ actionNode' \in Pointer /\ shortages' \in 0..MaxShort
  <2>1. CASE FirstRule(t)
    <3>1. PICK short \in BOOLEAN : Shortage(short) /\ NewSection("Actn", wanted[t], short)
      BY <2>1 DEF FirstRule
    <3>2. ListTypeOK' /\ RulesIn(node')
      BY <2>1, <3>1, <1>0, <1>3, <1>4, NewSectionType DEF FirstRule
    <3>3. actionNode' \in Pointer
      BY <2>1, <3>2 DEF FirstRule, ListTypeOK
    <3>4. shortages' \in 0..MaxShort
      BY <3>1, <1>0, ActionRulesAssumption DEF Shortage, Typed
    <3> QED BY <3>2, <3>3, <3>4
  <2>2. CASE AppendRule(t)
    <3>1. PICK short \in BOOLEAN :
             Shortage(short) /\ ToSection("Actn", wanted[t], actionNode, short)
      BY <2>2 DEF AppendRule
    <3>2. actionNode \in Pointer /\ actionNode # Null /\ UNCHANGED <<reused, actionNode>>
      BY <2>2, <1>0 DEF AppendRule, Typed
    <3>3. ListTypeOK' /\ RulesIn(node')
      BY <3>1, <3>2, <1>0, <1>3, <1>4, ToSectionType
    <3>4. shortages' \in 0..MaxShort
      BY <3>1, <1>0, ActionRulesAssumption DEF Shortage, Typed
    <3> QED BY <3>2, <3>3, <3>4
  <2> QED BY <2>1, <2>2
<1>6. Typed'
  BY <1>0, <1>3, <1>5 DEF Typed, FirstRule, AppendRule, adding, handling, scanning
<1>7. TypeOK' <=> ListTypeOK' /\ Typed'
  BY DEF TypeOK, Typed, WantedType, ListTypeOK
<1> QED BY <1>3, <1>5, <1>6, <1>7 DEF Base

\* What the server's commands and IoControl say.
LEMMA CommandBase ==
  ASSUME Base, Receive \/ Parse \/ TestRemoval \/ CountNodes \/ Protect
  PROVE  Base'
<1>0. /\ Typed /\ Places /\ AddersHaveRules
      /\ Comm # Loader /\ Comm # Scanner /\ Loader # Scanner
      /\ Comm \notin Handlers /\ Loader \notin Handlers
      /\ Comm \in Thread /\ Loader \in Thread /\ Adder = {Comm, Loader}
  BY Threads, TypedIsType DEF Base
<1>1. CASE Receive
  <2>1. Go(Comm, "idle", "parse") /\ CanBe(Comm, "parse") /\ UNCHANGED wanted
    BY <1>0, <1>1 DEF Receive, CanBe, CommPlace
  <2>2. at' \in [Thread -> Place] /\ Places' /\ AddersHaveRules'
    BY <1>0, <2>1, GoStep
  <2>3. work' \in 0..MaxWork /\ command' \in Commands
    BY <1>0, <1>1, ActionRulesAssumption DEF Receive, Typed
  <2>4. Typed' /\ UNCHANGED list
    BY <1>0, <1>1, <2>2, <2>3 DEF Receive, Typed, handling, scanning
  <2> QED BY <2>2, <2>4, QuietBase
<1>2. CASE Parse
  <2> DEFINE rule == [block   |-> command[2] = "BLOCK",
                      sha     |-> command[3],
                      feature |-> FeatureNamed(command[4])]
  <2>1. PICK to \in {"idle", "again", "look"} :
           Go(Comm, "parse", to) /\ (Refused => to = "idle")
    BY <1>2 DEF Parse
  <2>2. wanted' = IF Refused THEN wanted ELSE [wanted EXCEPT ![Comm] = rule]
    BY <1>2 DEF Parse
  <2>3. ~Refused => rule \in Rule
    <3> SUFFICES ASSUME ~Refused PROVE rule \in Rule
      OBVIOUS
    <3>1. Len(command) >= 4
      BY <1>2 DEF Parse
    <3>2. command \in Commands
      BY <1>0, <3>1 DEF Typed
    <3>3. Len(command) \in Nat /\ command[3] \in Image \cup {TooLong}
      BY <3>1, <3>2, ActionRulesAssumption
    <3>4. Len(command) >= 3
      BY <3>1, <3>3
    <3>5. command[3] \in Image
      BY <3>3, <3>4 DEF Refused
    <3>6. FeatureNamed(command[4]) \in Feature
      BY <3>1 DEF Refused, FeatureNamed, Feature
    <3> QED BY <3>5, <3>6 DEF Rule
  <2> HIDE DEF rule
  <2>4. /\ wanted' \in [Thread -> WantedType]
        /\ \A u \in Adder : u # Comm => wanted'[u] = wanted[u]
        /\ ~Refused => wanted'[Comm] \in Rule
    <3>1. Rule \subseteq WantedType
      BY DEF Rule, WantedType
    <3> QED BY <3>1, <2>2, <2>3, <1>0 DEF Typed
  <2>5. CanBe(Comm, to)
    BY <1>0, <2>1 DEF CanBe, CommPlace
  <2>6. at' \in [Thread -> Place] /\ Places' /\ AddersHaveRules'
    BY <1>0, <2>1, <2>4, <2>5, GoStep
  <2>7. Typed' /\ UNCHANGED list
    BY <1>0, <1>2, <2>4, <2>6 DEF Parse, Typed, handling, scanning, bounds
  <2> QED BY <2>6, <2>7, QuietBase
<1>3. CASE TestRemoval \/ CountNodes
  <2>1. PICK from \in {"remove", "count"}, to \in {"idle", "count", "spin"} :
           Go(Comm, from, to)
    BY <1>3 DEF TestRemoval, CountNodes
  <2>2. CanBe(Comm, to) /\ Comm \in Adder
    BY <1>0, <2>1 DEF CanBe, CommPlace
  <2>3. UNCHANGED <<list, actionNode, adding, handling, scanning, bounds, fault>>
    BY <1>3 DEF TestRemoval, CountNodes
  <2>4. at' \in [Thread -> Place] /\ Places' /\ AddersHaveRules'
    BY <1>0, <2>1, <2>2, <2>3, AdderGoes DEF adding
  <2>5. Typed' /\ UNCHANGED list
    BY <1>0, <2>3, <2>4 DEF Typed, adding, handling, scanning, bounds
  <2> QED BY <2>4, <2>5, QuietBase
<1>4. CASE Protect
  <2>1. PICK to \in {"look", "over"} : Go(Loader, "idle", to)
    BY <1>4 DEF Protect
  <2>2. Blocked(LoaderImage, "Remove") \in WantedType /\ Blocked(LoaderImage, "Remove") \in Rule
    BY BlockedType, ActionRulesAssumption DEF Feature
  <2>3. wanted' = [wanted EXCEPT ![Loader] = Blocked(LoaderImage, "Remove")]
    BY <1>4 DEF Protect
  <2>4. /\ wanted' \in [Thread -> WantedType] /\ wanted'[Loader] \in Rule
        /\ \A u \in Adder : u # Loader => wanted'[u] = wanted[u]
    BY <1>0, <2>2, <2>3 DEF Typed
  <2>5. CanBe(Loader, to)
    BY <1>0, <2>1 DEF CanBe, LoaderPlace
  <2>6. at' \in [Thread -> Place] /\ Places' /\ AddersHaveRules'
    BY <1>0, <2>1, <2>4, <2>5, GoStep
  <2>7. Typed' /\ UNCHANGED list
    BY <1>0, <1>4, <2>4, <2>6 DEF Protect, Typed, handling, scanning, bounds
  <2> QED BY <2>6, <2>7, QuietBase
<1> QED BY <1>1, <1>2, <1>3, <1>4

\* The scan.
LEMMA ScanBase ==
  ASSUME Base, BeginScan \/ BreakOff \/ Scan
  PROVE  Base'
<1>0. /\ ListTypeOK /\ RulesIn(node) /\ Typed /\ Places /\ AddersHaveRules
      /\ Comm # Scanner /\ Loader # Scanner /\ Scanner \notin Handlers
      /\ Scanner \in Thread /\ Scanner \notin Adder
  BY Threads, TypedIsType DEF Base
<1>a. ASSUME NEW from, NEW to \in {"idle", "scan", "clean"}, Go(Scanner, from, to),
             UNCHANGED wanted
      PROVE  at' \in [Thread -> Place] /\ Places' /\ AddersHaveRules'
  <2>1. CanBe(Scanner, to)
    BY <1>0 DEF CanBe, ScannerPlace
  <2> QED BY <2>1, <1>0, <1>a, GoStep
<1>1. CASE BeginScan
  <2>1. at' \in [Thread -> Place] /\ Places' /\ AddersHaveRules'
    BY <1>a, <1>1 DEF BeginScan, adding
  <2>2. unlisted' \in Seq(ToSet(Files))
    <3>1. PICK n \in 0..Len(Files) : unlisted' = SubSeq(Files, 1, n)
      BY <1>1 DEF BeginScan
    <3>2. Files \in Seq(ToSet(Files)) /\ Len(Files) \in Nat
      BY ActionRulesAssumption DEF ToSet
    <3>3. \A i \in 1..n : Files[i] \in ToSet(Files)
      BY <3>2
    <3>4. SubSeq(Files, 1, n) = [i \in 1..n |-> Files[i]]
      BY <3>2
    <3> QED BY <3>1, <3>3, <3>4
  <2>3. work' \in 0..MaxWork /\ output' \in Pointer
    BY <1>0, <1>1, ActionRulesAssumption DEF BeginScan, Typed, Pointer
  <2>4. Typed' /\ UNCHANGED list
    BY <1>0, <1>1, <2>1, <2>2, <2>3 DEF BeginScan, Typed, adding, handling
  <2> QED BY <2>1, <2>4, QuietBase
<1>2. CASE BreakOff \/ EndList
  <2>1. at' \in [Thread -> Place] /\ Places' /\ AddersHaveRules'
    <3>1. PICK to \in {"idle", "scan", "clean"} : Go(Scanner, "scan", to) /\ UNCHANGED wanted
      BY <1>2 DEF BreakOff, EndList, adding
    <3> QED BY <3>1, <1>a
  <2>2. unlisted' \in Seq(ToSet(Files)) /\ output' \in Pointer
    <3>1. <<>> \in Seq(ToSet(Files)) /\ Null \in Pointer
      BY DEF Pointer
    <3>2. CASE BreakOff
      BY <3>1, <3>2 DEF BreakOff
    <3>3. CASE EndList
      BY <3>3, <1>0 DEF EndList, Typed, scanning
    <3> QED BY <3>2, <3>3, <1>2
  <2>3. Typed' /\ UNCHANGED list
    BY <1>0, <1>2, <2>1, <2>2 DEF BreakOff, EndList, Typed, adding, handling, bounds, scanning
  <2> QED BY <2>1, <2>3, QuietBase
<1>3. CASE ListFile
  <2>1. PICK short \in BOOLEAN :
          /\ Shortage(short)
          /\ \/ isInit /\ NewSection("Dirs", Head(unlisted), short)
             \/ ~isInit /\ output # Null /\ ToSection("Dirs", Head(unlisted), output, short)
    BY <1>3 DEF ListFile
  <2>2. unlisted \in Seq(ToSet(Files)) /\ unlisted # <<>> /\ output \in Pointer
    BY <1>0, <1>3 DEF ListFile, Typed
  <2>3. Head(unlisted) \in Contents /\ "Dirs" \in Tag /\ "Dirs" # "Actn"
    BY <2>2, RulesAreContents DEF Tag
  <2>4. ListTypeOK' /\ RulesIn(node')
    BY <1>0, <1>3, <2>1, <2>2, <2>3, NewSectionType, ToSectionType DEF ListFile
  <2>5. shortages' \in 0..MaxShort
    BY <2>1, <1>0, ActionRulesAssumption DEF Shortage, Typed
  <2>6. Tail(unlisted) \in Seq(ToSet(Files)) /\ output' \in Pointer
    BY <2>2, <2>4, <1>3 DEF ListFile, ListTypeOK
  <2>7. Typed'
    BY <1>0, <1>3, <2>5, <2>6 DEF ListFile, Typed, adding, handling
  <2>8. Places' /\ AddersHaveRules'
    BY <1>0, <1>3 DEF ListFile, Places, AddersHaveRules, adding
  <2>9. TypeOK' <=> ListTypeOK' /\ Typed'
    BY DEF TypeOK, Typed, WantedType, ListTypeOK
  <2> QED BY <2>4, <2>7, <2>8, <2>9 DEF Base
<1>4. CASE Clean
  <2>1. at' \in [Thread -> Place] /\ Places' /\ AddersHaveRules'
    BY <1>a, <1>4 DEF Clean, adding
  <2>2. ListTypeOK' /\ RulesIn(node')
    <3>1. CASE current # Null /\ RemoveDirs
      <4>1. reused' \in BOOLEAN
        BY <3>1, <1>0 DEF RemoveDirs, ListTypeOK
      <4> QED BY <3>1, <4>1, <1>0, RemoveDirsType
    <3>2. CASE RemoveRefused
      BY <3>2, <1>0 DEF RemoveRefused, ListTypeOK, RulesIn
    <3> QED BY <3>1, <3>2, <1>4 DEF Clean
  <2>3. Typed'
    BY <1>0, <1>4, <2>1 DEF Clean, Typed, adding, handling, bounds, Pointer
  <2>4. TypeOK' <=> ListTypeOK' /\ Typed'
    BY DEF TypeOK, Typed, WantedType, ListTypeOK
  <2> QED BY <2>1, <2>2, <2>3, <2>4 DEF Base
<1> QED BY <1>1, <1>2, <1>3, <1>4 DEF Scan

\* The rules in force are rules.
InForceIn(mem, head, tail) ==
  IF head # Null /\ tail # Null
  THEN {mem[n].data : n \in {m \in ToSet(ChainIn(mem, head)) : mem[m].tag = "Actn"}}
  ELSE {}

LEMMA InForceHere == InForce = InForceIn(node, start, current)
BY DEF InForce, InForceIn, Listed, Chain, ChainIn, Walk, WalkIn, Following, Follow

LEMMA InForceThere == InForce' = InForceIn(node', start', current')
BY DEF InForce, InForceIn, Listed, Chain, ChainIn, Walk, WalkIn, Following, Follow

LEMMA InForceRules ==
  ASSUME NEW mem \in [Node -> Memory], RulesIn(mem), NEW head \in Pointer, NEW tail
  PROVE  InForceIn(mem, head, tail) \subseteq Rule
<1>1. ChainIn(mem, head) \in Seq(Node)
  BY ChainType
<1>2. ToSet(ChainIn(mem, head)) \subseteq Node
  BY <1>1 DEF ToSet
<1> QED BY <1>2 DEF InForceIn, RulesIn

LEMMA InForceIsRules == Base => InForce \subseteq Rule
<1> SUFFICES ASSUME Base PROVE InForce \subseteq Rule
  OBVIOUS
<1>1. node \in [Node -> Memory] /\ RulesIn(node) /\ start \in Pointer
  BY TypedIsType DEF Base, ListTypeOK
<1> QED BY <1>1, InForceRules, InForceHere

\* The callbacks.
LEMMA HandlerBase ==
  ASSUME Base, NEW h \in Handlers, Enter(h) \/ NoWorker(h) \/ Callback(h)
  PROVE  Base'
<1>0. /\ ListTypeOK /\ RulesIn(node) /\ Typed /\ Places /\ AddersHaveRules
      /\ h \in Thread /\ h \notin Adder /\ h # Comm /\ h # Loader /\ h # Scanner
  BY Threads, TypedIsType DEF Base
<1>a. ASSUME NEW from, NEW to \in HandlerPlace, Go(h, from, to),
             \A u \in Adder : wanted'[u] = wanted[u]
      PROVE  at' \in [Thread -> Place] /\ Places' /\ AddersHaveRules'
  <2>1. CanBe(h, to)
    BY <1>0 DEF CanBe
  <2> QED BY <2>1, <1>0, <1>a, GoStep
<1>b. handle[h] \in Ask /\ asked[h] \in Ask
  BY <1>0 DEF Typed
<1>c. ASSUME NEW x \in WantedType, wanted' = [wanted EXCEPT ![h] = x]
      PROVE  wanted' \in [Thread -> WantedType] /\ \A u \in Adder : wanted'[u] = wanted[u]
  BY <1>c, <1>0, Threads DEF Typed
<1>1. CASE Enter(h)
  <2>1. at' \in [Thread -> Place] /\ Places' /\ AddersHaveRules'
    BY <1>a, <1>1 DEF Enter, adding, HandlerPlace
  <2>2. handle' \in [Handlers -> Ask] /\ asked' \in [Handlers -> Ask]
    <3>1. PICK ask \in Asks :
             handle' = [handle EXCEPT ![h] = ask] /\ asked' = [asked EXCEPT ![h] = ask]
      BY <1>1 DEF Enter
    <3>2. ask \in Ask
      BY ActionRulesAssumption
    <3> QED BY <3>1, <3>2, <1>0 DEF Typed
  <2>3. before' \in [Handlers -> SUBSET Rule]
    BY <1>0, <1>1, InForceIsRules DEF Enter, Typed
  <2>4. Typed' /\ UNCHANGED list
    BY <1>0, <1>1, <2>1, <2>2, <2>3 DEF Enter, Typed, adding, scanning, bounds
  <2> QED BY <2>1, <2>4, QuietBase
<1>2. CASE NoWorker(h)
  <2>1. at' \in [Thread -> Place] /\ Places' /\ AddersHaveRules'
    BY <1>a, <1>2 DEF NoWorker, adding, HandlerPlace
  <2>2. shortages' \in 0..MaxShort
    BY <1>0, <1>2, ActionRulesAssumption DEF NoWorker, Shortage, Typed
  <2>3. Typed' /\ UNCHANGED list
    BY <1>0, <1>2, <2>1, <2>2 DEF NoWorker, Typed, adding, scanning, handling
  <2> QED BY <2>1, <2>3, QuietBase
<1>3. CASE Hash(h)
  <2>1. PICK sha \in Image \cup {NoImage}, feature \in Feature :
           /\ image' = [image EXCEPT ![h] = sha]
           /\ wanted' = [wanted EXCEPT ![h] = Blocked(sha, feature)]
    BY <1>3 DEF Hash, Feature
  <2>2. Blocked(sha, feature) \in WantedType
    BY BlockedType
  <2>3. wanted' \in [Thread -> WantedType] /\ \A u \in Adder : wanted'[u] = wanted[u]
    BY <2>1, <2>2, <1>c
  <2>4. at' \in [Thread -> Place] /\ Places' /\ AddersHaveRules'
    BY <1>a, <1>3, <2>3 DEF Hash, HandlerPlace
  <2>5. image' \in [Handlers -> Image \cup {NoImage}]
    BY <2>1, <1>0 DEF Typed
  <2>6. Typed' /\ UNCHANGED list
    BY <1>0, <1>3, <2>3, <2>4, <2>5 DEF Hash, Typed, scanning, bounds
  <2> QED BY <2>4, <2>6, QuietBase
<1>4. CASE LookUp(h)
  <2>1. PICK from \in {"look", "search"}, to \in {"search", "skip", "mask"} : Go(h, from, to)
    BY <1>4 DEF LookUp, Glance, Find
  <2>2. UNCHANGED <<list, adding, handling, scanning, bounds, fault>>
    BY <1>4 DEF LookUp, Glance, Find
  <2>3. at' \in [Thread -> Place] /\ Places' /\ AddersHaveRules'
    BY <2>1, <2>2, <1>a DEF HandlerPlace, adding
  <2>4. actionNode' \in Pointer
    <3>1. CASE Glance(h, "look", "search", "skip")
      BY <3>1, <1>0 DEF Glance, Typed
    <3>2. CASE Find(h, "search", "mask", "skip")
      BY <3>2, FindType
    <3> QED BY <3>1, <3>2, <1>4 DEF LookUp
  <2>5. Typed' /\ UNCHANGED list
    BY <1>0, <2>2, <2>3, <2>4 DEF Typed, adding, handling, scanning, bounds
  <2> QED BY <2>3, <2>5, QuietBase
<1>5. CASE Mask(h) \/ Skip(h)
  <2>1. PICK from : Proceed(h, from)
    BY <1>5 DEF Mask, Skip
  <2>2. PICK feature \in Feature : wanted' = [wanted EXCEPT ![h].feature = feature]
    <3>1. wanted[h].feature \in Feature
      BY <1>0 DEF Typed, WantedType
    <3> QED BY <3>1, <2>1 DEF Proceed, Feature
  <2>3. wanted' \in [Thread -> WantedType] /\ \A u \in Adder : wanted'[u] = wanted[u]
    <3>1. wanted[h] \in WantedType
      BY <1>0 DEF Typed
    <3>2. [wanted[h] EXCEPT !.feature = feature] \in WantedType
      BY <3>1 DEF WantedType
    <3>3. wanted' = [wanted EXCEPT ![h] = [wanted[h] EXCEPT !.feature = feature]]
      BY <2>2
    <3> QED BY <3>2, <3>3, <1>c
  <2>4. at' \in [Thread -> Place] /\ Places' /\ AddersHaveRules'
    <3>1. PICK to \in {"look", "done"} : Go(h, from, to)
      BY <2>1 DEF Proceed
    <3> QED BY <3>1, <2>3, <1>a DEF HandlerPlace
  <2>5. handle' \in [Handlers -> Ask]
    <3>1. CASE UNCHANGED handle
      BY <3>1, <1>0 DEF Typed
    <3>2. CASE Mask(h)
      <4>1. PICK gone, lost :
               handle' = [handle EXCEPT ![h].desired = @ \ gone, ![h].original = @ \ lost]
        BY <3>2 DEF Mask
      <4>2. [handle[h] EXCEPT !.desired = @ \ gone, !.original = @ \ lost] \in Ask
        BY <1>b DEF Ask
      <4>3. handle' = [handle EXCEPT ![h] = [handle[h] EXCEPT !.desired = @ \ gone,
                                                             !.original = @ \ lost]]
        BY <4>1, <1>0 DEF Typed
      <4> QED BY <4>2, <4>3, <1>0 DEF Typed
    <3> QED BY <3>1, <3>2, <1>5 DEF Skip
  <2>6. Typed' /\ UNCHANGED list
    BY <1>0, <2>1, <2>3, <2>4, <2>5 DEF Proceed, Typed, scanning, bounds
  <2> QED BY <2>4, <2>6, QuietBase
<1>6. CASE Return(h)
  <2>1. Blocked(NoImage, "Remove") \in WantedType
    BY BlockedType DEF Feature
  <2>2. wanted' \in [Thread -> WantedType] /\ \A u \in Adder : wanted'[u] = wanted[u]
    BY <2>1, <1>c, <1>6 DEF Return
  <2>3. at' \in [Thread -> Place] /\ Places' /\ AddersHaveRules'
    BY <1>a, <1>6, <2>2 DEF Return, HandlerPlace
  <2>4. /\ handle' \in [Handlers -> Ask] /\ asked' \in [Handlers -> Ask]
        /\ image' \in [Handlers -> Image \cup {NoImage}]
        /\ before' \in [Handlers -> SUBSET Rule]
    <3>1. NoAsk \in Ask
      BY DEF NoAsk, Ask
    <3> QED BY <3>1, <1>0, <1>6 DEF Return, Typed
  <2>5. Typed' /\ UNCHANGED list
    BY <1>0, <1>6, <2>2, <2>3, <2>4 DEF Return, Typed, scanning, bounds
  <2> QED BY <2>3, <2>5, QuietBase
<1> QED BY <1>1, <1>2, <1>3, <1>4, <1>5, <1>6 DEF Callback

LEMMA StopsBase ==
  ASSUME Base, (\E t \in Thread : FollowNull(t)) \/ UNCHANGED vars
  PROVE  Base'
<1>0. Typed /\ Places /\ AddersHaveRules
  BY TypedIsType DEF Base
<1>1. /\ UNCHANGED <<list, at, actionNode, adding, handling, scanning, bounds>>
      /\ fault' \in BOOLEAN
  BY <1>0 DEF FollowNull, vars, Typed
<1>2. Typed' /\ Places' /\ AddersHaveRules'
  BY <1>0, <1>1 DEF Typed, Places, AddersHaveRules, adding, handling, scanning, bounds
<1> QED BY <1>1, <1>2, QuietBase

LEMMA BaseStep == Base /\ [Next]_vars => Base'
<1> SUFFICES ASSUME Base, [Next]_vars PROVE Base'
  OBVIOUS
<1>1. CASE Receive \/ Parse \/ TestRemoval \/ CountNodes \/ Protect
  BY <1>1, CommandBase
<1>2. CASE \E t \in Adder : Add(t)
  BY <1>2, QuietAdderBase, WritingAdderBase DEF Add
<1>3. CASE BeginScan \/ BreakOff \/ Scan
  BY <1>3, ScanBase
<1>4. CASE \E h \in Handlers : Enter(h) \/ NoWorker(h) \/ Callback(h)
  BY <1>4, HandlerBase
<1>5. CASE (\E t \in Thread : FollowNull(t)) \/ UNCHANGED vars
  BY <1>5, StopsBase
<1>6. Comm \in Adder /\ Loader \in Adder
  BY Threads
<1> QED BY <1>1, <1>2, <1>3, <1>4, <1>5, <1>6 DEF Next, Communicate

LEMMA BaseHolds == Spec => []Base
<1> QED BY BaseInit, BaseStep, PTL DEF Spec

\* The list, its users and what they know of it keep their types.
THEOREM RulesTypeCorrect == Spec => []TypeOK
<1>1. Base => TypeOK
  BY DEF Base
<1> QED BY <1>1, BaseHolds, PTL

-----------------------------------------------------------------------------
(* What holds as long as no allocation has failed and no freed memory has  *)
(* been read.                                                              *)

PointsTo(pointer, tag) ==
  pointer # Null => pointer \in pool /\ node[pointer].tag = tag /\ Leads(node, pointer)

\* The output pointers are first nodes of their sections, and are there where
\* they are followed.
Pointers ==
  /\ PointsTo(actionNode, "Actn") /\ PointsTo(output, "Dirs")
  /\ at[Scanner] = "clean" => output # Null
  /\ at[Scanner] = "scan" /\ ~isInit => output # Null
  /\ \A t \in Adder : at[t] \in {"append", "count"} => actionNode # Null

\* The features a callback is through with.
Processed(h) ==
  CASE at[h] = "done" -> Features(asked[h])
    [] at[h] \in {"look", "search", "skip", "mask"} ->
          {feature \in Features(asked[h]) : feature = "Create" /\ wanted[h].feature = "Remove"}
    [] OTHER -> {}

RuledFor(h, feature) ==
  Blocked(image[h], feature) \in before[h] /\ (feature = "Create" => asked[h].op = "CREATE")

Handling(h) ==
  /\ before[h] \subseteq InForce
  /\ at[h] # "idle" => InForce # {} /\ Features(asked[h]) # {}
  /\ at[h] \in {"idle", "hash", "stuck"} => handle[h].desired = asked[h].desired
  /\ handle[h].op = asked[h].op
  /\ asked[h].original \ {"PROCESS_CREATE_PROCESS"} \subseteq handle[h].original
  /\ asked[h].op = "CREATE" => handle[h].original = asked[h].original
  /\ at[h] \in {"look", "search", "skip", "mask"} =>
        /\ wanted[h] = Blocked(image[h], wanted[h].feature)
        /\ wanted[h].feature \in Features(asked[h])
  /\ at[h] = "mask" => wanted[h] \in InForce
  /\ at[h] = "skip" => wanted[h] \notin before[h]
  /\ \A feature \in Processed(h) :
        RuledFor(h, feature) => RightOf(feature) \notin handle[h].desired
  /\ handle[h].desired # asked[h].desired =>
        \E feature \in Features(asked[h]) : Blocked(image[h], feature) \in InForce

\* A machine that has stopped: StopsOnlyBeforeTheFirstRule.
Stops ==
  fault => \/ at[Comm] = "parse"
           \/ InForce = {} /\ \A h \in Handlers : at[h] = "idle"

\* What holds until an allocation fails or freed memory is read.
Good == ListInv /\ Pointers /\ (\A h \in Handlers : Handling(h)) /\ Stops

IInv == Base /\ (~Short => Good)

\* The rules among the nodes of a list.
RulesOf(mem, used) == {mem[n].data : n \in {m \in used : mem[m].tag = "Actn"}}

LEMMA ListingInForce ==
  ASSUME NEW mem, NEW used, NEW head, NEW tail, NEW highest,
         Listing(mem, used, head, tail, highest)
  PROVE  InForceIn(mem, head, tail) = RulesOf(mem, used)
<1>1. PICK s : Linked(s, mem, used, head, tail)
  BY DEF Listing
<1>2. /\ ToSet(ChainIn(mem, head)) = used
      /\ head = Null <=> used = {}
      /\ tail = Null <=> used = {}
  BY <1>1, ChainOfListing
<1>3. CASE used = {}
  BY <1>2, <1>3 DEF InForceIn, RulesOf
<1>4. CASE used # {}
  BY <1>2, <1>4 DEF InForceIn, RulesOf
<1> QED BY <1>3, <1>4

LEMMA InForceNow == ListInv => InForce = RulesOf(node, pool)
BY ListingInForce, InForceHere DEF ListInv

LEMMA InForceThen == ListInv' => InForce' = RulesOf(node', pool')
BY ListingInForce, InForceThere DEF ListInv

\* The nodes of rules are kept.
RulesKept ==
  \A n \in pool : node[n].tag = "Actn" =>
     /\ n \in pool' /\ node'[n].tag = "Actn" /\ node'[n].data = node[n].data
     /\ node'[n].first = node[n].first

\* A step that does nothing to the rules.
RulesAlone ==
  /\ RulesKept
  /\ \A n \in pool' : node'[n].tag = "Actn" => n \in pool /\ node[n].tag = "Actn"

LEMMA AloneInForce ==
  ASSUME ListInv, ListInv', RulesAlone
  PROVE  InForce' = InForce
<1>1. InForce = RulesOf(node, pool) /\ InForce' = RulesOf(node', pool')
  BY InForceNow, InForceThen
<1>2. RulesOf(node', pool') = RulesOf(node, pool)
  BY DEF RulesOf, RulesAlone, RulesKept
<1> QED BY <1>1, <1>2

LEMMA GrowsInForce ==
  ASSUME ListInv, ListInv', NEW rule, Grows("Actn", rule)
  PROVE  RulesKept /\ InForce' = InForce \cup {rule}
<1>1. InForce = RulesOf(node, pool) /\ InForce' = RulesOf(node', pool')
  BY InForceNow, InForceThen
<1>2. RulesOf(node', pool') = RulesOf(node, pool) \cup {rule}
  BY DEF RulesOf, Grows, Kept
<1>3. RulesKept
  BY DEF RulesKept, Grows, Kept
<1> QED BY <1>1, <1>2, <1>3

LEMMA GrowsAlone ==
  ASSUME NEW data, Grows("Dirs", data)
  PROVE  RulesAlone
BY DEF RulesAlone, RulesKept, Grows, Kept

LEMMA QuietAlone ==
  ASSUME UNCHANGED list
  PROVE  RulesAlone /\ InForce' = InForce /\ (ListInv => ListInv')
<1>1. RulesAlone /\ (ListInv => ListInv')
  BY DEF RulesAlone, RulesKept, list, ListInv
<1>2. InForce' = InForce
  <2>1. node' = node /\ start' = start /\ current' = current
    BY DEF list
  <2> QED BY <2>1, InForceHere, InForceThere
<1> QED BY <1>1, <1>2

\* The first node of a node's section.
LEMMA FirstIsFirst ==
  ASSUME ListInv, NEW n \in pool
  PROVE  node[n].first \in pool /\ node[node[n].first].tag = node[n].tag
         /\ Leads(node, node[n].first)
<1>1. PICK s : Linked(s, node, pool, start, current) /\ Sections(s, node, section)
  BY DEF ListInv, Listing
<1>2. PICK k \in 1..Len(s) : n = s[k]
  BY <1>1 DEF Linked
<1>3. PICK j \in 1..k : Leads(node, s[j]) /\ node[n].first = s[j] /\ node[s[j]].tag = node[n].tag
  BY <1>1, <1>2 DEF Sections
<1>4. Len(s) \in Nat
  BY <1>1 DEF Linked, Path
<1>5. j \in 1..Len(s)
  BY <1>2, <1>4
<1>6. s[j] \in pool
  BY <1>1, <1>5 DEF Linked
<1> QED BY <1>3, <1>6

LEMMA ListedPool ==
  ASSUME ListInv
  PROVE  /\ start = Null <=> pool = {}
         /\ current = Null <=> pool = {}
         /\ ToSet(Chain(start)) = pool
<1>1. PICK s : Linked(s, node, pool, start, current)
  BY DEF ListInv, Listing
<1> QED BY <1>1, ChainOfListing, ChainIsChainIn

\* Shortages are not forgotten.
LEMMA ShortStays ==
  ASSUME Base, [Next]_vars, ~Short'
  PROVE  ~Short /\ reused = FALSE
<1>0. shortages \in Nat /\ reused \in BOOLEAN /\ shortages' \in 0..MaxShort
  <2>1. Base'
    BY BaseStep
  <2>2. Typed /\ ListTypeOK /\ (TypeOK' => shortages' \in 0..MaxShort)
    BY TypedIsType DEF Base, TypeOK
  <2> QED BY <2>1, <2>2, ActionRulesAssumption DEF Base, Typed, ListTypeOK
<1>1. shortages' = 0 /\ reused' = FALSE
  <2>1. Base'
    BY BaseStep
  <2>2. reused' \in BOOLEAN
    BY <2>1 DEF Base, TypeOK, ListTypeOK
  <2> QED BY <2>2, <1>0 DEF Short
<1>2. ASSUME NEW short, Shortage(short) PROVE shortages <= shortages'
  BY <1>2, <1>0 DEF Shortage
<1>a. CASE Clean
  <2>1. shortages' = shortages
    BY <1>a DEF Clean, bounds
  <2>2. reused' = reused \/ reused' = TRUE
    BY <1>a DEF Clean, RemoveDirs, RemoveRefused
  <2> QED BY <2>1, <2>2, <1>0, <1>1 DEF Short
<1>b. CASE ListFile \/ \E t \in Adder : FirstRule(t) \/ AppendRule(t)
  <2>1. reused' = reused
    BY <1>b DEF ListFile, FirstRule, AppendRule
  <2>2. shortages <= shortages'
    BY <1>b, <1>2 DEF ListFile, FirstRule, AppendRule
  <2> QED BY <2>1, <2>2, <1>0, <1>1 DEF Short
<1>c. CASE \E h \in Handlers : NoWorker(h)
  <2>1. reused' = reused
    BY <1>c DEF NoWorker, list
  <2>2. shortages <= shortages'
    BY <1>c, <1>2 DEF NoWorker
  <2> QED BY <2>1, <2>2, <1>0, <1>1 DEF Short
<1>d. CASE UNCHANGED <<list, shortages>>
  BY <1>d, <1>1 DEF Short, list
<1>3. CASE Receive \/ Parse \/ TestRemoval \/ CountNodes \/ Protect
  BY <1>3, <1>d DEF Receive, Parse, TestRemoval, CountNodes, Protect, bounds
<1>4. CASE \E t \in Adder : LookFirst(t) \/ LookAgain(t) \/ TestPointer(t)
  BY <1>4, <1>d DEF LookFirst, LookAgain, TestPointer, Glance, Find, bounds
<1>5. CASE BeginScan \/ BreakOff \/ EndList
  BY <1>5, <1>d DEF BeginScan, BreakOff, EndList, bounds
<1>6. CASE \E h \in Handlers : Enter(h) \/ Callback(h)
  BY <1>6, <1>d DEF Enter, Callback, Hash, LookUp, Glance, Find, Mask, Skip, Proceed, Return,
     bounds
<1>7. CASE (\E t \in Thread : FollowNull(t)) \/ UNCHANGED vars
  BY <1>7, <1>d DEF FollowNull, vars, bounds
<1>8. Comm \in Adder /\ Loader \in Adder
  BY Threads
<1> QED BY <1>a, <1>b, <1>c, <1>3, <1>4, <1>5, <1>6, <1>7, <1>8
        DEF Next, Communicate, Add, Scan

LEMMA EnoughMemory ==
  ASSUME Base, NEW short \in BOOLEAN, Shortage(short), ~Short'
  PROVE  short = FALSE
<1>1. shortages \in Nat
  BY TypedIsType, ActionRulesAssumption DEF Base, Typed
<1>2. ~(shortages' > 0)
  BY DEF Short
<1> QED BY <1>1, <1>2 DEF Shortage

LEMMA FirstRuleStep ==
  ASSUME Base, Good, NEW t \in Adder, FirstRule(t), ~Short'
  PROVE  /\ ListInv' /\ Grows("Actn", wanted[t]) /\ wanted[t] \in Rule
         /\ PointsTo(actionNode, "Actn")'
<1>0. ListTypeOK /\ Typed /\ Places /\ AddersHaveRules /\ ListInv /\ "Actn" \in Tag
  BY TypedIsType DEF Base, Good, Tag
<1>1. wanted[t] \in Rule
  BY <1>0 DEF FirstRule, Go, Is, AddersHaveRules
<1>2. PICK short \in BOOLEAN : Shortage(short) /\ NewSection("Actn", wanted[t], short)
  BY DEF FirstRule
<1>3. short = FALSE
  BY <1>2, EnoughMemory
<1>4. ListInv' /\ Grows("Actn", wanted[t]) /\ Leads(node', current')
  BY <1>0, <1>1, <1>2, <1>3, NewSectionStep, RulesAreContents
<1>5. actionNode' = current'
  BY DEF FirstRule
<1> QED BY <1>1, <1>4, <1>5 DEF PointsTo, Grows, Leads

LEMMA AppendRuleStep ==
  ASSUME Base, Good, NEW t \in Adder, AppendRule(t), ~Short'
  PROVE  ListInv' /\ Grows("Actn", wanted[t]) /\ wanted[t] \in Rule
<1>0. /\ ListTypeOK /\ Typed /\ Places /\ AddersHaveRules /\ ListInv /\ "Actn" \in Tag
      /\ PointsTo(actionNode, "Actn") /\ actionNode # Null
  BY TypedIsType DEF Base, Good, Tag, Pointers, AppendRule
<1>1. wanted[t] \in Rule
  BY <1>0 DEF AppendRule, Go, Is, AddersHaveRules
<1>2. PICK short \in BOOLEAN :
         Shortage(short) /\ ToSection("Actn", wanted[t], actionNode, short)
  BY DEF AppendRule
<1>3. short = FALSE
  BY <1>2, EnoughMemory
<1>4. actionNode \in pool /\ node[actionNode].tag = "Actn" /\ Leads(node, actionNode)
  BY <1>0 DEF PointsTo
<1> QED BY <1>0, <1>1, <1>2, <1>3, <1>4, ToSectionStep, RulesAreContents

LEMMA ListFileStep ==
  ASSUME Base, Good, ListFile, ~Short'
  PROVE  ListInv' /\ Grows("Dirs", Head(unlisted)) /\ PointsTo(output, "Dirs")' /\ output' # Null
<1>0. /\ ListTypeOK /\ Typed /\ ListInv /\ "Dirs" \in Tag /\ PointsTo(output, "Dirs")
      /\ unlisted # <<>>
  BY TypedIsType DEF Base, Good, Tag, Pointers, ListFile
<1>1. Head(unlisted) \in Contents
  <2>1. unlisted \in Seq(ToSet(Files))
    BY <1>0 DEF Typed
  <2> QED BY <2>1, <1>0, RulesAreContents
<1>2. PICK short \in BOOLEAN :
        /\ Shortage(short)
        /\ \/ isInit /\ NewSection("Dirs", Head(unlisted), short)
           \/ ~isInit /\ output # Null /\ ToSection("Dirs", Head(unlisted), output, short)
  BY DEF ListFile
<1>3. short = FALSE
  BY <1>2, EnoughMemory
<1>4. CASE isInit /\ NewSection("Dirs", Head(unlisted), short)
  <2>1. ListInv' /\ Grows("Dirs", Head(unlisted)) /\ Leads(node', current')
    BY <1>0, <1>1, <1>3, <1>4, NewSectionStep
  <2>2. output' = current'
    BY <1>4 DEF ListFile
  <2>3. current' # Null
    BY <2>1, ParallelListAssumption DEF Grows
  <2> QED BY <2>1, <2>2, <2>3 DEF PointsTo, Grows, Leads
<1>5. CASE ~isInit /\ output # Null /\ ToSection("Dirs", Head(unlisted), output, short)
  <2>1. output \in pool /\ node[output].tag = "Dirs" /\ Leads(node, output)
    BY <1>0, <1>5 DEF PointsTo
  <2>2. ListInv' /\ Grows("Dirs", Head(unlisted))
    BY <1>0, <1>1, <1>3, <1>5, <2>1, ToSectionStep
  <2>3. output' = output
    BY <1>5 DEF ListFile
  <2> QED BY <1>5, <2>1, <2>2, <2>3 DEF PointsTo, Grows, Kept, Leads
<1> QED BY <1>2, <1>4, <1>5

LEMMA CleanStep ==
  ASSUME Base, Good, Clean, ~Short', ~Short, reused = FALSE
  PROVE  ListInv' /\ RulesAlone
<1>0. /\ ListTypeOK /\ ListInv /\ PointsTo(output, "Dirs")
      /\ at[Scanner] = "clean" => output # Null
  BY TypedIsType DEF Base, Good, Pointers
<1>1. output # Null
  BY <1>0 DEF Clean, Go, Is
<1>2. output \in pool /\ node[output].tag = "Dirs"
  BY <1>0, <1>1 DEF PointsTo
<1>3. current # Null
  BY <1>0, <1>2, ListedPool
<1>4. RemoveDirs
  BY <1>3 DEF Clean
<1>5. UNCHANGED reused
  BY <1>4 DEF RemoveDirs, Short
<1>6. /\ ListInv'
      /\ pool' = {n \in pool : node[n].tag # "Dirs"}
      /\ Kept(node, node', pool')
  BY <1>0, <1>2, <1>4, <1>5, RemoveDirsStep
<1>7. RulesAlone
  BY <1>6 DEF RulesAlone, RulesKept, Kept
<1> QED BY <1>6, <1>7

\* A look-up tells whether the rule is in force, and points to the first node
\* of its section.
LEMMA FindStep ==
  ASSUME Base, Good, NEW t, NEW from, NEW found, NEW missing, Find(t, from, found, missing)
  PROVE  /\ PointsTo(actionNode, "Actn")' /\ (actionNode # Null => actionNode' # Null)
         /\ \/ Go(t, from, found) /\ wanted[t] \in InForce
            \/ Go(t, from, missing) /\ wanted[t] \notin InForce
<1>0. ListTypeOK /\ ListInv /\ PointsTo(actionNode, "Actn")
  BY TypedIsType DEF Base, Good, Pointers
<1>1. ToSet(Chain(start)) = pool /\ InForce = RulesOf(node, pool)
  BY <1>0, ListedPool, InForceNow
<1>2. /\ UNCHANGED <<node, pool>>
      /\ \/ NodeWith("Actn", wanted[t]) # Null /\ Go(t, from, found)
            /\ actionNode' = node[NodeWith("Actn", wanted[t])].first
         \/ NodeWith("Actn", wanted[t]) = Null /\ Go(t, from, missing)
            /\ actionNode' = actionNode
  BY DEF Find, list
<1>3. CASE NodeWith("Actn", wanted[t]) = Null
  <2>1. \A n \in pool : ~(node[n].tag = "Actn" /\ node[n].data = wanted[t])
    BY <1>0, <1>1, <1>3, NodeWithFinds, ParallelListAssumption
  <2>2. wanted[t] \notin InForce
    BY <1>1, <2>1 DEF RulesOf
  <2> QED BY <1>0, <1>2, <1>3, <2>2 DEF PointsTo, Leads
<1>4. CASE NodeWith("Actn", wanted[t]) # Null
  <2>1. PICK n \in pool : /\ n = NodeWith("Actn", wanted[t])
                          /\ node[n].tag = "Actn" /\ node[n].data = wanted[t]
    BY <1>0, <1>1, <1>4, NodeWithFinds
  <2>2. wanted[t] \in InForce
    BY <1>1, <2>1 DEF RulesOf
  <2>3. /\ node[n].first \in pool /\ node[node[n].first].tag = "Actn"
        /\ Leads(node, node[n].first)
    BY <1>0, <2>1, FirstIsFirst
  <2>4. node[n].first # Null
    BY <2>3, <1>0, ParallelListAssumption DEF ListTypeOK
  <2> QED BY <1>2, <1>4, <2>1, <2>2, <2>3, <2>4 DEF PointsTo, Leads
<1> QED BY <1>3, <1>4

LEMMA ActionNodeKept ==
  ASSUME PointsTo(actionNode, "Actn"), UNCHANGED actionNode, RulesKept
  PROVE  PointsTo(actionNode, "Actn")'
BY DEF PointsTo, RulesKept, Leads

LEMMA OutputKept ==
  ASSUME PointsTo(output, "Dirs"), UNCHANGED output,
         \/ UNCHANGED <<node, pool>>
         \/ Kept(node, node', pool) /\ pool \subseteq pool'
  PROVE  PointsTo(output, "Dirs")'
BY DEF PointsTo, Kept, Leads

LEMMA PointersFrom ==
  ASSUME Pointers, PointsTo(actionNode, "Actn")', PointsTo(output, "Dirs")',
         actionNode # Null => actionNode' # Null,
         \/ at'[Scanner] = at[Scanner] /\ UNCHANGED <<output, isInit>>
         \/ output' # Null
         \/ at'[Scanner] = "idle"
         \/ at'[Scanner] = "scan" /\ isInit',
         \A t \in Adder : at'[t] \in {"append", "count"} =>
            at'[t] = at[t] \/ actionNode # Null
  PROVE  Pointers'
BY DEF Pointers

LEMMA PointersStep ==
  ASSUME Base, Good, [Next]_vars, ~Short'
  PROVE  Pointers'
<1>0. /\ Typed /\ PointsTo(actionNode, "Actn") /\ PointsTo(output, "Dirs") /\ ListInv
      /\ Pointers
      /\ Comm # Loader /\ Comm # Scanner /\ Loader # Scanner
      /\ Comm \notin Handlers /\ Loader \notin Handlers /\ Scanner \notin Handlers
      /\ Comm \in Thread /\ Loader \in Thread /\ Scanner \in Thread /\ Handlers \subseteq Thread
      /\ Adder = {Comm, Loader}
  BY Threads, TypedIsType DEF Base, Good, Pointers
<1>1. ASSUME NEW t \in Thread, NEW from, NEW to, Go(t, from, to)
      PROVE  at'[t] = to /\ \A u \in Thread : u # t => at'[u] = at[u]
  BY <1>0, <1>1 DEF Go, Typed
<1>2. ASSUME UNCHANGED list, UNCHANGED actionNode
      PROVE  PointsTo(actionNode, "Actn")'
  BY <1>0, <1>2, QuietAlone, ActionNodeKept DEF RulesAlone
<1>3. ASSUME UNCHANGED list, UNCHANGED scanning
      PROVE  PointsTo(output, "Dirs")' /\ UNCHANGED <<output, isInit>>
  BY <1>0, <1>3, OutputKept DEF list, scanning
<1>4. CASE Receive \/ Parse \/ TestRemoval \/ CountNodes \/ Protect
  <2>1. UNCHANGED list /\ UNCHANGED actionNode /\ UNCHANGED scanning
    BY <1>4 DEF Receive, Parse, TestRemoval, CountNodes, Protect
  <2> DEFINE Went(t, from, to) ==
        /\ Go(t, from, to)
        /\ to \in {"append", "count"} => (TestRemoval /\ t = Comm) \/ to = from
  <2>w. PICK t \in Adder : \E from, to : Went(t, from, to)
    BY <1>4, <1>0 DEF Receive, Parse, TestRemoval, CountNodes, Protect
  <2>2. PICK from, to : Went(t, from, to)
    BY <2>w
  <2>3. \A u \in Adder : at'[u] \in {"append", "count"} => at'[u] = at[u] \/ actionNode # Null
    <3>1. ASSUME TestRemoval, at'[Comm] = "count" PROVE actionNode # Null
      BY <3>1, <1>0, <1>1 DEF TestRemoval
    <3>2. ASSUME TestRemoval PROVE at'[Comm] # "append"
      BY <3>2, <1>0, <1>1 DEF TestRemoval
    <3>3. at[t] = from
      BY <2>2 DEF Go, Is
    <3> QED BY <3>1, <3>2, <3>3, <2>2, <1>0, <1>1
  <2>4. at'[Scanner] = at[Scanner]
    BY <2>2, <1>0, <1>1
  <2> QED BY <2>1, <2>3, <2>4, <1>0, <1>2, <1>3, PointersFrom
<1>5. CASE \E t \in Adder : LookFirst(t) \/ LookAgain(t) \/ TestPointer(t)
  <2>1. PICK t \in Adder : LookFirst(t) \/ LookAgain(t) \/ TestPointer(t)
    BY <1>5
  <2>2. /\ UNCHANGED list /\ UNCHANGED scanning
        /\ PointsTo(actionNode, "Actn")' /\ (actionNode # Null => actionNode' # Null)
    <3>1. \/ \E from, search, missing : Glance(t, from, search, missing)
          \/ \E from, found, missing : Find(t, from, found, missing)
          \/ TestPointer(t)
      BY <2>1 DEF LookFirst, LookAgain
    <3>2. CASE \E from, found, missing : Find(t, from, found, missing)
      BY <3>2, FindStep DEF Find
    <3>3. CASE (\E from, search, missing : Glance(t, from, search, missing)) \/ TestPointer(t)
      <4>1. UNCHANGED list /\ UNCHANGED scanning /\ UNCHANGED actionNode
        BY <3>3 DEF Glance, TestPointer
      <4> QED BY <4>1, <1>2
    <3> QED BY <3>1, <3>2, <3>3
  <2>3. PICK from, to : Go(t, from, to) /\ (to \in {"append", "count"} => actionNode # Null)
    BY <2>1 DEF LookFirst, LookAgain, TestPointer, Glance, Find, Finished
  <2>4. at'[Scanner] = at[Scanner]
        /\ \A u \in Adder : at'[u] \in {"append", "count"} => at'[u] = at[u] \/ actionNode # Null
    BY <2>3, <1>0, <1>1
  <2> QED BY <2>2, <2>4, <1>0, <1>3, PointersFrom
<1>6. CASE BeginScan \/ BreakOff \/ EndList
  <2>1. UNCHANGED list /\ UNCHANGED actionNode
    BY <1>6 DEF BeginScan, BreakOff, EndList
  <2>2. PICK from, to : Go(Scanner, from, to)
    BY <1>6 DEF BeginScan, BreakOff, EndList
  <2>3. \A u \in Adder : at'[u] = at[u]
    BY <2>2, <1>0, <1>1
  <2>4. PointsTo(output, "Dirs")'
    <3>1. CASE output' = Null
      BY <3>1 DEF PointsTo
    <3>2. CASE EndList
      BY <3>2, <1>3 DEF EndList
    <3> QED BY <3>1, <3>2, <1>6 DEF BeginScan, BreakOff
  <2>5. \/ output' # Null
        \/ at'[Scanner] = "idle"
        \/ at'[Scanner] = "scan" /\ isInit'
    BY <1>0, <1>1, <1>6 DEF BeginScan, BreakOff, EndList, scanning
  <2> QED BY <2>1, <2>3, <2>4, <2>5, <1>0, <1>2, PointersFrom
<1>7. CASE \E h \in Handlers : Enter(h) \/ NoWorker(h) \/ Callback(h)
  <2>1. PICK h \in Handlers : Enter(h) \/ NoWorker(h) \/ Callback(h)
    BY <1>7
  <2>2. /\ UNCHANGED list /\ UNCHANGED scanning
        /\ PointsTo(actionNode, "Actn")' /\ (actionNode # Null => actionNode' # Null)
    <3>1. CASE Find(h, "search", "mask", "skip")
      BY <3>1, FindStep DEF Find
    <3>2. CASE Enter(h) \/ NoWorker(h) \/ Hash(h) \/ Glance(h, "look", "search", "skip")
               \/ Mask(h) \/ Skip(h) \/ Return(h)
      <4>1. UNCHANGED list /\ UNCHANGED scanning /\ UNCHANGED actionNode
        BY <3>2 DEF Enter, NoWorker, Hash, Glance, Mask, Skip, Proceed, Return
      <4> QED BY <4>1, <1>2
    <3> QED BY <2>1, <3>1, <3>2 DEF Callback, LookUp
  <2>3. PICK from, to : Go(h, from, to)
    BY <2>1 DEF Enter, NoWorker, Callback, Hash, LookUp, Glance, Find, Mask, Skip, Proceed, Return
  <2>4. at'[Scanner] = at[Scanner] /\ \A u \in Adder : at'[u] = at[u]
    BY <2>3, <1>0, <1>1
  <2> QED BY <2>2, <2>4, <1>0, <1>3, PointersFrom
<1>8. CASE (\E t \in Thread : FollowNull(t)) \/ UNCHANGED vars
  <2>1. UNCHANGED list /\ UNCHANGED scanning /\ UNCHANGED actionNode /\ UNCHANGED at
    BY <1>8 DEF FollowNull, vars
  <2> QED BY <2>1, <1>0, <1>2, <1>3, PointersFrom
<1>9. CASE \E t \in Adder : FirstRule(t) \/ AppendRule(t)
  <2>1. PICK t \in Adder : FirstRule(t) \/ AppendRule(t)
    BY <1>9
  <2>2. ListInv' /\ Grows("Actn", wanted[t])
    BY <2>1, FirstRuleStep, AppendRuleStep
  <2>3. RulesKept
    BY <2>2, <1>0, GrowsInForce
  <2>4. PointsTo(actionNode, "Actn")' /\ (actionNode # Null => actionNode' # Null)
    <3>1. CASE FirstRule(t)
      <4>1. PointsTo(actionNode, "Actn")'
        BY <3>1, FirstRuleStep
      <4>2. actionNode' = current' /\ current' \in Node
        BY <2>2, <3>1 DEF FirstRule, Grows
      <4> QED BY <4>1, <4>2, ParallelListAssumption
    <3>2. CASE AppendRule(t)
      BY <3>2, <2>3, <1>0, ActionNodeKept DEF AppendRule
    <3> QED BY <2>1, <3>1, <3>2
  <2>5. PointsTo(output, "Dirs")' /\ UNCHANGED <<output, isInit>>
    <3>1. UNCHANGED <<output, isInit>>
      BY <2>1 DEF FirstRule, AppendRule, scanning
    <3> QED BY <3>1, <2>2, <1>0, OutputKept DEF Grows
  <2>6. PICK from : Go(t, from, Finished(t))
    BY <2>1 DEF FirstRule, AppendRule
  <2>7. at'[Scanner] = at[Scanner]
        /\ \A u \in Adder : at'[u] \in {"append", "count"} => at'[u] = at[u]
    BY <2>6, <1>0, <1>1 DEF Finished
  <2> QED BY <2>4, <2>5, <2>7, <1>0, PointersFrom
<1>10. CASE ListFile
  <2>1. /\ ListInv' /\ Grows("Dirs", Head(unlisted))
        /\ PointsTo(output, "Dirs")' /\ output' # Null
    BY <1>10, ListFileStep
  <2>2. UNCHANGED actionNode /\ UNCHANGED at
    BY <1>10 DEF ListFile
  <2>3. PointsTo(actionNode, "Actn")'
    BY <2>1, <2>2, <1>0, GrowsAlone, ActionNodeKept DEF RulesAlone
  <2> QED BY <2>1, <2>2, <2>3, <1>0, PointersFrom
<1>11. CASE Clean
  <2>1. ListInv' /\ RulesAlone
    BY <1>11, CleanStep, ShortStays
  <2>2. UNCHANGED actionNode /\ output' = Null
    BY <1>11 DEF Clean
  <2>3. PointsTo(actionNode, "Actn")' /\ PointsTo(output, "Dirs")'
    BY <2>1, <2>2, <1>0, ActionNodeKept DEF RulesAlone, PointsTo
  <2>4. at'[Scanner] = "idle" /\ \A u \in Adder : at'[u] = at[u]
    BY <1>0, <1>1, <1>11 DEF Clean
  <2> QED BY <2>2, <2>3, <2>4, <1>0, PointersFrom
<1> QED BY <1>0, <1>4, <1>5, <1>6, <1>7, <1>8, <1>9, <1>10, <1>11
        DEF Next, Communicate, Add, Scan

\* The steps that write to the list are those of four operations.
LEMMA WhoWrites ==
  [Next]_vars => \/ UNCHANGED list
                 \/ \E t \in Adder : FirstRule(t) \/ AppendRule(t)
                 \/ ListFile \/ Clean
<1> SUFFICES ASSUME [Next]_vars
             PROVE  \/ UNCHANGED list
                    \/ \E t \in Adder : FirstRule(t) \/ AppendRule(t)
                    \/ ListFile \/ Clean
  OBVIOUS
<1>1. CASE Receive \/ Parse \/ TestRemoval \/ CountNodes \/ Protect
  BY <1>1 DEF Receive, Parse, TestRemoval, CountNodes, Protect
<1>2. CASE \E t \in Adder : LookFirst(t) \/ LookAgain(t) \/ TestPointer(t)
  BY <1>2 DEF LookFirst, LookAgain, TestPointer, Glance, Find
<1>3. CASE BeginScan \/ BreakOff \/ EndList
  BY <1>3 DEF BeginScan, BreakOff, EndList
<1>4. CASE \E h \in Handlers : Enter(h) \/ NoWorker(h) \/ Callback(h)
  BY <1>4 DEF Enter, NoWorker, Callback, Hash, LookUp, Glance, Find, Mask, Skip, Proceed, Return
<1>5. CASE (\E t \in Thread : FollowNull(t)) \/ UNCHANGED vars
  BY <1>5 DEF FollowNull, vars
<1>6. Comm \in Adder /\ Loader \in Adder
  BY Threads
<1> QED BY <1>1, <1>2, <1>3, <1>4, <1>5, <1>6 DEF Next, Communicate, Add, Scan

LEMMA ListStep ==
  ASSUME Base, Good, [Next]_vars, ~Short'
  PROVE  /\ ListInv'
         /\ InForce' = InForce \/ \E rule \in Rule : InForce' = InForce \cup {rule}
<1>0. ListInv
  BY DEF Good
<1>1. CASE UNCHANGED list
  BY <1>0, <1>1, QuietAlone
<1>2. CASE \E t \in Adder : FirstRule(t) \/ AppendRule(t)
  BY <1>0, <1>2, FirstRuleStep, AppendRuleStep, GrowsInForce
<1>3. CASE ListFile
  BY <1>0, <1>3, ListFileStep, GrowsAlone, AloneInForce
<1>4. CASE Clean
  BY <1>0, <1>4, CleanStep, ShortStays, AloneInForce
<1> QED BY <1>1, <1>2, <1>3, <1>4, WhoWrites

\* What a callback knows stays true while others act.
LEMMA HandlingKept ==
  ASSUME NEW h \in Handlers, Handling(h), InForce \subseteq InForce',
         at'[h] = at[h], wanted'[h] = wanted[h], handle'[h] = handle[h],
         asked'[h] = asked[h], image'[h] = image[h], before'[h] = before[h]
  PROVE  Handling(h)'
<1>1. Processed(h)' = Processed(h)
  BY DEF Processed
<1>2. \A feature : RuledFor(h, feature)' <=> RuledFor(h, feature)
  BY DEF RuledFor
<1>3. Features(asked[h])' = Features(asked[h])
  OBVIOUS
<1> QED BY <1>1, <1>2, <1>3 DEF Handling

\* A callback begins: the list has a rule, for actionNode points to one.
LEMMA EnterStep ==
  ASSUME Base, Good, NEW h \in Handlers, Enter(h)
  PROVE  Handling(h)'
<1>0. Typed /\ ListInv /\ PointsTo(actionNode, "Actn") /\ h \in Thread
  BY TypedIsType, Threads DEF Base, Good, Pointers
<1>1. InForce' = InForce
  BY QuietAlone DEF Enter
<1>2. PICK ask \in Asks :
         /\ Features(ask) # {}
         /\ handle' = [handle EXCEPT ![h] = ask] /\ asked' = [asked EXCEPT ![h] = ask]
  BY DEF Enter
<1>3. /\ handle'[h] = ask /\ asked'[h] = ask /\ before'[h] = InForce
      /\ at'[h] = "hash"
  BY <1>0, <1>2 DEF Enter, Go, Is, Typed
<1>4. InForce # {}
  <2>1. actionNode \in pool /\ node[actionNode].tag = "Actn"
    BY <1>0 DEF PointsTo, Enter
  <2>2. node[actionNode].data \in InForce
    BY <1>0, <2>1, InForceNow DEF RulesOf
  <2> QED BY <2>2
<1>5. Processed(h)' = {}
  BY <1>3 DEF Processed
<1> QED BY <1>1, <1>2, <1>3, <1>4, <1>5 DEF Handling

LEMMA HashStep ==
  ASSUME Base, NEW h \in Handlers, Handling(h), Hash(h)
  PROVE  Handling(h)'
<1>0. Typed /\ h \in Thread
  BY TypedIsType, Threads DEF Base
<1>1. InForce' = InForce
  BY QuietAlone DEF Hash
<1>2. PICK sha \in Image \cup {NoImage} :
         /\ image' = [image EXCEPT ![h] = sha]
         /\ wanted' = [wanted EXCEPT ![h] =
                 Blocked(sha, IF "Create" \in Features(asked[h]) THEN "Create" ELSE "Remove")]
  BY DEF Hash
<1>3. /\ at[h] = "hash" /\ at'[h] = "look" /\ image'[h] = sha
      /\ handle'[h] = handle[h] /\ asked'[h] = asked[h] /\ before'[h] = before[h]
      /\ wanted'[h] = Blocked(sha, IF "Create" \in Features(asked[h]) THEN "Create" ELSE "Remove")
  BY <1>0, <1>2 DEF Hash, Go, Is, Typed
<1>4. Features(asked[h]) # {} /\ handle[h].desired = asked[h].desired
  BY <1>3 DEF Handling
<1>5. /\ wanted'[h].feature \in Features(asked[h])
      /\ wanted'[h] = Blocked(sha, wanted'[h].feature)
      /\ wanted'[h].feature = "Remove" => "Create" \notin Features(asked[h])
  <2>1. Features(asked[h]) \subseteq {"Create", "Remove"}
    BY DEF Features, Feature
  <2> QED BY <2>1, <1>3, <1>4 DEF Blocked
<1>6. Processed(h)' = {}
  BY <1>3, <1>5 DEF Processed
<1> QED BY <1>1, <1>3, <1>4, <1>5, <1>6 DEF Handling

LEMMA LookUpStep ==
  ASSUME Base, Good, NEW h \in Handlers, LookUp(h)
  PROVE  Handling(h)'
<1>0. Typed /\ h \in Thread /\ Handling(h)
  BY TypedIsType, Threads DEF Base, Good
<1>1. /\ UNCHANGED list
      /\ wanted' = wanted /\ handle' = handle /\ asked' = asked /\ image' = image
      /\ before' = before
  BY DEF LookUp, Glance, Find, adding, handling
<1>2. InForce' = InForce
  BY <1>1, QuietAlone
<1>3. /\ at[h] \in {"look", "search"} /\ at'[h] \in {"search", "skip", "mask"}
      /\ at'[h] = "mask" => wanted[h] \in InForce
      /\ at'[h] = "skip" => wanted[h] \notin InForce
  <2>1. CASE Glance(h, "look", "search", "skip")
    <3>1. at[h] = "look" /\ at'[h] = IF Listed THEN "search" ELSE "skip"
      BY <2>1, <1>0 DEF Glance, Go, Is, Typed
    <3>2. ~Listed => InForce = {}
      BY DEF InForce
    <3> QED BY <3>1, <3>2
  <2>2. CASE Find(h, "search", "mask", "skip")
    <3>1. \/ Go(h, "search", "mask") /\ wanted[h] \in InForce
          \/ Go(h, "search", "skip") /\ wanted[h] \notin InForce
      BY <2>2, FindStep
    <3> QED BY <3>1, <1>0 DEF Go, Is, Typed
  <2> QED BY <2>1, <2>2 DEF LookUp
<1>4. Processed(h)' = Processed(h)
  BY <1>1, <1>3 DEF Processed
<1>5. \A feature : RuledFor(h, feature)' <=> RuledFor(h, feature)
  BY <1>1 DEF RuledFor
<1>6. before[h] \subseteq InForce
  BY <1>0 DEF Handling
<1>7. Features(asked[h])' = Features(asked[h])
  BY <1>1
<1> QED BY <1>0, <1>1, <1>2, <1>3, <1>4, <1>5, <1>6, <1>7 DEF Handling

\* The rule about the second feature differs from the first in the feature.
LEMMA BlockedFeature ==
  ASSUME NEW x, NEW g, NEW g2
  PROVE  [Blocked(x, g) EXCEPT !.feature = g2] = Blocked(x, g2)
<1>1. ASSUME NEW b
      PROVE  [[block |-> b, sha |-> x, feature |-> g] EXCEPT !.feature = g2]
               = [block |-> b, sha |-> x, feature |-> g2]
  OBVIOUS
<1>2. [[block |-> TRUE, sha |-> x, feature |-> g] EXCEPT !.feature = g2]
        = [block |-> TRUE, sha |-> x, feature |-> g2]
  BY ONLY <1>1, Zenon
<1> QED BY ONLY <1>2, Zenon DEF Blocked

\* One feature is done with: its right is gone if it should.
LEMMA ProceedStep ==
  ASSUME Base, NEW h \in Handlers, Handling(h), NEW from \in {"mask", "skip"}, Proceed(h, from),
         handle'[h].op = asked[h].op,
         asked[h].original \ {"PROCESS_CREATE_PROCESS"} \subseteq handle'[h].original,
         asked[h].op = "CREATE" => handle'[h].original = asked[h].original,
         handle'[h].desired \subseteq handle[h].desired,
         RuledFor(h, wanted[h].feature) => RightOf(wanted[h].feature) \notin handle'[h].desired,
         handle'[h].desired # asked[h].desired =>
            \E feature \in Features(asked[h]) : Blocked(image[h], feature) \in InForce
  PROVE  Handling(h)'
<1>0. Typed /\ h \in Thread
  BY TypedIsType, Threads DEF Base
<1> DEFINE f == wanted[h].feature
           more == f = "Create" /\ "Remove" \in Features(asked[h])
<1>1. /\ UNCHANGED list
      /\ asked' = asked /\ image' = image /\ before' = before
      /\ wanted' = [wanted EXCEPT ![h].feature = IF more THEN "Remove" ELSE @]
      /\ Go(h, from, IF more THEN "look" ELSE "done")
  BY DEF Proceed
<1>2. InForce' = InForce
  BY <1>1, QuietAlone
<1>3. at[h] = from /\ at'[h] = IF more THEN "look" ELSE "done"
  BY <1>0, <1>1 DEF Go, Is, Typed
<1>4. wanted[h] \in WantedType /\ wanted[h] = Blocked(image[h], f) /\ f \in Features(asked[h])
  BY <1>0, <1>3 DEF Typed, Handling
<1>5. more => wanted'[h] = Blocked(image[h], "Remove") /\ wanted'[h].feature = "Remove"
  <2>1. more => wanted'[h] = [wanted[h] EXCEPT !.feature = "Remove"]
    BY <1>0, <1>1 DEF Typed
  <2> HIDE DEF more, f
  <2>2. [wanted[h] EXCEPT !.feature = "Remove"] = Blocked(image[h], "Remove")
    BY <1>4, BlockedFeature
  <2>3. Blocked(image[h], "Remove").feature = "Remove"
    BY DEF Blocked
  <2> QED BY <2>1, <2>2, <2>3
<1>6. Features(asked[h]) \subseteq {"Create", "Remove"}
  BY DEF Features, Feature
<1>7. ASSUME NEW feature \in Processed(h)' PROVE feature = f \/ feature \in Processed(h)
  <2>1. CASE more
    <3>1. feature = "Create"
      BY <2>1, <1>3, <1>7, <1>1 DEF Processed
    <3> QED BY <3>1, <2>1
  <2>2. CASE ~more
    <3>1. feature \in Features(asked[h])
      BY <2>2, <1>3, <1>7, <1>1 DEF Processed
    <3>2. CASE f = "Create"
      BY <3>1, <3>2, <2>2, <1>6
    <3>3. CASE f = "Remove"
      <4>1. Processed(h) = {g \in Features(asked[h]) : g = "Create"}
        BY <3>3, <1>3 DEF Processed
      <4> QED BY <3>1, <3>3, <4>1, <1>6
    <3> QED BY <3>2, <3>3, <1>4, <1>6
  <2> QED BY <2>1, <2>2
<1>8. \A feature : RuledFor(h, feature)' <=> RuledFor(h, feature)
  BY <1>1 DEF RuledFor
<1>9. \A feature \in Processed(h) :
        RuledFor(h, feature) => RightOf(feature) \notin handle[h].desired
  BY DEF Handling
<1>10. \A feature \in Processed(h)' :
         RuledFor(h, feature)' => RightOf(feature) \notin handle'[h].desired
  BY <1>7, <1>8, <1>9
<1>11. Features(asked[h])' = Features(asked[h])
  BY <1>1
<1>12. at'[h] \in {"look", "done"} /\ (at'[h] = "look" => more)
  BY <1>3
<1>13. before[h] \subseteq InForce /\ InForce # {} /\ Features(asked[h]) # {}
  BY <1>3 DEF Handling
<1>14. more => "Remove" \in Features(asked[h])
  OBVIOUS
<1> HIDE DEF f, more
<1> QED BY <1>1, <1>2, <1>5, <1>10, <1>11, <1>12, <1>13, <1>14 DEF Handling

LEMMA SkipStep ==
  ASSUME Base, NEW h \in Handlers, Handling(h), Skip(h)
  PROVE  Handling(h)'
<1>1. Proceed(h, "skip") /\ handle' = handle /\ at[h] = "skip"
  BY DEF Skip, Proceed, Go, Is
<1>2. /\ handle[h].op = asked[h].op
      /\ asked[h].original \ {"PROCESS_CREATE_PROCESS"} \subseteq handle[h].original
      /\ asked[h].op = "CREATE" => handle[h].original = asked[h].original
      /\ wanted[h] = Blocked(image[h], wanted[h].feature) /\ wanted[h] \notin before[h]
      /\ handle[h].desired # asked[h].desired =>
           \E feature \in Features(asked[h]) : Blocked(image[h], feature) \in InForce
  BY <1>1 DEF Handling
<1>3. ~RuledFor(h, wanted[h].feature)
  BY <1>2 DEF RuledFor
<1> QED BY <1>1, <1>2, <1>3, ProceedStep

LEMMA MaskStep ==
  ASSUME Base, NEW h \in Handlers, Handling(h), Mask(h)
  PROVE  Handling(h)'
<1>0. Typed /\ handle[h] \in Ask /\ asked[h] \in Ask /\ wanted[h] \in WantedType
  BY TypedIsType, Threads DEF Base, Typed
<1> DEFINE f == wanted[h].feature
           masked == Masked(handle[h].op, f)
<1>1. Proceed(h, "mask") /\ at[h] = "mask"
  BY DEF Mask, Proceed, Go, Is
<1>2. /\ handle'[h].op = handle[h].op
      /\ handle'[h].desired = handle[h].desired \ (masked.desired \cap handle[h].original)
      /\ handle'[h].original = handle[h].original \ masked.original
  <2>1. handle' = [handle EXCEPT
           ![h].desired = @ \ (masked.desired \cap handle[h].original),
           ![h].original = @ \ masked.original]
    BY DEF Mask
  <2> HIDE DEF masked
  <2> QED BY <2>1, <1>0 DEF Ask, Typed
<1>3. /\ handle[h].op = asked[h].op
      /\ asked[h].original \ {"PROCESS_CREATE_PROCESS"} \subseteq handle[h].original
      /\ asked[h].op = "CREATE" => handle[h].original = asked[h].original
      /\ wanted[h] = Blocked(image[h], f) /\ f \in Features(asked[h]) /\ wanted[h] \in InForce
  BY <1>1 DEF Handling
<1>4. f \in {"Create", "Remove"} /\ RightOf(f) \in asked[h].original
  BY <1>3 DEF Features, Feature
<1>5. /\ masked.original \subseteq {"PROCESS_CREATE_PROCESS"}
      /\ handle[h].op = "CREATE" => masked.original = {}
      /\ f = "Remove" => "PROCESS_TERMINATE" \in masked.desired
      /\ f = "Create" /\ handle[h].op = "CREATE" =>
            "PROCESS_CREATE_PROCESS" \in masked.desired
  <2>1. CASE f = "Create"
    <3>1. masked = [original |-> IF handle[h].op = "CREATE" THEN {} ELSE {"PROCESS_CREATE_PROCESS"},
             desired  |-> {"PROCESS_VM_OPERATION", "PROCESS_VM_READ", "PROCESS_VM_WRITE"}
                              \cup IF handle[h].op = "CREATE" THEN {"PROCESS_CREATE_PROCESS"} ELSE {}]
      BY <2>1 DEF Masked
    <3> HIDE DEF masked, f
    <3> QED BY <2>1, <3>1
  <2>2. CASE f = "Remove"
    <3>1. masked = [original |-> {}, desired |-> {"PROCESS_TERMINATE", "PROCESS_VM_OPERATION"}]
      BY <2>2 DEF Masked
    <3> HIDE DEF masked, f
    <3> QED BY <2>2, <3>1
  <2> QED BY <2>1, <2>2, <1>4
<1> HIDE DEF masked
<1>6. RuledFor(h, f) => RightOf(f) \notin handle'[h].desired
  <2>1. CASE f = "Create"
    <3>1. RuledFor(h, f) => asked[h].op = "CREATE"
      BY <2>1 DEF RuledFor
    <3>2. RightOf(f) = "PROCESS_CREATE_PROCESS"
      BY <2>1 DEF RightOf
    <3> QED BY <2>1, <3>1, <3>2, <1>2, <1>3, <1>4, <1>5
  <2>2. CASE f = "Remove"
    <3>1. RightOf(f) = "PROCESS_TERMINATE"
      BY <2>2 DEF RightOf
    <3> QED BY <2>2, <3>1, <1>2, <1>3, <1>4, <1>5
  <2> QED BY <2>1, <2>2, <1>4
<1>7. /\ handle'[h].op = asked[h].op
      /\ asked[h].original \ {"PROCESS_CREATE_PROCESS"} \subseteq handle'[h].original
      /\ asked[h].op = "CREATE" => handle'[h].original = asked[h].original
      /\ handle'[h].desired \subseteq handle[h].desired
  BY <1>2, <1>3, <1>5
<1>8. \E feature \in Features(asked[h]) : Blocked(image[h], feature) \in InForce
  BY <1>3
<1> QED BY <1>1, <1>6, <1>7, <1>8, ProceedStep

LEMMA ReturnStep ==
  ASSUME Base, NEW h \in Handlers, Return(h)
  PROVE  Handling(h)'
<1>0. Typed /\ h \in Thread
  BY TypedIsType, Threads DEF Base
<1>1. /\ at'[h] = "idle" /\ handle'[h] = NoAsk /\ asked'[h] = NoAsk /\ before'[h] = {}
  BY <1>0 DEF Return, Go, Is, Typed
<1>2. Processed(h)' = {}
  BY <1>1 DEF Processed
<1> QED BY <1>1, <1>2 DEF Handling

LEMMA HandlingStep ==
  ASSUME Base, Good, [Next]_vars, ~Short', NEW h \in Handlers
  PROVE  Handling(h)'
<1>0. /\ Typed /\ Handling(h) /\ h \in Thread /\ h \notin Adder /\ Adder \subseteq Thread
      /\ Comm \in Thread /\ Loader \in Thread /\ Scanner \in Thread /\ Handlers \subseteq Thread
      /\ h # Comm /\ h # Loader /\ h # Scanner /\ Comm \in Adder /\ Loader \in Adder
  BY Threads, TypedIsType DEF Base, Good
<1>1. InForce \subseteq InForce'
  BY ListStep
<1>2. ASSUME at'[h] = at[h], wanted'[h] = wanted[h], UNCHANGED handling
      PROVE  Handling(h)'
  BY <1>0, <1>1, <1>2, HandlingKept DEF handling
<1>3. ASSUME NEW t \in Thread, NEW from, NEW to, Go(t, from, to), t # h
      PROVE  at'[h] = at[h]
  BY <1>0, <1>3 DEF Go, Typed
<1>4. CASE Receive \/ Parse \/ TestRemoval \/ CountNodes \/ Protect
  <2>1. UNCHANGED handling /\ \E t \in Adder : \E from, to : Go(t, from, to)
    BY <1>4, <1>0 DEF Receive, Parse, TestRemoval, CountNodes, Protect
  <2>2. wanted'[h] = wanted[h]
    BY <1>4, <1>0 DEF Receive, Parse, TestRemoval, CountNodes, Protect, adding, Typed
  <2>3. at'[h] = at[h]
    BY <2>1, <1>0, <1>3
  <2> QED BY <2>1, <2>2, <2>3, <1>2
<1>5. CASE \E t \in Adder : Add(t)
  <2>1. PICK t \in Adder : Add(t)
    BY <1>5
  <2>2. UNCHANGED handling /\ UNCHANGED wanted /\ \E from, to : Go(t, from, to)
    BY <2>1 DEF Add, LookFirst, LookAgain, TestPointer, Glance, Find, FirstRule, AppendRule, adding
  <2>3. at'[h] = at[h]
    BY <2>2, <1>0, <1>3
  <2> QED BY <2>2, <2>3, <1>2
<1>6. CASE BeginScan \/ BreakOff \/ Scan
  <2>1. UNCHANGED handling /\ UNCHANGED wanted
    BY <1>6 DEF BeginScan, BreakOff, Scan, ListFile, EndList, Clean, adding
  <2>2. at'[h] = at[h]
    <3>1. CASE ListFile
      BY <3>1 DEF ListFile
    <3>2. CASE \E from, to : Go(Scanner, from, to)
      BY <3>2, <1>0, <1>3
    <3> QED BY <3>1, <3>2, <1>6 DEF BeginScan, BreakOff, Scan, EndList, Clean
  <2> QED BY <2>1, <2>2, <1>2
<1>7. CASE Enter(h) \/ NoWorker(h) \/ Callback(h)
  <2>1. CASE Enter(h)
    BY <2>1, EnterStep
  <2>2. CASE NoWorker(h)
    <3>1. Shortage(TRUE)
      BY <2>2 DEF NoWorker
    <3> QED BY <3>1, EnoughMemory
  <2>3. CASE Hash(h)
    BY <2>3, <1>0, HashStep
  <2>4. CASE LookUp(h)
    BY <2>4, LookUpStep
  <2>5. CASE Mask(h)
    BY <2>5, <1>0, MaskStep
  <2>6. CASE Skip(h)
    BY <2>6, <1>0, SkipStep
  <2>7. CASE Return(h)
    BY <2>7, ReturnStep
  <2> QED BY <1>7, <2>1, <2>2, <2>3, <2>4, <2>5, <2>6, <2>7 DEF Callback
<1>8. CASE \E g \in Handlers : g # h /\ (Enter(g) \/ NoWorker(g) \/ Callback(g))
  <2>1. PICK g \in Handlers : g # h /\ (Enter(g) \/ NoWorker(g) \/ Callback(g))
    BY <1>8
  <2>2. at'[h] = at[h]
    <3>1. PICK from, to : Go(g, from, to)
      BY <2>1 DEF Enter, NoWorker, Callback, Hash, LookUp, Glance, Find, Mask, Skip, Proceed,
         Return
    <3> QED BY <3>1, <2>1, <1>0, <1>3
  <2>3. /\ wanted'[h] = wanted[h] /\ handle'[h] = handle[h] /\ asked'[h] = asked[h]
        /\ image'[h] = image[h] /\ before'[h] = before[h]
    <3>1. CASE Enter(g)
      BY <3>1, <2>1, <1>0 DEF Enter, adding, Typed
    <3>2. CASE NoWorker(g) \/ LookUp(g)
      BY <3>2 DEF NoWorker, LookUp, Glance, Find, adding, handling
    <3>3. CASE Hash(g)
      BY <3>3, <2>1, <1>0 DEF Hash, Typed
    <3>4. CASE Mask(g)
      BY <3>4, <2>1, <1>0 DEF Mask, Proceed, Typed
    <3>5. CASE Skip(g)
      BY <3>5, <2>1, <1>0 DEF Skip, Proceed, Typed
    <3>6. CASE Return(g)
      BY <3>6, <2>1, <1>0 DEF Return, Typed
    <3> QED BY <2>1, <3>1, <3>2, <3>3, <3>4, <3>5, <3>6 DEF Callback
  <2> QED BY <2>2, <2>3, <1>0, <1>1, HandlingKept
<1>9. CASE (\E t \in Thread : FollowNull(t)) \/ UNCHANGED vars
  BY <1>9, <1>2 DEF FollowNull, vars, adding
<1> QED BY <1>0, <1>4, <1>5, <1>6, <1>7, <1>8, <1>9 DEF Next, Communicate

\* Who follows a NULL.
LEMMA StopsStep ==
  ASSUME Base, Good, [Next]_vars, ~Short'
  PROVE  Stops'
<1>0. /\ Typed /\ Places /\ ListInv /\ Pointers /\ Stops /\ Adder = {Comm, Loader}
      /\ \A h \in Handlers : at[h] # "idle" => InForce # {}
      /\ Comm \in Thread /\ Loader \in Thread /\ Scanner \in Thread /\ Handlers \subseteq Thread
  BY Threads, TypedIsType DEF Base, Good, Handling
<1>1. CASE UNCHANGED vars
  <2>1. UNCHANGED list /\ fault' = fault /\ at' = at
    BY <1>1 DEF vars
  <2>2. InForce' = InForce
    BY <2>1, QuietAlone
  <2> QED BY <2>1, <2>2, <1>0 DEF Stops
<1>2. CASE \E t \in Thread : FollowNull(t)
  <2>1. PICK t \in Thread : FollowNull(t)
    BY <1>2
  <2>2. UNCHANGED list /\ at' = at
    BY <2>1 DEF FollowNull
  <2>3. InForce' = InForce
    BY <2>2, QuietAlone
  <2>4. CASE Walks(t)
    <3>1. start = Null
      BY <2>4 DEF Walks
    <3>2. InForce = {}
      BY <3>1 DEF InForce, Listed
    <3> QED BY <3>2, <2>2, <2>3, <1>0 DEF Stops
  <2>5. CASE Extends(t)
    <3>1. CASE at[t] \in {"append", "count"} /\ actionNode = Null
      <4>1. t \in Adder
        BY <3>1, <1>0 DEF Places, ScannerPlace, HandlerPlace, Thread, Comm, Loader, Scanner
      <4> QED BY <3>1, <4>1, <1>0 DEF Pointers
    <3>2. CASE at[t] = "scan" /\ ~isInit /\ output = Null
      <4>1. t = Scanner
        BY <3>2, <1>0 DEF Places, CommPlace, LoaderPlace, HandlerPlace, Thread, Comm, Loader,
           Scanner
      <4> QED BY <3>2, <4>1, <1>0 DEF Pointers
    <3> QED BY <3>1, <3>2, <2>5 DEF Extends
  <2>6. CASE Fields(t)
    <3>1. at[t] = "parse"
      BY <2>6 DEF Fields
    <3>2. t = Comm
      BY <3>1, <1>0 DEF Places, LoaderPlace, ScannerPlace, HandlerPlace, Thread, Comm, Loader,
         Scanner
    <3> QED BY <3>1, <3>2, <2>2 DEF Stops
  <2> QED BY <2>1, <2>4, <2>5, <2>6 DEF FollowNull
<1>3. CASE fault' = fault /\ ~fault
  BY <1>3 DEF Stops
<1>4. CASE Receive \/ Parse \/ TestRemoval \/ CountNodes \/ Protect
  BY <1>4, <1>3 DEF Receive, Parse, TestRemoval, CountNodes, Protect, Go, Is
<1>5. CASE \E t \in Adder : Add(t)
  BY <1>5, <1>3 DEF Add, LookFirst, LookAgain, TestPointer, Glance, Find, FirstRule, AppendRule,
     Go, Is
<1>6. CASE BeginScan \/ BreakOff \/ Scan
  BY <1>6, <1>3 DEF BeginScan, BreakOff, Scan, ListFile, EndList, Clean, Go, Is
<1>7. CASE \E h \in Handlers : Enter(h) \/ NoWorker(h) \/ Callback(h)
  BY <1>7, <1>3 DEF Enter, NoWorker, Callback, Hash, LookUp, Glance, Find, Mask, Skip, Proceed,
     Return, Go, Is
<1> QED BY <1>0, <1>1, <1>2, <1>4, <1>5, <1>6, <1>7 DEF Next, Communicate

-----------------------------------------------------------------------------

LEMMA GoodInit == Init => Good
<1> SUFFICES ASSUME Init PROVE Good
  OBVIOUS
<1> USE ParallelListAssumption
<1>1. ListInv
  <2> DEFINE s == <<>>
  <2>1. s \in Seq(Node) /\ Len(s) = 0
    OBVIOUS
  <2> HIDE DEF s
  <2>2. Linked(s, node, pool, start, current)
    BY <2>1 DEF Linked, Path, Injective, Init, ListInit
  <2>3. Sections(s, node, section)
    BY <2>1 DEF Sections
  <2> QED BY <2>2, <2>3 DEF ListInv, Listing
<1>2. Pointers
  BY Threads DEF Init, Pointers, PointsTo
<1>3. ASSUME NEW h \in Handlers PROVE Handling(h)
  <2>1. at[h] = "idle" /\ handle[h] = NoAsk /\ asked[h] = NoAsk /\ before[h] = {}
    BY Threads DEF Init
  <2>2. Processed(h) = {}
    BY <2>1 DEF Processed
  <2> QED BY <2>1, <2>2 DEF Handling
<1>4. Stops
  BY DEF Stops, Init
<1> QED BY <1>1, <1>2, <1>3, <1>4 DEF Good

LEMMA IInvHolds == Spec => []IInv
<1>1. Init => IInv
  BY BaseInit, GoodInit DEF IInv
<1>2. IInv /\ [Next]_vars => IInv'
  <2> SUFFICES ASSUME IInv, [Next]_vars PROVE IInv'
    OBVIOUS
  <2>1. Base /\ Base'
    BY BaseStep DEF IInv
  <2>2. ASSUME ~Short' PROVE Good'
    <3>1. Good
      BY <2>1, <2>2, ShortStays DEF IInv
    <3> QED BY <2>1, <2>2, <3>1, ListStep, PointersStep, HandlingStep, StopsStep DEF Good
  <2> QED BY <2>1, <2>2 DEF IInv
<1> QED BY <1>1, <1>2, PTL DEF Spec

\* What is left of a handle follows the rules, in every order of the steps of
\* the callback, of the threads that add rules and of the scan.
THEOREM HandlesFollow == Spec => []HandlesFollowTheRules
<1>1. IInv => HandlesFollowTheRules
  <2> SUFFICES ASSUME IInv, NEW h \in Handlers, at[h] = "done", ~Short
               PROVE  /\ \A feature \in Features(asked[h]) :
                            /\ Blocked(image[h], feature) \in before[h]
                            /\ feature = "Create" => asked[h].op = "CREATE"
                            => RightOf(feature) \notin handle[h].desired
                      /\ handle[h].desired # asked[h].desired =>
                            \E feature \in Features(asked[h]) :
                               Blocked(image[h], feature) \in InForce
    BY DEF HandlesFollowTheRules
  <2>1. Handling(h)
    BY DEF IInv, Good
  <2>2. Processed(h) = Features(asked[h])
    BY DEF Processed
  <2> QED BY <2>1, <2>2 DEF Handling, RuledFor
<1> QED BY <1>1, IInvHolds, PTL

\* A NULL is followed only where the source explains it.
THEOREM StopsEarly == Spec => []StopsOnlyBeforeTheFirstRule
<1>1. IInv => StopsOnlyBeforeTheFirstRule
  BY DEF IInv, Good, Stops, StopsOnlyBeforeTheFirstRule
<1> QED BY <1>1, IInvHolds, PTL

\* The list of rules, its locks and its four writers implement a set that
\* grows by one rule at a time.
THEOREM RulesImplementRuleSet == Spec => ImplementsRuleSet
<1>1. Init => Promise!Init
  <2> SUFFICES ASSUME Init PROVE InForce = {} /\ Short = FALSE
    BY DEF Promise!Init
  <2>1. start = Null /\ shortages = 0 /\ reused = FALSE
    BY DEF Init, ListInit
  <2> QED BY <2>1 DEF InForce, Listed, Short
<1>2. IInv /\ [Next]_vars => [Promise!Next]_<<InForce, Short>>
  <2> SUFFICES ASSUME IInv, [Next]_vars
               PROVE  Promise!Next \/ (InForce' = InForce /\ Short' = Short)
    OBVIOUS
  <2>0. Base /\ Base'
    BY BaseStep DEF IInv
  <2>1. CASE Short'
    <3>1. InForce' \subseteq Rule
      <4>1. node' \in [Node -> Memory] /\ RulesIn(node') /\ start' \in Pointer
        BY <2>0 DEF Base, TypeOK, ListTypeOK
      <4> QED BY <4>1, InForceRules, InForceThere
    <3>2. Short' = TRUE
      BY <2>1 DEF Short
    <3> QED BY <3>1, <3>2 DEF Promise!Next, Promise!RunShort
  <2>2. CASE ~Short'
    <3>1. ~Short /\ Good
      BY <2>0, <2>2, ShortStays DEF IInv
    <3>2. Short = FALSE /\ Short' = FALSE
      BY <2>2, <3>1 DEF Short
    <3>3. InForce' = InForce \/ \E rule \in Rule : InForce' = InForce \cup {rule}
      BY <2>0, <2>2, <3>1, ListStep
    <3>4. CASE \E rule \in Rule \ InForce : InForce' = InForce \cup {rule}
      BY <3>2, <3>4 DEF Promise!Next, Promise!Enforce
    <3>5. CASE InForce' = InForce
      BY <3>2, <3>5
    <3>6. ASSUME NEW rule \in Rule, InForce' = InForce \cup {rule}, rule \in InForce
          PROVE  InForce' = InForce
      BY <3>6
    <3> QED BY <3>3, <3>4, <3>5, <3>6
  <2> QED BY <2>1, <2>2
<1> QED BY <1>1, <1>2, IInvHolds, PTL DEF Spec, ImplementsRuleSet, Promise!Spec
=============================================================================
