--------------------------- MODULE DlpFilterProofs ---------------------------
(***************************************************************************)
(* Theorems about DlpFilter, for any names, types, contents and indices.   *)
(* The list never has more than one type, which turns every walk over it   *)
(* into a question about its first element; the searches among the files   *)
(* of that type are SelectInSeq, whose result exists because the naturals  *)
(* are well founded.                                                       *)
(***************************************************************************)
EXTENDS DlpFilter, WellFoundedInduction, TLAPS

-----------------------------------------------------------------------------
(* What the searches return.                                               *)

LEMMA MinExists ==
  ASSUME NEW S \in SUBSET Nat, S # {}
  PROVE  Min(S) \in S /\ \A k \in S : Min(S) <= k
<1>1. \E x \in S : \A y \in S : <<y, x>> \notin OpToRel(<, Nat)
  BY NatLessThanWellFounded, WFMin
<1>2. PICK x \in S : \A y \in S : <<y, x>> \notin OpToRel(<, Nat)
  BY <1>1
<1>3. \A y \in S : ~(y < x)
  <2>. TAKE y \in S
  <2>1. <<y, x>> \notin OpToRel(<, Nat)
    BY <1>2
  <2> QED BY <2>1 DEF OpToRel
<1>4. \A y \in S : x <= y
  BY <1>3
<1> QED BY <1>4 DEF Min

\* The node that is found is one of the file, and the first.
LEMMA NodeOfFacts ==
  ASSUME NEW files \in Seq(FileNode), NEW i
  PROVE  /\ NodeOf(files, i) \in 0..Len(files)
         /\ NodeOf(files, i) # 0 => files[NodeOf(files, i)].index = i
         /\ \A k \in 1..Len(files) :
              files[k].index = i => NodeOf(files, i) \in 1..k
<1> DEFINE I == {k \in 1..Len(files) : files[k].index = i}
<1>1. NodeOf(files, i) = IF I # {} THEN Min(I) ELSE 0
  BY DEF NodeOf, SelectInSeq
<1>2. I \in SUBSET Nat /\ Len(files) \in Nat
  OBVIOUS
<1>3. I # {} => Min(I) \in I /\ \A k \in I : Min(I) <= k
  BY <1>2, MinExists
<1> HIDE DEF I
<1>4. ASSUME I # {}
      PROVE  /\ NodeOf(files, i) \in I
             /\ \A k \in I : NodeOf(files, i) <= k
  BY <1>1, <1>3, <1>4
<1>5. CASE I = {}
  BY <1>1, <1>2, <1>5 DEF I
<1>6. CASE I # {}
  BY <1>2, <1>4, <1>6 DEF I
<1> QED BY <1>5, <1>6

\* A walk over at most one type.
LEMMA ComparedToOne ==
  ASSUME NEW s \in Seq(Signature), Len(s) <= 1, NEW p, NEW i
  PROVE  /\ ComparedTo(s, p, i) \in {0, 1}
         /\ ComparedTo(s, p, i) # 0 <=>
              s # <<>> /\ (s[1].ext \in Suffix[p] \/ HasNode(s[1], i))
<1> DEFINE I == {k \in 1..Len(s) : s[k].ext \in Suffix[p] \/ HasNode(s[k], i)}
<1>1. ComparedTo(s, p, i) = IF I # {} THEN Min(I) ELSE 0
  BY DEF ComparedTo, SelectInSeq
<1>2. I \in SUBSET Nat
  OBVIOUS
<1>3. I # {} => Min(I) \in I
  BY <1>2, MinExists
<1>4. \A k \in I : k = 1
  OBVIOUS
<1>5. I # {} <=> s # <<>> /\ (s[1].ext \in Suffix[p] \/ HasNode(s[1], i))
  OBVIOUS
<1> HIDE DEF I
<1> QED BY <1>1, <1>3, <1>4, <1>5

LEMMA SignatureOfOne ==
  ASSUME NEW s \in Seq(Signature), Len(s) <= 1, NEW p
  PROVE  /\ SignatureOf(s, p) \in {0, 1}
         /\ SignatureOf(s, p) # 0 <=> s # <<>> /\ s[1].ext \in Suffix[p]
<1> DEFINE I == {k \in 1..Len(s) : s[k].ext \in Suffix[p]}
<1>1. SignatureOf(s, p) = IF I # {} THEN Min(I) ELSE 0
  BY DEF SignatureOf, SelectInSeq
<1>2. I \in SUBSET Nat
  OBVIOUS
<1>3. I # {} => Min(I) \in I
  BY <1>2, MinExists
<1>4. \A k \in I : k = 1
  OBVIOUS
<1>5. I # {} <=> s # <<>> /\ s[1].ext \in Suffix[p]
  OBVIOUS
<1> HIDE DEF I
<1> QED BY <1>1, <1>3, <1>4, <1>5

\* The node of the file in the one type there is.
NodeHas(s, i, field, value) ==
    /\ s # <<>> /\ HasNode(s[1], i)
    /\ s[1].files[NodeOf(s[1].files, i)][field] = value

LEMMA FirstSignature ==
  ASSUME NEW s \in Seq(Signature), s # <<>>
  PROVE  s[1] \in Signature /\ s[1].files \in Seq(FileNode)
<1>1. 1 \in 1..Len(s)
  OBVIOUS
<1>2. s[1] \in Signature
  BY <1>1
<1>3. \A sig \in Signature : sig.files \in Seq(FileNode)
  BY DEF Signature
<1> QED BY <1>2, <1>3

LEMMA OnlySignature ==
  ASSUME NEW s \in Seq(Signature), s # <<>>, Len(s) <= 1
  PROVE  Len(s) = 1
<1>1. \A n \in Nat : n # 0 /\ n <= 1 => n = 1
  OBVIOUS
<1>2. Len(s) \in Nat /\ Len(s) # 0
  OBVIOUS
<1> QED BY <1>1, <1>2, Zenon

LEMMA NodeNeedsFiles ==
  ASSUME NEW s \in Seq(Signature), s # <<>>, NEW i, HasNode(s[1], i)
  PROVE  s[1].files # <<>> /\ NodeOf(s[1].files, i) \in 1..Len(s[1].files)
<1>1. s[1].files \in Seq(FileNode)
  BY FirstSignature
<1> QED BY <1>1, NodeOfFacts DEF HasNode

LEMMA HasShaOne ==
  ASSUME NEW s \in Seq(Signature), Len(s) <= 1, NEW i, NEW sha
  PROVE  HasSha(s, i, sha) <=> NodeHas(s, i, "sha", sha)
<1> DEFINE T(k) == s[k].files = <<>> \/ ( /\ HasNode(s[k], i)
                                         /\ s[k].files[NodeOf(s[k].files, i)].sha = sha )
           I == {k \in 1..Len(s) : T(k)}
           end == IF I # {} THEN Min(I) ELSE 0
<1>1. HasSha(s, i, sha) <=> end # 0 /\ s[end].files # <<>>
  BY DEF HasSha, Found, SelectInSeq, IsRecorded
<1>2. I \in SUBSET Nat
  OBVIOUS
<1>3. I # {} => Min(I) \in I
  BY <1>2, MinExists
<1>4. \A k \in I : k = 1
  OBVIOUS
<1>5. I # {} <=> s # <<>> /\ T(1)
  OBVIOUS
<1>6. (end # 0 <=> s # <<>> /\ T(1)) /\ (end # 0 => end = 1)
  <2> HIDE DEF I, T
  <2> QED BY <1>3, <1>4, <1>5
<1> HIDE DEF end
<1> QED BY <1>1, <1>6, NodeNeedsFiles DEF NodeHas

LEMMA HasPathOne ==
  ASSUME NEW s \in Seq(Signature), Len(s) <= 1, NEW i, NEW p
  PROVE  HasPath(s, i, p) <=> NodeHas(s, i, "path", p)
<1> DEFINE T(k) == s[k].files = <<>> \/ ( /\ HasNode(s[k], i)
                                         /\ s[k].files[NodeOf(s[k].files, i)].path = p )
           I == {k \in 1..Len(s) : T(k)}
           end == IF I # {} THEN Min(I) ELSE 0
<1>1. HasPath(s, i, p) <=> end # 0 /\ s[end].files # <<>>
  BY DEF HasPath, Found, SelectInSeq, IsRecorded
<1>2. I \in SUBSET Nat
  OBVIOUS
<1>3. I # {} => Min(I) \in I
  BY <1>2, MinExists
<1>4. \A k \in I : k = 1
  OBVIOUS
<1>5. I # {} <=> s # <<>> /\ T(1)
  OBVIOUS
<1>6. (end # 0 <=> s # <<>> /\ T(1)) /\ (end # 0 => end = 1)
  <2> HIDE DEF I, T
  <2> QED BY <1>3, <1>4, <1>5
<1> HIDE DEF end
<1> QED BY <1>1, <1>6, NodeNeedsFiles DEF NodeHas

\* A removal removes nothing: it looks for a type that differs from one that
\* differs from its own.
LEMMA NothingIsRemoved ==
  ASSUME NEW s \in Seq(Signature), Len(s) = 1
  PROVE  Without(s, s[1].ext) = s
<1> DEFINE I == {k \in 1..Len(s) : s[k].ext # s[1].ext}
<1>1. I = {}
  OBVIOUS
<1>2. SelectInSeq(s, LAMBDA x : x.ext # s[1].ext) = IF I # {} THEN Min(I) ELSE 0
  BY DEF SelectInSeq
<1> QED BY <1>1, <1>2 DEF Without

LEMMA DiffersOne ==
  ASSUME TypeOK, Len(sigs) <= 1, NEW field
  PROVE  Differs(field) \in {0, 1} /\ (Differs(field) # 0 => sigs # <<>>)
<1> DEFINE I == {k \in 1..Len(sigs) : sigs[k].ext # field}
<1>1. Differs(field) = IF I # {} THEN Min(I) ELSE 0
  BY DEF Differs, SelectInSeq
<1>2. I \in SUBSET Nat /\ \A k \in I : k = 1 /\ sigs # <<>>
  BY DEF TypeOK
<1>3. I # {} => Min(I) \in I
  BY <1>2, MinExists
<1> HIDE DEF I
<1> QED BY <1>1, <1>2, <1>3

-----------------------------------------------------------------------------
(* What a step does to the list.                                           *)

LEMMA RecordedFacts ==
  ASSUME NEW sig \in Signature, NEW i \in Indices, NEW p \in Paths,
         NEW sha \in Contents
  PROVE  /\ Recorded(sig, i, p, sha) \in Signature
         /\ Recorded(sig, i, p, sha).ext = sig.ext
         /\ Recorded(sig, i, p, sha).tail = TRUE
         /\ Recorded(sig, i, p, sha).files
              = Append(sig.files, [index |-> i, path |-> p, sha |-> sha])
<1> DEFINE node == [index |-> i, path |-> p, sha |-> sha]
<1>1. node \in FileNode
  BY DEF FileNode
<1>2. sig.files \in Seq(FileNode)
  BY DEF Signature
<1>3. Append(sig.files, node) \in Seq(FileNode)
  BY <1>1, <1>2
<1>4. Recorded(sig, i, p, sha)
        = [sig EXCEPT !.files = Append(sig.files, node), !.tail = TRUE]
  BY DEF Recorded
<1> HIDE DEF node
<1>5. ASSUME NEW files \in Seq(FileNode)
      PROVE  LET u == [sig EXCEPT !.files = files, !.tail = TRUE]
             IN  u \in Signature /\ u.ext = sig.ext /\ u.tail = TRUE /\ u.files = files
  BY DEF Signature
<1> QED BY <1>3, <1>4, <1>5 DEF node

LEMMA NotRecordedFacts ==
  ASSUME NEW sig \in Signature
  PROVE  /\ NotRecorded(sig) \in Signature
         /\ NotRecorded(sig).ext = sig.ext
         /\ NotRecorded(sig).files = sig.files
BY DEF NotRecorded, Signature

\* u is s with other paths and contents, in the node of index i only.
Edits(s, u, i) ==
    /\ u \in Seq(Signature) /\ Len(u) = Len(s)
    /\ \A j \in 1..Len(s) :
         /\ u[j].ext = s[j].ext /\ u[j].tail = s[j].tail
         /\ Len(u[j].files) = Len(s[j].files)
         /\ \A n \in 1..Len(s[j].files) :
              /\ u[j].files[n].index = s[j].files[n].index
              /\ s[j].files[n].index # i => u[j].files[n] = s[j].files[n]

LEMMA SetShaFacts ==
  ASSUME NEW s \in Seq(Signature), NEW i, NEW sha \in Contents
  PROVE  LET u == SetSha(s, i, sha)
         IN  /\ Edits(s, u, i)
             /\ \A j \in 1..Len(s) : \A n \in 1..Len(s[j].files) :
                  u[j].files[n].path = s[j].files[n].path
             /\ s # <<>> /\ HasNode(s[1], i) =>
                  u[1].files[NodeOf(s[1].files, i)].sha = sha
<1> DEFINE u == SetSha(s, i, sha)
           k == NodeOf(s[1].files, i)
<1>1. CASE ~(s # <<>> /\ HasNode(s[1], i))
  <2>1. u = s
    BY <1>1 DEF SetSha, WithNode
  <2> QED BY <1>1, <2>1 DEF Edits
<1>2. CASE s # <<>> /\ HasNode(s[1], i)
  <2>1. s[1] \in Signature /\ s[1].files \in Seq(FileNode)
    BY <1>2, FirstSignature
  <2>2. k \in 1..Len(s[1].files) /\ s[1].files[k].index = i
    BY <1>2, <2>1, NodeOfFacts DEF HasNode
  <2>3. u = [s EXCEPT ![1].files[k] = [@ EXCEPT !.sha = sha]]
    BY <1>2 DEF SetSha, WithNode
  <2>4. [s[1].files[k] EXCEPT !.sha = sha] \in FileNode
    <3>1. s[1].files[k] \in FileNode
      BY <2>1, <2>2
    <3>2. \A x \in FileNode : [x EXCEPT !.sha = sha] \in FileNode
      BY DEF FileNode
    <3> QED BY <3>1, <3>2
  <2> DEFINE f == [s[1].files EXCEPT ![k] = [s[1].files[k] EXCEPT !.sha = sha]]
  <2>5. f \in Seq(FileNode) /\ Len(f) = Len(s[1].files)
    BY <2>1, <2>2, <2>4
  <2>6. [s[1] EXCEPT !.files = f] \in Signature
    BY <2>1, <2>5 DEF Signature
  <2>7. u = [s EXCEPT ![1] = [s[1] EXCEPT !.files = f]]
    BY <2>3
  <2>8. u \in Seq(Signature) /\ Len(u) = Len(s)
    BY <2>6, <2>7, <1>2
  <2>9. u[1].files = f /\ u[1].ext = s[1].ext /\ u[1].tail = s[1].tail
    <3>1. \A x \in Signature : /\ [x EXCEPT !.files = f].files = f
                                /\ [x EXCEPT !.files = f].ext = x.ext
                                /\ [x EXCEPT !.files = f].tail = x.tail
      BY DEF Signature
    <3>2. u[1] = [s[1] EXCEPT !.files = f]
      BY <2>7, <1>2
    <3> HIDE DEF f, u
    <3> QED BY <2>1, <3>1, <3>2
  <2>10. \A j \in 1..Len(s) : j # 1 => u[j] = s[j]
    BY <2>7
  <2>11. \A n \in 1..Len(f) :
            /\ n # k => f[n] = s[1].files[n]
            /\ f[n].index = s[1].files[n].index /\ f[n].path = s[1].files[n].path
    BY <2>1, <2>2, <2>5 DEF FileNode
  <2>12. f[k].sha = sha
    BY <2>1, <2>2 DEF FileNode
  <2> HIDE DEF f, u, k
  <2> QED BY <2>2, <2>5, <2>8, <2>9, <2>10, <2>11, <2>12 DEF Edits, u, k
<1> QED BY <1>1, <1>2

LEMMA SetPathFacts ==
  ASSUME NEW s \in Seq(Signature), NEW i, NEW p \in Paths \cup {None}
  PROVE  LET u == SetPath(s, i, p)
         IN  /\ Edits(s, u, i)
             /\ \A j \in 1..Len(s) : \A n \in 1..Len(s[j].files) :
                  u[j].files[n].path \in {s[j].files[n].path, p}
             /\ \A j \in 1..Len(s) : \A n \in 1..Len(s[j].files) :
                  u[j].files[n].sha = s[j].files[n].sha
             /\ s # <<>> /\ HasNode(s[1], i) =>
                  u[1].files[NodeOf(s[1].files, i)].path = p
<1> DEFINE u == SetPath(s, i, p)
           k == NodeOf(s[1].files, i)
<1>1. CASE ~(s # <<>> /\ HasNode(s[1], i))
  <2>1. u = s
    BY <1>1 DEF SetPath, WithNode
  <2> QED BY <1>1, <2>1 DEF Edits
<1>2. CASE s # <<>> /\ HasNode(s[1], i)
  <2>1. s[1] \in Signature /\ s[1].files \in Seq(FileNode)
    BY <1>2, FirstSignature
  <2>2. k \in 1..Len(s[1].files) /\ s[1].files[k].index = i
    BY <1>2, <2>1, NodeOfFacts DEF HasNode
  <2>3. u = [s EXCEPT ![1].files[k] = [@ EXCEPT !.path = p]]
    BY <1>2 DEF SetPath, WithNode
  <2>4. [s[1].files[k] EXCEPT !.path = p] \in FileNode
    <3>1. s[1].files[k] \in FileNode
      BY <2>1, <2>2
    <3>2. \A x \in FileNode : [x EXCEPT !.path = p] \in FileNode
      BY DEF FileNode
    <3> QED BY <3>1, <3>2
  <2> DEFINE f == [s[1].files EXCEPT ![k] = [s[1].files[k] EXCEPT !.path = p]]
  <2>5. f \in Seq(FileNode) /\ Len(f) = Len(s[1].files)
    BY <2>1, <2>2, <2>4
  <2>6. [s[1] EXCEPT !.files = f] \in Signature
    BY <2>1, <2>5 DEF Signature
  <2>7. u = [s EXCEPT ![1] = [s[1] EXCEPT !.files = f]]
    BY <2>3
  <2>8. u \in Seq(Signature) /\ Len(u) = Len(s)
    BY <2>6, <2>7, <1>2
  <2>9. u[1].files = f /\ u[1].ext = s[1].ext /\ u[1].tail = s[1].tail
    <3>1. \A x \in Signature : /\ [x EXCEPT !.files = f].files = f
                                /\ [x EXCEPT !.files = f].ext = x.ext
                                /\ [x EXCEPT !.files = f].tail = x.tail
      BY DEF Signature
    <3>2. u[1] = [s[1] EXCEPT !.files = f]
      BY <2>7, <1>2
    <3> HIDE DEF f, u
    <3> QED BY <2>1, <3>1, <3>2
  <2>10. \A j \in 1..Len(s) : j # 1 => u[j] = s[j]
    BY <2>7
  <2>11. \A n \in 1..Len(f) :
            /\ n # k => f[n] = s[1].files[n]
            /\ f[n].index = s[1].files[n].index /\ f[n].sha = s[1].files[n].sha
            /\ f[n].path \in {s[1].files[n].path, p}
    BY <2>1, <2>2, <2>5 DEF FileNode
  <2>12. f[k].path = p
    BY <2>1, <2>2 DEF FileNode
  <2> HIDE DEF f, u, k
  <2> QED BY <2>2, <2>5, <2>8, <2>9, <2>10, <2>11, <2>12 DEF Edits, u, k
<1> QED BY <1>1, <1>2

-----------------------------------------------------------------------------
(* Type correctness.                                                       *)

LEMMA BlankIsLocal == Blank \in Local /\ Blank.path \in Paths
<1>1. (CHOOSE p \in Paths : TRUE) \in Paths
  BY SignatureAssumption
<1>2. Paths \subseteq Names
  BY SignatureAssumption
<1> QED BY <1>1, <1>2 DEF Blank, Local, Operation

LEMMA LocalEdits ==
  ASSUME NEW x \in Local
  PROVE  /\ \A sha \in Contents \cup {None}, l \in BOOLEAN :
              [x EXCEPT !.sha = sha, !.list = l] \in Local
         /\ \A sha \in Contents \cup {None} : [x EXCEPT !.sha = sha] \in Local
         /\ \A d \in SUBSET {"sha", "path"} : [x EXCEPT !.diff = d] \in Local
         /\ \A op \in Operation, p \in Paths, new \in Names :
              [x EXCEPT !.op = op, !.path = p, !.new = new] \in Local
         /\ \A op \in Operation, new \in Names,
              sha \in Contents \cup {None}, l \in BOOLEAN :
              [x EXCEPT !.op = op, !.new = new, !.sha = sha, !.list = l] \in Local
         /\ x.op \in Operation /\ x.path \in Paths /\ x.new \in Names
         /\ x.sha \in Contents \cup {None} /\ x.list \in BOOLEAN
         /\ x.diff \in SUBSET {"sha", "path"}
BY DEF Local

LEMMA AnswersAreTyped ==
  ASSUME TypeOK, NEW p \in Paths
  PROVE  /\ Index(p) \subseteq Indices \cup {None}
         /\ Content(p) \subseteq Contents \cup {None}
         /\ Opens(p) \subseteq BOOLEAN
<1>1. disk[p] \in File \cup {None}
  BY DEF TypeOK
<1> QED BY <1>1 DEF Index, Content, Opens, File

LEMMA TypeInit == Init => TypeOK
<1>1. <<>> \in Seq(Signature)
  OBVIOUS
<1> QED BY <1>1, BlankIsLocal DEF Init, TypeOK, Steps

\* What is recorded is an element of the list, at its place.
LEMMA PutSignature ==
  ASSUME NEW s \in Seq(Signature), NEW j \in 1..Len(s), NEW x \in Signature
  PROVE  /\ [s EXCEPT ![j] = x] \in Seq(Signature)
         /\ Len([s EXCEPT ![j] = x]) = Len(s)
         /\ [s EXCEPT ![j] = x][j] = x
         /\ \A k \in 1..Len(s) : k # j => [s EXCEPT ![j] = x][k] = s[k]
OBVIOUS

OneType == Len(sigs) <= 1

\* The content has been read before it is compared or stored.
Hashed == pc \in {"sha", "path", "set"} => h.sha \in Contents

\* Each way a step has of changing the list.
Registers ==
    /\ sigs = <<>>
    /\ \E e \in Types : sigs' = <<NewSignature(e)>>

Records ==
    /\ pc = "save" /\ sigs # <<>> /\ ~AppendsToNull(sigs[1])
    /\ \E i \in Index(h.path) \ {None}, sha \in Content(h.path) \ {None} :
         sigs' = [sigs EXCEPT ![1] = Recorded(sigs[1], i, h.path, sha)]

Forgets ==
    /\ sigs # <<>> /\ starved'
    /\ sigs' = [sigs EXCEPT ![1] = NotRecorded(sigs[1])]

Replaces ==
    \E i : /\ Edits(sigs, sigs', i)
           /\ \/ starved'
              \/ \A j \in 1..Len(sigs) : \A n \in 1..Len(sigs[j].files) :
                   sigs'[j].files[n].path \in {sigs[j].files[n].path, h.path}

LEMMA SaveChangesTheList ==
  ASSUME TypeOK, OneType, Save
  PROVE  sigs' = sigs \/ Records \/ Forgets
<1>1. PICK i \in Index(h.path), sha \in Content(h.path) :
         \/ UNCHANGED sigs
         \/ /\ ~Refused(i, sha)
            /\ SaveNode(SignatureOf(sigs, h.path), i, sha)
  BY DEF Save
<1>2. CASE UNCHANGED sigs
  BY <1>2
<1>3. CASE ~Refused(i, sha) /\ SaveNode(SignatureOf(sigs, h.path), i, sha)
  <2>1. i # None /\ sha # None /\ SignatureOf(sigs, h.path) # 0
    BY <1>3 DEF Refused
  <2>2. SignatureOf(sigs, h.path) = 1 /\ sigs # <<>>
    BY <2>1, SignatureOfOne DEF TypeOK, OneType
  <2>3. SaveNode(1, i, sha)
    BY <1>3, <2>2
  <2>4. \/ AppendsToNull(sigs[1]) /\ UNCHANGED sigs
        \/ /\ ~AppendsToNull(sigs[1])
           /\ sigs' = [sigs EXCEPT ![1] = Recorded(sigs[1], i, h.path, sha)]
        \/ starved' /\ sigs' = [sigs EXCEPT ![1] = NotRecorded(sigs[1])]
    BY <2>3 DEF SaveNode
  <2>5. pc = "save"
    BY DEF Save
  <2> QED BY <2>1, <2>2, <2>4, <2>5 DEF Records, Forgets
<1> QED BY <1>1, <1>2, <1>3

LEMMA EditsTwice ==
  ASSUME NEW s, NEW u, NEW v, NEW i, Edits(s, u, i), Edits(u, v, i)
  PROVE  Edits(s, v, i)
BY DEF Edits

LEMMA EditsNothing ==
  ASSUME NEW s \in Seq(Signature), NEW i
  PROVE  Edits(s, s, i)
BY DEF Edits

LEMMA SetChangesTheList ==
  ASSUME TypeOK, Hashed, SetNode
  PROVE  Replaces
<1> DEFINE withPath(i) == IF "path" \in h.diff THEN SetPath(sigs, i, h.path) ELSE sigs
<1>1. sigs \in Seq(Signature) /\ h.path \in Paths /\ h.sha \in Contents
  BY LocalEdits DEF TypeOK, Hashed, SetNode
<1>2. PICK i \in Index(h.path) :
         \/ sigs' = IF "sha" \in h.diff THEN SetSha(withPath(i), i, h.sha) ELSE withPath(i)
         \/ sigs' = SetPath(sigs, i, None) /\ starved'
         \/ UNCHANGED sigs
  BY DEF SetNode
<1>3. /\ Edits(sigs, withPath(i), i) /\ withPath(i) \in Seq(Signature)
      /\ \A j \in 1..Len(sigs) : \A n \in 1..Len(sigs[j].files) :
           withPath(i)[j].files[n].path \in {sigs[j].files[n].path, h.path}
  <2>1. CASE "path" \in h.diff
    BY <1>1, <2>1, SetPathFacts DEF Edits
  <2>2. CASE "path" \notin h.diff
    BY <1>1, <2>2, EditsNothing
  <2> QED BY <2>1, <2>2
<1>4. CASE sigs' = withPath(i)
  BY <1>3, <1>4 DEF Replaces
<1>5. CASE sigs' = SetSha(withPath(i), i, h.sha) /\ h.sha \in Contents
  <2> HIDE DEF withPath
  <2>1. Edits(sigs, sigs', i)
    BY <1>3, <1>5, SetShaFacts, EditsTwice
  <2>2. \A j \in 1..Len(sigs) : \A n \in 1..Len(sigs[j].files) :
           sigs'[j].files[n].path = withPath(i)[j].files[n].path
    <3>1. Len(withPath(i)) = Len(sigs)
            /\ \A j \in 1..Len(sigs) : Len(withPath(i)[j].files) = Len(sigs[j].files)
      BY <1>3 DEF Edits
    <3>2. \A j \in 1..Len(withPath(i)) : \A n \in 1..Len(withPath(i)[j].files) :
             sigs'[j].files[n].path = withPath(i)[j].files[n].path
      BY <1>3, <1>5, SetShaFacts
    <3> QED BY <3>1, <3>2
  <2> QED BY <1>3, <2>1, <2>2 DEF Replaces
<1>6. CASE sigs' = SetPath(sigs, i, None) /\ starved'
  BY <1>1, <1>6, SetPathFacts DEF Replaces
<1>7. CASE UNCHANGED sigs
  BY <1>1, <1>7, EditsNothing DEF Replaces
<1> QED BY <1>1, <1>2, <1>4, <1>5, <1>6, <1>7

LEMMA CommandChangesTheList ==
  ASSUME TypeOK, OneType, RegisterType \/ RemoveType \/ GetTypes
  PROVE  sigs' = sigs \/ Registers
<1>1. CASE RegisterType
  <2>1. PICK fields \in SeqOf(Types, MaxFields) :
           \/ \E k \in DOMAIN fields :
                /\ ~RefusesToRegister(sigs)
                /\ sigs' = Append(sigs, NewSignature(fields[k]))
           \/ UNCHANGED sigs
    BY <1>1 DEF RegisterType
  <2>2. ASSUME NEW k \in DOMAIN fields, ~RefusesToRegister(sigs),
               sigs' = Append(sigs, NewSignature(fields[k]))
        PROVE  Registers
    <3>1. sigs = <<>>
      BY <2>2 DEF RefusesToRegister
    <3>2. fields[k] \in Types
      BY DEF SeqOf
    <3> QED BY <2>2, <3>1, <3>2 DEF Registers
  <2> QED BY <2>1, <2>2
<1>2. CASE RemoveType
  <2>1. PICK fields \in SeqOf(Types, MaxFields) :
           \/ \E k \in DOMAIN fields :
                /\ Differs(fields[k]) # 0
                /\ sigs' = Without(sigs, sigs[Differs(fields[k])].ext)
           \/ UNCHANGED sigs
    BY <1>2 DEF RemoveType
  <2>2. ASSUME NEW k \in DOMAIN fields, Differs(fields[k]) # 0,
               sigs' = Without(sigs, sigs[Differs(fields[k])].ext)
        PROVE  sigs' = sigs
    <3>1. Differs(fields[k]) = 1 /\ sigs # <<>>
      BY <2>2, DiffersOne DEF OneType
    <3>2. sigs \in Seq(Signature) /\ Len(sigs) = 1
      BY <3>1, OnlySignature DEF TypeOK, OneType
    <3> QED BY <2>2, <3>1, <3>2, NothingIsRemoved
  <2> QED BY <2>1, <2>2
<1>3. CASE GetTypes
  BY <1>3 DEF GetTypes
<1> QED BY <1>1, <1>2, <1>3

\* The list is left alone, or changed in one of five ways.
LEMMA ListStep ==
  ASSUME TypeOK, OneType, Hashed, [Next]_vars
  PROVE  sigs' = sigs \/ Registers \/ Records \/ Forgets \/ Replaces
<1>1. CASE Begin
  BY <1>1 DEF Begin, policy
<1>2. CASE Create \/ Kept \/ Query \/ Other \/ Rename
  BY <1>2 DEF Create, Kept, Query, Other, Rename, policy
<1>3. CASE CompareNewName \/ Argument \/ Compare \/ CompareAgain \/ Track
           \/ CompareSha \/ ComparePath
  BY <1>3 DEF CompareNewName, Argument, Compare, CompareAgain, Track, CompareSha,
              ComparePath, Reads
<1>4. CASE Save
  BY <1>4, SaveChangesTheList
<1>5. CASE SetNode
  BY <1>5, SetChangesTheList
<1>6. CASE RegisterType \/ RemoveType \/ GetTypes
  BY <1>6, CommandChangesTheList
<1>7. CASE FileChanges
  BY <1>7 DEF FileChanges, policy
<1>8. CASE UNCHANGED vars
  BY <1>8 DEF vars, policy
<1> QED BY <1>1, <1>2, <1>3, <1>4, <1>5, <1>6, <1>7, <1>8 DEF Next, Handle

\* The same, for what keeps its type.
LEMMA ListTyped ==
  ASSUME TypeOK, OneType,
         sigs' = sigs \/ Registers \/ Records \/ Forgets \/ Replaces
  PROVE  /\ sigs' \in Seq(Signature)
         /\ Len(sigs') <= 1
         /\ sigs # <<>> => Len(sigs') = 1 /\ sigs'[1].ext = sigs[1].ext
<1>1. sigs \in Seq(Signature) /\ (sigs # <<>> => Len(sigs) = 1) /\ h.path \in Paths
  <2>1. sigs \in Seq(Signature) /\ h \in Local
    BY DEF TypeOK
  <2> QED BY <2>1, OnlySignature, LocalEdits DEF OneType
<1>2. CASE sigs' = sigs
  BY <1>1, <1>2 DEF OneType
<1>3. CASE Registers
  <2>1. \A e \in Types : NewSignature(e) \in Signature
    BY DEF NewSignature, Signature
  <2> QED BY <1>3, <2>1 DEF Registers
<1>4. CASE Records
  <2>1. PICK i \in Index(h.path) \ {None}, sha \in Content(h.path) \ {None} :
           sigs' = [sigs EXCEPT ![1] = Recorded(sigs[1], i, h.path, sha)]
    BY <1>4 DEF Records
  <2>2. i \in Indices /\ sha \in Contents
    BY <1>1, AnswersAreTyped
  <2>3. sigs[1] \in Signature /\ 1 \in 1..Len(sigs)
    BY <1>1, <1>4, FirstSignature DEF Records
  <2>4. Recorded(sigs[1], i, h.path, sha) \in Signature
    BY <1>1, <2>2, <2>3, RecordedFacts
  <2>5. Recorded(sigs[1], i, h.path, sha).ext = sigs[1].ext
    <3>1. \A sig \in Signature, p \in Paths : Recorded(sig, i, p, sha).ext = sig.ext
      BY <2>2, RecordedFacts
    <3> QED BY <1>1, <2>3, <3>1
  <2> QED BY <1>1, <2>1, <2>3, <2>4, <2>5, PutSignature, OnlySignature DEF OneType
<1>5. CASE Forgets
  <2>1. sigs[1] \in Signature /\ 1 \in 1..Len(sigs)
    BY <1>1, <1>5, FirstSignature DEF Forgets
  <2>2. NotRecorded(sigs[1]) \in Signature
    BY <2>1, NotRecordedFacts
  <2> QED BY <1>1, <1>5, <2>1, <2>2, PutSignature, NotRecordedFacts DEF Forgets
<1>6. CASE Replaces
  <2>1. /\ sigs' \in Seq(Signature) /\ Len(sigs') = Len(sigs)
        /\ \A j \in 1..Len(sigs) : sigs'[j].ext = sigs[j].ext
    BY <1>6 DEF Replaces, Edits
  <2> QED BY <1>1, <2>1 DEF OneType
<1> QED BY <1>2, <1>3, <1>4, <1>5, <1>6

\* The rest of the state, but for the handler's place and knowledge.
LEMMA FlagsTyped ==
  ASSUME TypeOK, [Next]_vars
  PROVE  /\ server' \in {"ready", "spinning"}
         /\ disk' \in [Paths -> File \cup {None}]
         /\ openOk' \in BOOLEAN /\ keep' \in BOOLEAN /\ fault' \in BOOLEAN
         /\ calm' \in BOOLEAN /\ starved' \in BOOLEAN
         /\ failed' \in [Remembered -> BOOLEAN]
<1> USE DEF TypeOK, Goto, Return, Crash, Looks, Reads, policy, flags
<1>0. h.path \in Paths
  BY LocalEdits
<1>1. CASE Begin
  BY <1>1 DEF Begin
<1>2. CASE Create
  <2>1. PICK ok \in Opens(h.path) :
           /\ openOk' = ok /\ keep' = FALSE
           /\ failed' = [p \in Remembered |-> IF p = h.path THEN ~ok ELSE failed[p]]
    BY <1>2 DEF Create
  <2>2. ok \in BOOLEAN
    BY <1>0, AnswersAreTyped
  <2>3. failed' \in [Remembered -> BOOLEAN]
    BY <2>1, <2>2
  <2>4. fault' = fault
    BY <1>2 DEF Create
  <2> QED BY <1>2, <2>1, <2>2, <2>3, <2>4 DEF Create
<1>3. CASE Kept
  BY <1>3 DEF Kept
<1>4. CASE Query
  BY <1>4 DEF Query
<1>5. CASE Other
  BY <1>5 DEF Other
<1>6. CASE Rename
  BY <1>6 DEF Rename
<1>7. CASE CompareNewName \/ Argument
  BY <1>7 DEF CompareNewName, Argument
<1>8. CASE Compare \/ CompareAgain
  BY <1>8 DEF Compare, CompareAgain
<1>9. CASE Save
  BY <1>9 DEF Save, SaveNode
<1>10. CASE Track \/ CompareSha
  BY <1>10 DEF Track, CompareSha
<1>11. CASE ComparePath
  BY <1>11 DEF ComparePath
<1>12. CASE SetNode
  BY <1>12 DEF SetNode
<1>13. CASE RegisterType \/ RemoveType \/ GetTypes
  BY <1>13 DEF RegisterType, RemoveType, GetTypes, Commands
<1>14. CASE FileChanges
  BY <1>14 DEF FileChanges
<1>15. CASE UNCHANGED vars
  BY <1>15 DEF vars
<1> QED BY <1>1, <1>2, <1>3, <1>4, <1>5, <1>6, <1>7, <1>8, <1>9, <1>10, <1>11,
           <1>12, <1>13, <1>14, <1>15 DEF Next, Handle

\* Where the handler is, and what it knows.
LEMMA HandlerTyped ==
  ASSUME TypeOK, Hashed, [Next]_vars
  PROVE  pc' \in Steps /\ h' \in Local /\ Hashed'
<1> DEFINE Good == pc' \in Steps /\ h' \in Local /\ Hashed'
<1>0. /\ pc \in Steps /\ h \in Local /\ h.path \in Paths /\ h.diff \subseteq {"sha", "path"}
      /\ Content(h.path) \subseteq Contents \cup {None} /\ Paths \subseteq Names
      /\ None \notin Contents
  BY LocalEdits, AnswersAreTyped, SignatureAssumption DEF TypeOK
<1>r. \A verdict \in {"allowed", "denied"} : Return(verdict) => Good
  BY BlankIsLocal DEF Return, Goto, Hashed, Steps
<1>c. Crash => Good
  BY <1>0 DEF Crash, Hashed
<1>g. \A step \in Steps \ {"sha", "path", "set"} : Goto(step) /\ UNCHANGED h => Good
  BY <1>0 DEF Goto, Hashed
<1>u. UNCHANGED <<pc, h>> => Good
  BY <1>0 DEF Hashed
<1>1. CASE Begin
  <2>1. PICK op \in Operation, p \in Paths, new \in Names :
           h' = [Blank EXCEPT !.op = op, !.path = p, !.new = new]
    BY <1>1, <1>0 DEF Begin
  <2>2. h' \in Local
    BY <2>1, BlankIsLocal, LocalEdits
  <2> QED BY <1>1, <2>2 DEF Begin, Hashed, Steps
<1>2. CASE Create \/ Kept
  BY <1>2, <1>r DEF Create, Kept
<1>3. CASE Query \/ Other
  BY <1>3, <1>r, <1>g DEF Query, Other, Steps
<1>4. CASE Rename
  <2>1. \/ Goto("argument") /\ UNCHANGED h
        \/ Return("allowed")
        \/ /\ Goto("rename")
           /\ \E sha \in Content(h.path) :
                h' = [h EXCEPT !.sha = sha, !.list = sigs # <<>>]
    BY <1>4 DEF Rename
  <2>2. ASSUME NEW sha \in Content(h.path), Goto("rename"),
               h' = [h EXCEPT !.sha = sha, !.list = sigs # <<>>]
        PROVE  Good
    <3>1. h' \in Local
      BY <1>0, <2>2, LocalEdits
    <3> QED BY <2>2, <3>1 DEF Goto, Hashed, Steps
  <2> QED BY <2>1, <2>2, <1>r, <1>g DEF Steps
<1>5. CASE CompareNewName
  BY <1>5, <1>r, <1>g, <1>c DEF CompareNewName, Steps
<1>6. CASE Argument
  <2>1. h' \in Local
    BY <1>0, <1>6, LocalEdits DEF Argument, Operation
  <2> QED BY <1>6, <2>1 DEF Argument, Goto, Hashed, Steps
<1>7. CASE Compare
  BY <1>7, <1>r, <1>g, <1>c DEF Compare, Steps
<1>8. CASE CompareAgain
  BY <1>8, <1>r, <1>g DEF CompareAgain, Steps
<1>9. CASE Save
  BY <1>9, <1>r, <1>g, <1>c DEF Save, SaveNode, Steps
<1>10. CASE Track
  <2>1. ASSUME NEW sha \in Contents, Goto("sha"), h' = [h EXCEPT !.sha = sha]
        PROVE  Good
    <3>1. h' \in Local /\ h'.sha = sha
      BY <1>0, <2>1, LocalEdits DEF Local
    <3> QED BY <2>1, <3>1 DEF Goto, Hashed, Steps
  <2> QED BY <1>0, <1>10, <2>1, <1>r DEF Track
<1>11. ASSUME NEW step \in {"path", "set"}, NEW d \in SUBSET {"sha", "path"},
              pc \in {"sha", "path"}, pc' = step, h' = [h EXCEPT !.diff = d]
       PROVE  Good
  <2>1. h' \in Local /\ h'.sha = h.sha
    BY <1>0, <1>11, LocalEdits DEF Local
  <2> QED BY <1>11, <2>1 DEF Hashed, Steps
<1>12. CASE CompareSha
  <2>1. /\ pc = "sha" /\ pc' = "path"
        /\ \E d \in SUBSET {"sha", "path"} : h' = [h EXCEPT !.diff = d]
    BY <1>12 DEF CompareSha, Goto
  <2> QED BY <1>11, <2>1
<1>13. CASE ComparePath
  <2>1. \/ Return("allowed")
        \/ Crash
        \/ /\ pc = "path" /\ pc' = "set"
           /\ \E d \in SUBSET {"sha", "path"} : h' = [h EXCEPT !.diff = d]
    BY <1>0, <1>13 DEF ComparePath, Goto
  <2> QED BY <1>11, <2>1, <1>r, <1>c
<1>14. CASE SetNode
  BY <1>14, <1>r, <1>c DEF SetNode
<1>15. CASE RegisterType \/ RemoveType \/ GetTypes \/ FileChanges
  BY <1>15, <1>u DEF RegisterType, RemoveType, GetTypes, Commands, FileChanges
<1>16. CASE UNCHANGED vars
  BY <1>16, <1>u DEF vars
<1> QED BY <1>1, <1>2, <1>3, <1>4, <1>5, <1>6, <1>7, <1>8, <1>9, <1>10, <1>12,
           <1>13, <1>14, <1>15, <1>16 DEF Next, Handle

TypeInv == TypeOK /\ OneType /\ Hashed

LEMMA TypeStep == TypeInv /\ [Next]_vars => TypeInv'
<1> SUFFICES ASSUME TypeInv, [Next]_vars
             PROVE  TypeInv'
  OBVIOUS
<1>1. sigs' \in Seq(Signature) /\ Len(sigs') <= 1
  BY ListStep, ListTyped DEF TypeInv
<1> QED BY <1>1, FlagsTyped, HandlerTyped DEF TypeInv, TypeOK, OneType

LEMMA TypeInvHolds == Spec => []TypeInv
<1>1. Init => TypeInv
  BY TypeInit DEF Init, TypeInv, OneType, Hashed
<1> QED BY <1>1, TypeStep, PTL DEF Spec

\* DlpFilter is type-correct (the record and the lists of the filter).
THEOREM DlpTypeCorrect == Spec => []TypeOK
BY TypeInvHolds, PTL DEF TypeInv

\* What the refusal of every type but the first one (RUST_DLP_Get_File_Signatures)
\* amounts to: commands neither remove nor replace that type nor add another, in
\* whatever order they come, and handlers change its files only.
TheFirstTypeStays ==
    [][ sigs # <<>> => Len(sigs') = 1 /\ sigs'[1].ext = sigs[1].ext ]_vars

\* The server can register one file type for the life of the driver.
THEOREM FirstTypeStays == Spec => TheFirstTypeStays
<1> DEFINE A == sigs # <<>> => Len(sigs') = 1 /\ sigs'[1].ext = sigs[1].ext
<1>1. TypeInv /\ [Next]_vars => [A]_vars
  <2> SUFFICES ASSUME TypeInv, [Next]_vars
               PROVE  A
    OBVIOUS
  <2> QED BY ListStep, ListTyped DEF TypeInv
<1> HIDE DEF A
<1>2. Spec => [][A]_vars
  BY <1>1, TypeInvHolds, PTL DEF Spec
<1> QED BY <1>2 DEF A, TheFirstTypeStays

-----------------------------------------------------------------------------
(* NULL pointers.  A current pointer that is NULL behind files, and a node *)
(* without a path, are left behind by an allocation that has failed.       *)

NullInv ==
    ~starved => \A j \in 1..Len(sigs) :
                   /\ sigs[j].files # <<>> => sigs[j].tail
                   /\ \A n \in 1..Len(sigs[j].files) : sigs[j].files[n].path # None

LEMMA StarvedStays ==
  ASSUME [Next]_vars, starved
  PROVE  starved'
BY DEF Next, Handle, Begin, Create, Kept, Query, Other, Rename, CompareNewName,
       Argument, Compare, Save, SaveNode, CompareAgain, Track, CompareSha,
       ComparePath, SetNode, RegisterType, RemoveType, GetTypes, FileChanges,
       Reads, Looks, Commands, vars

LEMMA NullStep ==
  ASSUME TypeInv, NullInv, [Next]_vars
  PROVE  NullInv'
<1> SUFFICES ASSUME ~starved, ~starved'
             PROVE  \A j \in 1..Len(sigs') :
                       /\ sigs'[j].files # <<>> => sigs'[j].tail
                       /\ \A n \in 1..Len(sigs'[j].files) : sigs'[j].files[n].path # None
  BY StarvedStays DEF NullInv
<1>1. /\ sigs \in Seq(Signature) /\ Len(sigs) <= 1 /\ h.path \in Paths /\ h.path # None
      /\ (sigs # <<>> => Len(sigs) = 1)
  <2>1. sigs \in Seq(Signature) /\ h \in Local /\ Len(sigs) <= 1
    BY DEF TypeInv, TypeOK, OneType
  <2>2. h.path \in Paths
    BY <2>1, LocalEdits
  <2> QED BY <2>1, <2>2, SignatureAssumption, OnlySignature
<1>2. \A j \in 1..Len(sigs) :
         /\ sigs[j].files # <<>> => sigs[j].tail
         /\ \A n \in 1..Len(sigs[j].files) : sigs[j].files[n].path # None
  BY DEF NullInv
<1>3. CASE sigs' = sigs
  BY <1>2, <1>3
<1>4. CASE Registers
  <2>1. PICK e \in Types : sigs' = <<NewSignature(e)>>
    BY <1>4 DEF Registers
  <2> QED BY <2>1 DEF NewSignature
<1>5. CASE Records
  <2>1. PICK i \in Index(h.path) \ {None}, sha \in Content(h.path) \ {None} :
           sigs' = [sigs EXCEPT ![1] = Recorded(sigs[1], i, h.path, sha)]
    BY <1>5 DEF Records
  <2> DEFINE r == Recorded(sigs[1], i, h.path, sha)
             f == sigs[1].files
  <2>2. i \in Indices /\ sha \in Contents
    BY <1>1, AnswersAreTyped DEF TypeInv
  <2>3. /\ sigs[1] \in Signature /\ 1 \in 1..Len(sigs)
        /\ f \in Seq(FileNode)
    BY <1>1, <1>5, FirstSignature DEF Records
  <2>4. /\ r.tail = TRUE
        /\ r.files = Append(f, [index |-> i, path |-> h.path, sha |-> sha])
    <3>1. \A sig \in Signature, p \in Paths :
             /\ Recorded(sig, i, p, sha).tail = TRUE
             /\ Recorded(sig, i, p, sha).files
                  = Append(sig.files, [index |-> i, path |-> p, sha |-> sha])
      BY <2>2, RecordedFacts
    <3> QED BY <1>1, <2>3, <3>1
  <2>5. \A n \in 1..Len(r.files) : r.files[n].path # None
    <3> DEFINE x == [index |-> i, path |-> h.path, sha |-> sha]
    <3>1. x.path = h.path
      OBVIOUS
    <3> HIDE DEF x
    <3>2. \A n \in 1..Len(Append(f, x)) : Append(f, x)[n] = x \/ (n \in 1..Len(f) /\ Append(f, x)[n] = f[n])
      BY <2>3
    <3> QED BY <1>1, <1>2, <2>3, <2>4, <3>1, <3>2 DEF x
  <2>6. Len(sigs') = 1 /\ sigs'[1] = r
    BY <1>1, <2>1, <2>3
  <2> HIDE DEF r
  <2> QED BY <2>4, <2>5, <2>6
<1>6. CASE Forgets
  BY <1>6 DEF Forgets
<1>7. CASE Replaces
  <2>1. /\ Len(sigs') = Len(sigs)
        /\ \A j \in 1..Len(sigs) :
             /\ sigs'[j].tail = sigs[j].tail
             /\ Len(sigs'[j].files) = Len(sigs[j].files)
             /\ sigs'[j] \in Signature
             /\ \A n \in 1..Len(sigs[j].files) :
                  sigs'[j].files[n].path \in {sigs[j].files[n].path, h.path}
    <3>1. PICK i : /\ Edits(sigs, sigs', i)
                   /\ \A j \in 1..Len(sigs) : \A n \in 1..Len(sigs[j].files) :
                        sigs'[j].files[n].path \in {sigs[j].files[n].path, h.path}
      BY <1>7 DEF Replaces
    <3>2. sigs' \in Seq(Signature) /\ Len(sigs') = Len(sigs)
      BY <3>1 DEF Edits
    <3>3. \A j \in 1..Len(sigs) : sigs'[j] \in Signature
      BY <3>2
    <3>4. \A j \in 1..Len(sigs) : /\ sigs'[j].tail = sigs[j].tail
                                   /\ Len(sigs'[j].files) = Len(sigs[j].files)
      BY <3>1 DEF Edits
    <3> QED BY <3>1, <3>2, <3>3, <3>4
  <2>2. \A s \in Signature : s.files # <<>> <=> Len(s.files) # 0
    <3>1. \A s \in Signature : s.files \in Seq(FileNode)
      BY DEF Signature
    <3> QED BY <3>1
  <2>3. \A j \in 1..Len(sigs) : sigs[j] \in Signature
    BY <1>1
  <2> QED BY <1>1, <1>2, <2>1, <2>2, <2>3
<1> QED BY <1>3, <1>4, <1>5, <1>6, <1>7, ListStep DEF TypeInv

LEMMA NullInvHolds == Spec => []NullInv
<1>1. Init => NullInv
  BY DEF Init, NullInv
<1> QED BY <1>1, TypeInvHolds, NullStep, PTL DEF Spec

\* An append through a NULL pointer, or a path that is NULL, needs a failed
\* allocation.
LEMMA CausesOfNull ==
  ASSUME TypeInv, NullInv, ~starved
  PROVE  /\ \A j \in 1..Len(sigs) : ~AppendsToNull(sigs[j])
         /\ \A i : ~LostItsPath(sigs, i)
<1>1. \A j \in 1..Len(sigs) : ~AppendsToNull(sigs[j])
  BY DEF NullInv, AppendsToNull
<1>2. ASSUME NEW i, LostItsPath(sigs, i)
      PROVE  FALSE
  <2>1. sigs \in Seq(Signature)
    BY DEF TypeInv, TypeOK
  <2>2. PICK j \in 1..Len(sigs) : /\ HasNode(sigs[j], i)
                                  /\ sigs[j].files[NodeOf(sigs[j].files, i)].path = None
    BY <1>2, <2>1 DEF LostItsPath, IsRecorded
  <2>3. sigs[j].files \in Seq(FileNode)
    <3>1. sigs[j] \in Signature
      BY <2>1, <2>2
    <3> QED BY <3>1 DEF Signature
  <2>4. NodeOf(sigs[j].files, i) \in 1..Len(sigs[j].files)
    BY <2>2, <2>3, NodeOfFacts DEF HasNode
  <2> QED BY <2>2, <2>4 DEF NullInv
<1> QED BY <1>1, <1>2

\* The filter uses a NULL pointer only after an allocation has failed or when
\* the first type is registered between two looks at the list
\* (Policy_Signature_Compare and the node functions it calls).
THEOREM FaultHasACause == Spec => FaultNeedsACause
<1> DEFINE A == fault' /\ ~fault =>
                  \/ starved
                  \/ pc \in {"rename", "compare"} /\ sigs # <<>> /\ ~h.list
<1>1. TypeInv /\ NullInv /\ [Next]_vars => [A]_vars
  <2> SUFFICES ASSUME TypeInv, NullInv, [Next]_vars, fault', ~fault, ~starved
               PROVE  pc \in {"rename", "compare"} /\ sigs # <<>> /\ ~h.list
    OBVIOUS
  <2>1. CASE CompareNewName
    BY <2>1 DEF CompareNewName, Return, Goto
  <2>2. CASE Compare
    BY <2>2 DEF Compare, Return, Goto
  <2>3. CASE Save
    <3>1. PICK i \in Index(h.path), sha \in Content(h.path) :
             \/ fault' = fault
             \/ LostItsPath(sigs, i)
             \/ /\ ~Refused(i, sha)
                /\ SaveNode(SignatureOf(sigs, h.path), i, sha)
      BY <2>3 DEF Save, Return, Goto
    <3>2. ~LostItsPath(sigs, i)
      BY CausesOfNull
    <3>3. CASE ~Refused(i, sha) /\ SaveNode(SignatureOf(sigs, h.path), i, sha)
      <4>1. SignatureOf(sigs, h.path) # 0
        BY <3>3 DEF Refused
      <4>2. SignatureOf(sigs, h.path) \in 1..Len(sigs)
        BY <4>1, SignatureOfOne, OnlySignature DEF TypeInv, TypeOK, OneType
      <4>3. ~AppendsToNull(sigs[SignatureOf(sigs, h.path)])
        BY <4>2, CausesOfNull
      <4> QED BY <3>3, <4>3 DEF SaveNode, Goto
    <3> QED BY <3>1, <3>2, <3>3
  <2>4. CASE ComparePath
    <3>1. \E i \in Index(h.path) : LostItsPath(sigs, i) \/ fault' = fault
      BY <2>4 DEF ComparePath, Return, Goto
    <3> QED BY <3>1, CausesOfNull
  <2>5. CASE SetNode
    <3>1. \E i \in Index(h.path) : LostItsPath(sigs, i) \/ fault' = fault
      BY <2>5 DEF SetNode, Return, Goto
    <3> QED BY <3>1, CausesOfNull
  <2>6. CASE \/ Begin \/ Create \/ Kept \/ Query \/ Other \/ Rename \/ Argument
             \/ CompareAgain \/ Track \/ CompareSha
    BY <2>6 DEF Begin, Create, Kept, Query, Other, Rename, Argument, CompareAgain,
                Track, CompareSha, Return, Goto
  <2>7. CASE RegisterType \/ RemoveType \/ GetTypes \/ FileChanges \/ UNCHANGED vars
    BY <2>7 DEF RegisterType, RemoveType, GetTypes, FileChanges, Commands, vars
  <2> QED BY <2>1, <2>2, <2>3, <2>4, <2>5, <2>6, <2>7 DEF Next, Handle
<1> HIDE DEF A
<1>2. Spec => [][A]_vars
  BY <1>1, TypeInvHolds, NullInvHolds, PTL DEF Spec
<1> QED BY <1>2 DEF A, FaultNeedsACause

-----------------------------------------------------------------------------
(* What an undisturbed handler knows.  While nothing has failed or changed *)
(* since it began (calm), the file is there, its node is missing at "save" *)
(* and found afterwards, and what the handler has compared is so.          *)

Ix == disk[h.path].index

Here == disk[h.path] # None /\ sigs # <<>>

NodeHere == sigs[1].files[NodeOf(sigs[1].files, Ix)]

Saw ==
    calm => /\ pc = "save" => Here /\ ~HasNode(sigs[1], Ix)
            /\ pc \in {"again", "track", "sha", "path", "set"} =>
                  Here /\ HasNode(sigs[1], Ix)
            /\ pc \in {"sha", "path", "set"} => h.sha = disk[h.path].content
            /\ pc \in {"path", "set"} /\ "sha" \notin h.diff => NodeHere.sha = h.sha
            /\ pc = "set" /\ "path" \notin h.diff => NodeHere.path = h.path

\* An answer that is no error is about the file that is there.
LEMMA TrueAnswers ==
  /\ \A i \in Index(h.path) : i # None => disk[h.path] # None /\ i = Ix
  /\ \A sha \in Content(h.path) : sha # None =>
        disk[h.path] # None /\ sha = disk[h.path].content
BY DEF Index, Content, Ix

LEMMA KnownOne ==
  ASSUME TypeInv, NEW i, Matches(i)
  PROVE  sigs # <<>> /\ (Known(i) <=> HasNode(sigs[1], i))
<1>1. ComparedTo(sigs, h.path, i) = 1 /\ sigs # <<>>
  BY ComparedToOne DEF Matches, TypeInv, TypeOK, OneType
<1> QED BY <1>1 DEF Known

LEMMA SawUnchanged ==
  ASSUME Saw, UNCHANGED <<sigs, disk, pc, h>>, calm' => calm
  PROVE  Saw'
BY DEF Saw, Here, NodeHere, Ix

\* Where nothing is claimed.
LEMMA SawNothing ==
  ASSUME calm' => pc' \notin {"save", "again", "track", "sha", "path", "set"}
  PROVE  Saw'
BY DEF Saw

LEMMA RecordedIsFound ==
  ASSUME TypeInv, Records, NEW i \in Indices, NEW sha \in Contents,
         sigs' = [sigs EXCEPT ![1] = Recorded(sigs[1], i, h.path, sha)]
  PROVE  /\ sigs' # <<>>
         /\ sigs'[1].files = Append(sigs[1].files, [index |-> i, path |-> h.path, sha |-> sha])
         /\ HasNode(sigs'[1], i)
<1> DEFINE x == [index |-> i, path |-> h.path, sha |-> sha]
           f == sigs[1].files
<1>1. /\ sigs \in Seq(Signature) /\ sigs[1] \in Signature /\ 1 \in 1..Len(sigs)
      /\ f \in Seq(FileNode) /\ h.path \in Paths
  <2>1. sigs \in Seq(Signature) /\ h \in Local /\ sigs # <<>>
    BY DEF TypeInv, TypeOK, Records
  <2>2. sigs[1] \in Signature /\ sigs[1].files \in Seq(FileNode)
    BY <2>1, FirstSignature
  <2>3. 1 \in 1..Len(sigs)
    BY <2>1
  <2>4. h.path \in Paths
    BY <2>1, LocalEdits
  <2> QED BY <2>1, <2>2, <2>3, <2>4
<1>2. sigs'[1].files = Append(f, x) /\ sigs' # <<>>
  <2>1. \A sig \in Signature, p \in Paths :
           Recorded(sig, i, p, sha).files
             = Append(sig.files, [index |-> i, path |-> p, sha |-> sha])
    BY RecordedFacts
  <2>2. Recorded(sigs[1], i, h.path, sha).files = Append(f, x)
    BY <1>1, <2>1
  <2> HIDE DEF x, f
  <2> QED BY <1>1, <2>2
<1>3. Append(f, x) \in Seq(FileNode) /\ Len(Append(f, x)) = Len(f) + 1 /\ Len(f) \in Nat
  <2>1. x \in FileNode
    BY <1>1 DEF FileNode
  <2> HIDE DEF x
  <2> QED BY <1>1, <2>1
<1>4. Append(f, x)[Len(f) + 1].index = i
  <2>1. x.index = i
    OBVIOUS
  <2> HIDE DEF x
  <2> QED BY <1>1, <2>1
<1>5. NodeOf(Append(f, x), i) # 0
  <2> HIDE DEF x, f
  <2>1. Len(f) + 1 \in 1..Len(Append(f, x))
    BY <1>3
  <2>2. NodeOf(Append(f, x), i) \in 1..(Len(f) + 1)
    BY <1>3, <1>4, <2>1, NodeOfFacts
  <2> QED BY <2>2
<1> QED BY <1>2, <1>5 DEF HasNode

LEMMA CompareSaw ==
  ASSUME TypeInv, Saw, Compare
  PROVE  Saw'
<1>1. PICK i \in Index(h.path) :
         /\ calm' = (calm /\ i # None)
         /\ \/ pc' = pc
            \/ pc' = "allowed"
            \/ /\ Matches(i)
               /\ pc' = IF Known(i) THEN "track" ELSE "save"
               /\ UNCHANGED h
  BY DEF Compare, Crash, Return, Goto
<1>2. UNCHANGED <<sigs, disk>> /\ pc = "compare"
  BY DEF Compare, Reads, Looks
<1>3. CASE pc' = pc \/ pc' = "allowed"
  BY <1>2, <1>3, SawNothing
<1>4. CASE Matches(i) /\ pc' = (IF Known(i) THEN "track" ELSE "save") /\ UNCHANGED h
  <2> SUFFICES ASSUME calm'
               PROVE  Saw'
    BY DEF Saw
  <2>1. disk[h.path] # None /\ i = Ix
    BY <1>1, TrueAnswers
  <2>2. sigs # <<>> /\ (Known(i) <=> HasNode(sigs[1], i))
    BY <1>4, KnownOne
  <2>3. Ix' = Ix /\ (Here <=> Here') /\ (HasNode(sigs[1], Ix)' <=> HasNode(sigs[1], Ix))
    BY <1>2, <1>4 DEF Ix, Here
  <2> QED BY <1>4, <2>1, <2>2, <2>3 DEF Saw, Here
<1> QED BY <1>1, <1>3, <1>4

LEMMA SaveSaw ==
  ASSUME TypeInv, Saw, Save
  PROVE  Saw'
<1>1. pc = "save" /\ UNCHANGED disk
  BY DEF Save, Looks
<1>2. PICK i \in Index(h.path), sha \in Content(h.path) :
         \/ pc' = "allowed"
         \/ UNCHANGED <<sigs, calm, pc, h>>
         \/ /\ ~Refused(i, sha)
            /\ SaveNode(SignatureOf(sigs, h.path), i, sha)
  BY DEF Save, Return, Goto, Crash
<1>3. CASE pc' = "allowed"
  BY <1>3, SawNothing
<1>4. CASE UNCHANGED <<sigs, calm, pc, h>>
  BY <1>1, <1>4, SawUnchanged
<1>5. CASE ~Refused(i, sha) /\ SaveNode(SignatureOf(sigs, h.path), i, sha)
  <2>1. i # None /\ sha # None /\ SignatureOf(sigs, h.path) # 0
    BY <1>5 DEF Refused
  <2>2. SignatureOf(sigs, h.path) = 1 /\ sigs # <<>>
    BY <2>1, SignatureOfOne DEF TypeInv, TypeOK, OneType
  <2>3. \/ UNCHANGED <<sigs, calm, pc, h>>
        \/ /\ ~AppendsToNull(sigs[1])
           /\ sigs' = [sigs EXCEPT ![1] = Recorded(sigs[1], i, h.path, sha)]
           /\ pc' = "again" /\ UNCHANGED h
        \/ ~calm'
    BY <1>5, <2>2 DEF SaveNode, Goto, Crash
  <2>4. ASSUME ~AppendsToNull(sigs[1]), pc' = "again", UNCHANGED h,
               sigs' = [sigs EXCEPT ![1] = Recorded(sigs[1], i, h.path, sha)]
        PROVE  Saw'
    <3>1. h.path \in Paths
      BY LocalEdits DEF TypeInv, TypeOK
    <3>2. i \in Indices /\ sha \in Contents
      BY <2>1, <3>1, AnswersAreTyped DEF TypeInv
    <3>3. Records
      BY <1>1, <2>1, <2>2, <2>4 DEF Records
    <3>4. sigs' # <<>> /\ HasNode(sigs'[1], i)
      BY <2>4, <3>2, <3>3, RecordedIsFound
    <3>5. disk[h.path] # None /\ i = Ix
      BY <2>1, TrueAnswers
    <3>6. Ix' = Ix /\ Here'
      BY <1>1, <2>4, <3>4, <3>5 DEF Ix, Here
    <3>7. HasNode(sigs[1], Ix)'
      BY <3>4, <3>5, <3>6
    <3> QED BY <2>4, <3>6, <3>7 DEF Saw
  <2> QED BY <1>1, <2>3, <2>4, SawUnchanged, SawNothing
<1> QED BY <1>2, <1>3, <1>4, <1>5

LEMMA LooksSaw ==
  ASSUME TypeInv, Saw, CompareAgain \/ Track \/ CompareSha \/ ComparePath
  PROVE  Saw'
<1> USE DEF Reads, Looks, Goto, Return, Crash
<1>0. UNCHANGED <<sigs, disk>>
  BY DEF CompareAgain, Track, CompareSha, ComparePath
<1>s. sigs \in Seq(Signature) /\ Len(sigs) <= 1
  BY DEF TypeInv, TypeOK, OneType
<1>e. UNCHANGED <<h>> => Ix' = Ix /\ (Here <=> Here') /\ (HasNode(sigs[1], Ix)' <=> HasNode(sigs[1], Ix))
  BY <1>0 DEF Ix, Here
<1>f. h'.path = h.path => /\ Ix' = Ix /\ (Here <=> Here') /\ NodeHere' = NodeHere
                          /\ (HasNode(sigs[1], Ix)' <=> HasNode(sigs[1], Ix))
                          /\ disk'[h'.path] = disk[h.path]
  BY <1>0 DEF Ix, Here, NodeHere
<1>h. /\ \A sha : [h EXCEPT !.sha = sha].path = h.path /\ [h EXCEPT !.sha = sha].diff = h.diff
      /\ \A d : /\ [h EXCEPT !.diff = d].path = h.path
                /\ [h EXCEPT !.diff = d].sha = h.sha /\ [h EXCEPT !.diff = d].diff = d
      /\ \A sha : [h EXCEPT !.sha = sha].sha = sha
  BY DEF TypeInv, TypeOK, Local
<1>1. CASE CompareAgain
  <2>1. pc = "again" /\ (pc' = "allowed" \/ (pc' = "track" /\ UNCHANGED h)) /\ (calm' => calm)
    BY <1>1 DEF CompareAgain
  <2> QED BY <2>1, <1>e, SawNothing DEF Saw
<1>2. CASE Track
  <2>1. PICK sha \in Content(h.path) :
           /\ pc = "track" /\ calm' = (calm /\ sha # None)
           /\ \/ pc' = "allowed"
              \/ pc' = "sha" /\ h' = [h EXCEPT !.sha = sha]
    BY <1>2 DEF Track
  <2>2. CASE pc' = "sha" /\ h' = [h EXCEPT !.sha = sha]
    <3>1. calm' => sha = disk[h.path].content
      BY <2>1, TrueAnswers
    <3>2. h'.path = h.path /\ h'.sha = sha
      BY <2>2, <1>h
    <3> QED BY <2>1, <2>2, <3>1, <3>2, <1>f DEF Saw
  <2> QED BY <2>1, <2>2, SawNothing
<1>3. CASE CompareSha
  <2>1. PICK i \in Index(h.path) :
           /\ calm' = (calm /\ i # None)
           /\ h' = [h EXCEPT !.diff = IF i # None /\ HasSha(sigs, i, h.sha)
                                      THEN {} ELSE {"sha"}]
    BY <1>3 DEF CompareSha
  <2>2. pc = "sha" /\ pc' = "path"
    BY <1>3 DEF CompareSha
  <2>3. h'.path = h.path /\ h'.sha = h.sha
        /\ h'.diff = IF i # None /\ HasSha(sigs, i, h.sha) THEN {} ELSE {"sha"}
    BY <2>1, <1>h
  <2>4. calm' /\ "sha" \notin h'.diff => NodeHere.sha = h.sha
    <3> SUFFICES ASSUME calm', "sha" \notin h'.diff
                 PROVE  NodeHere.sha = h.sha
      OBVIOUS
    <3>1. i = Ix /\ HasSha(sigs, i, h.sha)
      BY <2>1, <2>3, TrueAnswers
    <3> QED BY <1>s, <3>1, HasShaOne DEF NodeHas, NodeHere
  <2> QED BY <2>1, <2>2, <2>3, <2>4, <1>f DEF Saw
<1>4. CASE ComparePath
  <2>1. PICK i \in Index(h.path) :
           /\ calm' = (calm /\ i # None)
           /\ \/ pc' = "allowed"
              \/ UNCHANGED <<pc, h>>
              \/ /\ pc' = "set"
                 /\ h' = [h EXCEPT !.diff = IF i # None /\ HasPath(sigs, i, h.path)
                                            THEN h.diff ELSE h.diff \cup {"path"}]
    BY <1>4 DEF ComparePath
  <2>2. pc = "path"
    BY <1>4 DEF ComparePath
  <2>3. CASE pc' = "allowed"
    BY <2>3, SawNothing
  <2>4. CASE UNCHANGED <<pc, h>>
    BY <1>0, <2>1, <2>4, SawUnchanged
  <2>5. CASE /\ pc' = "set"
             /\ h' = [h EXCEPT !.diff = IF i # None /\ HasPath(sigs, i, h.path)
                                        THEN h.diff ELSE h.diff \cup {"path"}]
    <3>1. /\ h'.path = h.path /\ h'.sha = h.sha
          /\ h'.diff = IF i # None /\ HasPath(sigs, i, h.path)
                       THEN h.diff ELSE h.diff \cup {"path"}
      BY <2>5, <1>h
    <3>2. calm' /\ "path" \notin h'.diff => NodeHere.path = h.path
      <4> SUFFICES ASSUME calm', "path" \notin h'.diff
                   PROVE  NodeHere.path = h.path
        OBVIOUS
      <4>1. i = Ix /\ HasPath(sigs, i, h.path)
        BY <2>1, <3>1, TrueAnswers
      <4> QED BY <1>s, <4>1, HasPathOne DEF NodeHas, NodeHere
    <3>3. "sha" \notin h'.diff => "sha" \notin h.diff
      BY <3>1
    <3> QED BY <2>1, <2>2, <2>5, <3>1, <3>2, <3>3, <1>f DEF Saw
  <2> QED BY <2>1, <2>3, <2>4, <2>5
<1> QED BY <1>1, <1>2, <1>3, <1>4

LEMMA SetSaw ==
  ASSUME Saw, SetNode
  PROVE  Saw'
<1>1. PICK i \in Index(h.path) :
         \/ pc' = "allowed"
         \/ UNCHANGED <<sigs, calm, pc, h>>
  BY DEF SetNode, Return, Goto, Crash
<1>2. CASE pc' = "allowed"
  BY <1>2, SawNothing
<1>3. CASE UNCHANGED <<sigs, calm, pc, h>>
  <2>1. UNCHANGED disk
    BY DEF SetNode, Looks
  <2> QED BY <1>3, <2>1, SawUnchanged
<1> QED BY <1>1, <1>2, <1>3

\* The command registers a type only when there is none: no claim is made.
LEMMA CommandSaw ==
  ASSUME TypeInv, Saw, RegisterType \/ RemoveType \/ GetTypes
  PROVE  Saw'
<1>1. UNCHANGED <<disk, pc, h, calm>>
  BY DEF RegisterType, RemoveType, GetTypes, Commands
<1>2. sigs' = sigs \/ sigs = <<>>
  BY CommandChangesTheList DEF TypeInv, Registers
<1>3. CASE sigs' = sigs
  BY <1>1, <1>3, SawUnchanged
<1>4. CASE sigs = <<>>
  BY <1>1, <1>4, SawNothing DEF Saw, Here
<1> QED BY <1>2, <1>3, <1>4

LEMMA SawStep ==
  ASSUME TypeInv, Saw, [Next]_vars
  PROVE  Saw'
<1>1. CASE Begin \/ Create \/ Kept \/ Query \/ Other \/ Rename
  BY <1>1, SawNothing DEF Begin, Create, Kept, Query, Other, Rename, Return, Goto
<1>2. CASE CompareNewName
  BY <1>2, SawNothing DEF CompareNewName, Return, Goto, Crash
<1>3. CASE Argument
  BY <1>3, SawNothing DEF Argument, Goto
<1>4. CASE FileChanges
  BY <1>4 DEF FileChanges, Saw
<1>5. CASE UNCHANGED vars
  <2>1. UNCHANGED <<sigs, disk, pc, h, calm>>
    BY <1>5 DEF vars, policy
  <2> QED BY <2>1, SawUnchanged
<1> QED BY <1>1, <1>2, <1>3, <1>4, <1>5, CompareSaw, SaveSaw, LooksSaw, SetSaw,
           CommandSaw DEF Next, Handle

LEMMA SawHolds == Spec => [](TypeInv /\ Saw)
<1>1. Init => Saw
  BY DEF Init, Saw
<1> QED BY <1>1, TypeInvHolds, SawStep, PTL DEF Spec

-----------------------------------------------------------------------------
(* A file has one node: what is appended is a file that was not there, and *)
(* nothing else changes the index of a node.                               *)

LEMMA SameIndices ==
  ASSUME TypeOK, OneNodePerFile, Len(sigs') = Len(sigs),
         \A j \in 1..Len(sigs) :
            /\ Len(sigs'[j].files) = Len(sigs[j].files)
            /\ \A n \in 1..Len(sigs[j].files) :
                 sigs'[j].files[n].index = sigs[j].files[n].index,
         sigs' \in Seq(Signature)
  PROVE  OneNodePerFile'
<1>1. DOMAIN sigs' = 1..Len(sigs') /\ DOMAIN sigs = 1..Len(sigs)
  BY DEF TypeOK
<1>2. \A j \in 1..Len(sigs) : /\ DOMAIN sigs[j].files = 1..Len(sigs[j].files)
                              /\ DOMAIN sigs'[j].files = 1..Len(sigs[j].files)
  <2>1. \A sig \in Signature : DOMAIN sig.files = 1..Len(sig.files)
    BY DEF Signature
  <2>2. \A j \in 1..Len(sigs) : sigs[j] \in Signature /\ sigs'[j] \in Signature
    BY DEF TypeOK
  <2> QED BY <2>1, <2>2
<1>3. \A j \in 1..Len(sigs) : \A m, n \in 1..Len(sigs[j].files) :
         sigs[j].files[m].index = sigs[j].files[n].index => m = n
  BY <1>1, <1>2 DEF OneNodePerFile
<1>4. ASSUME NEW j \in 1..Len(sigs), NEW m \in 1..Len(sigs[j].files),
             NEW n \in 1..Len(sigs[j].files),
             sigs'[j].files[m].index = sigs'[j].files[n].index
      PROVE  m = n
  <2>1. sigs[j].files[m].index = sigs[j].files[n].index
    BY <1>4
  <2> QED BY <1>3, <2>1
<1>5. \A j \in DOMAIN sigs' : \A m, n \in DOMAIN sigs'[j].files :
         sigs'[j].files[m].index = sigs'[j].files[n].index => m = n
  BY <1>1, <1>2, <1>4
<1> QED BY <1>5 DEF OneNodePerFile

\* A second node for a file needs a change between the search for it and the
\* save (the calls of Policy_Signature_Compare in one handler).
LEMMA OneNodeStep ==
  ASSUME TypeInv, Saw, [Next]_vars, OneNodePerFile, calm
  PROVE  OneNodePerFile'
<1>1. /\ sigs \in Seq(Signature) /\ h.path \in Paths
      /\ (sigs # <<>> => Len(sigs) = 1) /\ sigs' \in Seq(Signature)
  <2>1. sigs \in Seq(Signature) /\ h \in Local
    BY DEF TypeInv, TypeOK
  <2> QED BY <2>1, OnlySignature, LocalEdits, TypeStep DEF TypeInv, TypeOK, OneType
<1>2. CASE sigs' = sigs
  BY <1>2 DEF OneNodePerFile
<1>3. CASE Registers
  BY <1>3 DEF Registers, NewSignature, OneNodePerFile
<1>4. CASE Records
  <2>1. PICK i \in Index(h.path) \ {None}, sha \in Content(h.path) \ {None} :
           sigs' = [sigs EXCEPT ![1] = Recorded(sigs[1], i, h.path, sha)]
    BY <1>4 DEF Records
  <2> DEFINE f == sigs[1].files
             x == [index |-> i, path |-> h.path, sha |-> sha]
  <2>2. i \in Indices /\ sha \in Contents
    BY <1>1, AnswersAreTyped DEF TypeInv
  <2>3. sigs # <<>> /\ f \in Seq(FileNode) /\ Len(sigs) = 1 /\ Len(f) \in Nat
    <3>1. sigs # <<>>
      BY <1>4 DEF Records
    <3>2. f \in Seq(FileNode)
      BY <1>1, <3>1, FirstSignature
    <3> HIDE DEF f
    <3> QED BY <1>1, <3>1, <3>2
  <2>4. ~HasNode(sigs[1], i)
    BY <1>4, TrueAnswers DEF Saw, Records
  <2>5. \A n \in 1..Len(f) : f[n].index # i
    <3> SUFFICES ASSUME NEW n \in 1..Len(f), f[n].index = i
                 PROVE  FALSE
      OBVIOUS
    <3>1. NodeOf(f, i) \in 1..n
      BY <2>3, NodeOfFacts
    <3>2. NodeOf(f, i) = 0
      BY <2>4 DEF HasNode
    <3> QED BY <3>1, <3>2
  <2>6. sigs'[1].files = Append(f, x) /\ Len(sigs') = 1
    <3>1. sigs'[1].files = Append(f, x)
      BY <1>4, <2>1, <2>2, RecordedIsFound
    <3>2. Len(sigs') = Len(sigs)
      BY <1>1, <2>1
    <3> QED BY <2>3, <3>1, <3>2
  <2>7. /\ Len(Append(f, x)) = Len(f) + 1
        /\ DOMAIN Append(f, x) = 1..(Len(f) + 1)
        /\ Append(f, x)[Len(f) + 1].index = i
        /\ \A n \in 1..Len(f) : Append(f, x)[n] = f[n]
    <3>1. x.index = i
      OBVIOUS
    <3> HIDE DEF x, f
    <3> QED BY <2>3, <3>1
  <2>8. \A m, n \in 1..Len(f) : f[m].index = f[n].index => m = n
    <3>1. 1 \in DOMAIN sigs /\ DOMAIN f = 1..Len(f)
      BY <1>1, <2>3
    <3> QED BY <3>1 DEF OneNodePerFile
  <2>9. \A m, n \in 1..(Len(f) + 1) :
           Append(f, x)[m].index = Append(f, x)[n].index => m = n
    <3>1. \A m \in 1..(Len(f) + 1) : m \in 1..Len(f) \/ m = Len(f) + 1
      BY <2>3
    <3> HIDE DEF x, f
    <3> QED BY <2>5, <2>7, <2>8, <3>1
  <2>10. DOMAIN sigs' = {1}
    BY <1>1, <2>6
  <2> HIDE DEF x, f
  <2> QED BY <2>6, <2>7, <2>9, <2>10 DEF OneNodePerFile
<1>5. CASE Forgets
  <2>1. sigs[1] \in Signature /\ Len(sigs) = 1
    BY <1>1, <1>5, FirstSignature DEF Forgets
  <2>2. sigs'[1].files = sigs[1].files /\ Len(sigs') = Len(sigs)
    BY <1>1, <1>5, <2>1, NotRecordedFacts DEF Forgets
  <2> QED BY <1>1, <2>1, <2>2, SameIndices DEF TypeInv
<1>6. CASE Replaces
  BY <1>1, <1>6, SameIndices DEF TypeInv, Replaces, Edits
<1> QED BY <1>2, <1>3, <1>4, <1>5, <1>6, ListStep DEF TypeInv

\* As long as nothing changes under a handler, a file gets one node (SAVE mode
\* of Policy_Signature_Compare, which looks at the first node only).
THEOREM OneNodeUndisturbed == Spec => DuplicateNeedsAChange
<1> DEFINE A == OneNodePerFile /\ calm => OneNodePerFile'
<1>1. (TypeInv /\ Saw) /\ [Next]_vars => [A]_vars
  BY OneNodeStep
<1> HIDE DEF A
<1>2. Spec => [][A]_vars
  BY <1>1, SawHolds, PTL DEF Spec
<1> QED BY <1>2 DEF A, DuplicateNeedsAChange

-----------------------------------------------------------------------------
(* What an undisturbed handler leaves behind.                              *)

LEMMA EditsKeepTheNode ==
  ASSUME NEW s \in Seq(Signature), s # <<>>, NEW u, NEW e, Edits(s, u, e), NEW i
  PROVE  /\ NodeOf(u[1].files, i) = NodeOf(s[1].files, i)
         /\ HasNode(u[1], i) <=> HasNode(s[1], i)
         /\ u \in Seq(Signature) /\ u # <<>>
<1> DEFINE I(f) == {k \in 1..Len(f) : f[k].index = i}
<1>1. \A f : NodeOf(f, i) = IF I(f) # {} THEN Min(I(f)) ELSE 0
  BY DEF NodeOf, SelectInSeq
<1>2. u \in Seq(Signature) /\ Len(u) = Len(s) /\ 1 \in 1..Len(s)
  BY DEF Edits
<1>3. I(u[1].files) = I(s[1].files)
  BY <1>2 DEF Edits
<1>4. u # <<>>
  BY <1>2
<1> HIDE DEF I
<1>5. NodeOf(u[1].files, i) = NodeOf(s[1].files, i)
  BY <1>1, <1>3
<1> QED BY <1>2, <1>4, <1>5 DEF HasNode

LEMMA ComparePathSeen ==
  ASSUME TypeInv, Saw, ComparePath, pc' = "allowed", calm', NEW p \in Paths, p = h.path
  PROVE  UpToDate(p)'
<1>1. UNCHANGED <<sigs, disk>> /\ pc = "path"
  BY DEF ComparePath, Reads, Looks
<1>2. PICK i \in Index(h.path) : /\ calm /\ i # None
                                 /\ HasPath(sigs, i, h.path) /\ h.diff = {}
  BY <1>1 DEF ComparePath, Goto, Crash
<1>3. i = Ix /\ disk[p] # None
  BY <1>2, TrueAnswers
<1>4. h.sha = disk[h.path].content /\ NodeHere.sha = h.sha
  BY <1>1, <1>2 DEF Saw
<1>5. HasNode(sigs[1], Ix) /\ NodeHere.path = h.path
  BY <1>2, <1>3, HasPathOne DEF TypeInv, TypeOK, OneType, NodeHas, NodeHere
<1>6. /\ HasNode(sigs[1], disk[p].index)
      /\ sigs[1].files[NodeOf(sigs[1].files, disk[p].index)].path = p
      /\ sigs[1].files[NodeOf(sigs[1].files, disk[p].index)].sha = disk[p].content
  BY <1>4, <1>5 DEF NodeHere, Ix
<1> QED BY <1>1, <1>3, <1>6 DEF UpToDate, IsRecorded

LEMMA SetNodeSeen ==
  ASSUME TypeInv, Saw, SetNode, pc' = "allowed", calm', NEW p \in Paths, p = h.path
  PROVE  UpToDate(p)'
<1> DEFINE k == NodeOf(sigs[1].files, Ix)
<1>1. UNCHANGED disk /\ pc = "set"
  BY DEF SetNode, Looks
<1>2. PICK i \in Index(h.path) :
         LET w == IF "path" \in h.diff THEN SetPath(sigs, i, h.path) ELSE sigs
         IN  /\ sigs' = IF "sha" \in h.diff THEN SetSha(w, i, h.sha) ELSE w
             /\ calm /\ i # None
  BY <1>1 DEF SetNode, Crash
<1> DEFINE w == IF "path" \in h.diff THEN SetPath(sigs, i, h.path) ELSE sigs
<1>3. i = Ix /\ disk[p] # None
  BY <1>2, TrueAnswers
<1>4. /\ sigs \in Seq(Signature) /\ sigs # <<>> /\ h.path \in Paths /\ h.sha \in Contents
      /\ HasNode(sigs[1], Ix) /\ h.sha = disk[p].content
      /\ "sha" \notin h.diff => sigs[1].files[k].sha = h.sha
      /\ "path" \notin h.diff => sigs[1].files[k].path = p
  <2>1. h.path \in Paths /\ h.sha \in Contents
    BY <1>1, LocalEdits DEF TypeInv, TypeOK, Hashed
  <2> QED BY <1>1, <1>2, <2>1 DEF TypeInv, TypeOK, Saw, Here, NodeHere
<1>5. k \in 1..Len(sigs[1].files) /\ 1 \in 1..Len(sigs)
  <2>1. 1 \in 1..Len(sigs)
    BY <1>4
  <2> QED BY <1>4, <2>1, NodeNeedsFiles
<1>6. /\ Edits(sigs, w, i)
      /\ w[1].files[k].path = p
      /\ "sha" \notin h.diff => w[1].files[k].sha = h.sha
  <2> HIDE DEF k
  <2>1. CASE "path" \in h.diff
    <3>1. w = SetPath(sigs, i, p) /\ p \in Paths \cup {None}
      BY <2>1
    <3>2. /\ Edits(sigs, w, i)
          /\ \A j \in 1..Len(sigs) : \A n \in 1..Len(sigs[j].files) :
               w[j].files[n].sha = sigs[j].files[n].sha
          /\ w[1].files[NodeOf(sigs[1].files, i)].path = p
      BY <1>3, <1>4, <3>1, SetPathFacts
    <3> QED BY <1>3, <1>4, <1>5, <3>2 DEF k
  <2>2. CASE "path" \notin h.diff
    BY <1>4, <2>2, EditsNothing
  <2> QED BY <2>1, <2>2
<1>7. /\ w \in Seq(Signature) /\ w # <<>> /\ HasNode(w[1], Ix)
      /\ NodeOf(w[1].files, Ix) = k /\ Len(w) = Len(sigs)
      /\ Len(w[1].files) = Len(sigs[1].files)
  <2>1. Len(w) = Len(sigs) /\ Len(w[1].files) = Len(sigs[1].files)
    BY <1>5, <1>6 DEF Edits
  <2> HIDE DEF w
  <2> QED BY <1>4, <1>6, <2>1, EditsKeepTheNode
<1> HIDE DEF w
<1>8. /\ HasNode(sigs'[1], Ix) /\ NodeOf(sigs'[1].files, Ix) = k
      /\ sigs'[1].files[k].path = p /\ sigs'[1].files[k].sha = h.sha
  <2>1. CASE "sha" \notin h.diff
    BY <1>2, <1>6, <1>7, <2>1 DEF w
  <2>2. CASE "sha" \in h.diff
    <3>1. sigs' = SetSha(w, Ix, h.sha)
      BY <1>2, <1>3, <2>2 DEF w
    <3>2. /\ Edits(w, sigs', Ix)
          /\ \A j \in 1..Len(w) : \A n \in 1..Len(w[j].files) :
               sigs'[j].files[n].path = w[j].files[n].path
          /\ sigs'[1].files[NodeOf(w[1].files, Ix)].sha = h.sha
      BY <1>4, <1>7, <3>1, SetShaFacts
    <3>3. HasNode(sigs'[1], Ix) /\ NodeOf(sigs'[1].files, Ix) = k
      BY <1>7, <3>2, EditsKeepTheNode
    <3> QED BY <1>5, <1>6, <1>7, <3>2, <3>3
  <2> QED BY <2>1, <2>2
<1>9. /\ HasNode(sigs'[1], disk'[p].index)
      /\ sigs'[1].files[NodeOf(sigs'[1].files, disk'[p].index)].path = p
      /\ sigs'[1].files[NodeOf(sigs'[1].files, disk'[p].index)].sha = disk'[p].content
  BY <1>1, <1>4, <1>8 DEF Ix
<1> QED BY <1>1, <1>3, <1>9 DEF UpToDate, IsRecorded

\* A file that is handled undisturbed ends up recorded with its path and its
\* content (the tracking half of the handler, after COMPARE and SAVE).
THEOREM SeenIsRecorded == Spec => RecordedAsSeen
<1> DEFINE A == /\ pc \in {"path", "set"} /\ pc' = "allowed" /\ calm'
                => \A p \in Paths : h.path = p => UpToDate(p)'
<1>1. (TypeInv /\ Saw) /\ [Next]_vars => [A]_vars
  <2> SUFFICES ASSUME TypeInv, Saw, [Next]_vars, pc \in {"path", "set"},
                      pc' = "allowed", calm', NEW p \in Paths, h.path = p
               PROVE  UpToDate(p)'
    OBVIOUS
  <2>1. ComparePath \/ SetNode
    <3>1. ~(Begin \/ Create \/ Kept \/ Query \/ Other \/ Rename \/ CompareNewName
              \/ Argument \/ Compare \/ Save \/ CompareAgain \/ Track \/ CompareSha)
      BY DEF Begin, Idle, Create, Kept, Query, Other, Rename, CompareNewName,
             Argument, Compare, Save, CompareAgain, Track, CompareSha
    <3>2. ~(RegisterType \/ RemoveType \/ GetTypes \/ FileChanges \/ UNCHANGED vars)
      BY DEF RegisterType, RemoveType, GetTypes, Commands, FileChanges, vars
    <3> QED BY <3>1, <3>2 DEF Next, Handle
  <2> QED BY <2>1, ComparePathSeen, SetNodeSeen
<1> HIDE DEF A
<1>2. Spec => [][A]_vars
  BY <1>1, SawHolds, PTL DEF Spec
<1> QED BY <1>2 DEF A, RecordedAsSeen
=============================================================================
