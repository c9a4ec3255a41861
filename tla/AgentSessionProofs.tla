------------------------- MODULE AgentSessionProofs -------------------------
(***************************************************************************)
(* Theorems about AgentSession, for any commands, any answers and any      *)
(* bounds, and about the stream of frames it extends.                      *)
(*                                                                         *)
(* First FramedStream alone, for frames of any sizes that are read in any  *)
(* pieces: while nothing has failed, a position in the stream is a place   *)
(* in a frame; between calls the reader stands at the end of the frame it  *)
(* returned last, and inside one it has read trace bytes of the data of    *)
(* the next (StreamInv).                                                   *)
(*                                                                         *)
(* Every step of the session is a step of that stream or leaves it alone,  *)
(* so that the same holds for it; the rest follows from an invariant about *)
(* the mutex (HoldInv), the two threads (ThreadInv) and the number of      *)
(* answers (AnswerInv).                                                    *)
(***************************************************************************)
EXTENDS AgentSession, Integers, TLAPS

-----------------------------------------------------------------------------
(* The stream                                                              *)

\* What bytes of data are taken for is a length a u32 can have.
JunkIsLength == Junk \subseteq Nat

\* Where frame j ends, for frames of sizes z that start at s.
End(s, z, j) == IF j = 0 THEN 0 ELSE s[j] + 4 + z[j]

\* The frames stand one after the other, up to position w; h: the data of the
\* last one is missing.
Layout(s, z, w, h) ==
    /\ s \in Seq(Nat) /\ z \in Seq(Nat) /\ Len(s) = Len(z)
    /\ w \in Nat
    /\ \A j \in 1..Len(z) : s[j] = End(s, z, j - 1)
    /\ \A i, j \in 1..Len(z) : i < j => End(s, z, i) <= s[j]
    /\ h => Len(z) > 0 /\ w + z[Len(z)] = End(s, z, Len(z))
    /\ ~h => w = End(s, z, Len(z))

LEMMA EndIsPosition ==
  ASSUME NEW s \in Seq(Nat), NEW z \in Seq(Nat), Len(s) = Len(z)
  PROVE  /\ End(s, z, 0) = 0
         /\ \A j \in 1..Len(z) : /\ s[j] \in Nat /\ z[j] \in Nat
                                 /\ End(s, z, j) = s[j] + 4 + z[j]
                                 /\ End(s, z, j) \in Nat
  BY DEF End

\* A further frame, of which the length is written.
LEMMA LayoutAppend ==
  ASSUME NEW s, NEW z, NEW w, Layout(s, z, w, FALSE), NEW n \in Nat
  PROVE  Layout(Append(s, w), Append(z, n), w + 4, TRUE)
<1> DEFINE S == Append(s, w)
           Z == Append(z, n)
           L == Len(z)
<1>1. /\ s \in Seq(Nat) /\ z \in Seq(Nat) /\ Len(s) = L /\ w \in Nat /\ L \in Nat
      /\ w = End(s, z, L)
  BY DEF Layout
<1>2. /\ S \in Seq(Nat) /\ Z \in Seq(Nat) /\ Len(S) = L + 1 /\ Len(Z) = L + 1
      /\ S[L + 1] = w /\ Z[L + 1] = n
      /\ \A j \in 1..L : S[j] = s[j] /\ Z[j] = z[j]
  BY <1>1
<1>3. \A j \in 0..L : End(S, Z, j) = End(s, z, j)
  BY <1>2 DEF End
<1>4. \A j \in 1..L : End(s, z, j) <= w
  <2> TAKE j \in 1..L
  <2>1. CASE j = L
    BY <1>1, <2>1, EndIsPosition
  <2>2. CASE j < L
    <3>1. End(s, z, j) <= s[L]
      BY <1>1, <2>2 DEF Layout
    <3>2. L \in 1..Len(z)
      BY <1>1, <2>2
    <3>3. End(s, z, L) = s[L] + 4 + z[L] /\ s[L] \in Nat /\ z[L] \in Nat /\ End(s, z, j) \in Nat
      BY <1>1, <3>2, EndIsPosition
    <3> QED  BY <1>1, <3>1, <3>3
  <2> QED  BY <1>1, <2>1, <2>2
<1>5. \A j \in 1..(L + 1) : S[j] = End(S, Z, j - 1)
  <2> TAKE j \in 1..(L + 1)
  <2>1. CASE j = L + 1
    BY <1>1, <1>2, <1>3, <2>1
  <2>2. CASE j \in 1..L
    <3>1. s[j] = End(s, z, j - 1) /\ j - 1 \in 0..L
      BY <1>1, <2>2 DEF Layout
    <3> QED  BY <1>2, <1>3, <2>2, <3>1
  <2> QED  BY <1>1, <2>1, <2>2
<1>6. \A i, j \in 1..(L + 1) : i < j => End(S, Z, i) <= S[j]
  <2> SUFFICES ASSUME NEW i \in 1..(L + 1), NEW j \in 1..(L + 1), i < j
               PROVE  End(S, Z, i) <= S[j]
    OBVIOUS
  <2>1. i \in 1..L /\ i \in 0..L /\ End(S, Z, i) = End(s, z, i)
    BY <1>1, <1>3
  <2>2. CASE j = L + 1
    BY <1>2, <1>4, <2>1, <2>2
  <2>3. CASE j \in 1..L
    <3>1. End(s, z, i) <= s[j]
      BY <2>1, <2>3 DEF Layout
    <3> QED  BY <1>2, <2>1, <2>3, <3>1
  <2> QED  BY <1>1, <2>2, <2>3
<1>7. w + 4 + n = End(S, Z, L + 1)
  BY <1>1, <1>2 DEF End
<1> HIDE DEF S, Z, L
<1>8. Layout(S, Z, w + 4, TRUE)
  BY <1>1, <1>2, <1>5, <1>6, <1>7 DEF Layout
<1> QED
  BY <1>8 DEF S, Z

LEMMA LayoutComplete ==
  ASSUME NEW s, NEW z, NEW w, Layout(s, z, w, TRUE)
  PROVE  Layout(s, z, w + z[Len(z)], FALSE)
  BY DEF Layout

\* Where the next frame starts: nowhere else does a frame start.
LEMMA NextFrame ==
  ASSUME NEW s, NEW z, NEW w, NEW h \in BOOLEAN, Layout(s, z, w, h),
         NEW g \in Nat, g <= Len(z), End(s, z, g) < w
  PROVE  /\ g < Len(z)
         /\ s[g + 1] = End(s, z, g)
         /\ \A j \in 1..Len(z) : s[j] = End(s, z, g) => j = g + 1
<1>1. /\ s \in Seq(Nat) /\ z \in Seq(Nat) /\ Len(s) = Len(z) /\ w \in Nat /\ Len(z) \in Nat
  BY DEF Layout
<1>2. g < Len(z)
  <2> SUFFICES ASSUME g = Len(z) PROVE FALSE
    BY <1>1
  <2>1. CASE h
    <3>1. Len(z) > 0 /\ w + z[Len(z)] = End(s, z, g)
      BY <2>1 DEF Layout
    <3> QED  BY <1>1, <3>1, EndIsPosition
  <2>2. CASE ~h
    <3>1. w = End(s, z, g)
      BY <2>2 DEF Layout
    <3> QED  BY <1>1, <3>1
  <2> QED  BY <2>1, <2>2
<1>3. s[g + 1] = End(s, z, g)
  <2>1. g + 1 \in 1..Len(z) /\ (g + 1) - 1 = g
    BY <1>1, <1>2
  <2>2. s[g + 1] = End(s, z, (g + 1) - 1)
    BY <2>1 DEF Layout
  <2> QED  BY <2>1, <2>2
<1>4. ASSUME NEW j \in 1..Len(z), s[j] = End(s, z, g) PROVE j = g + 1
  <2>1. ASSUME NEW a \in 1..Len(z), NEW b \in 1..Len(z), a < b PROVE s[a] < s[b]
    <3>1. End(s, z, a) <= s[b]
      BY <2>1 DEF Layout
    <3>2. End(s, z, a) = s[a] + 4 + z[a] /\ s[a] \in Nat /\ z[a] \in Nat /\ s[b] \in Nat
      BY <1>1, EndIsPosition
    <3> QED  BY <3>1, <3>2
  <2>2. g + 1 \in 1..Len(z)
    BY <1>1, <1>2
  <2>3. s[j] \in Nat
    BY <1>1, EndIsPosition
  <2>4. ~(j < g + 1) /\ ~(g + 1 < j)
    BY <1>3, <1>4, <2>1, <2>2, <2>3
  <2> QED  BY <2>2, <2>4
<1> QED
  BY <1>2, <1>3, <1>4

\* Who stands behind the end of a frame stands in a further one.
LEMMA BehindAFrame ==
  ASSUME NEW s, NEW z, NEW w, NEW h \in BOOLEAN, Layout(s, z, w, h),
         NEW g \in Nat, g < Len(z), NEW t \in Nat, t > z[g + 1],
         s[g + 1] + 4 + t <= w
  PROVE  g + 2 <= Len(z)
<1>1. /\ s \in Seq(Nat) /\ z \in Seq(Nat) /\ Len(s) = Len(z) /\ w \in Nat /\ Len(z) \in Nat
  BY DEF Layout
<1> SUFFICES ASSUME g + 1 = Len(z) PROVE FALSE
  BY <1>1
<1>2. /\ g + 1 \in 1..Len(z)
      /\ End(s, z, g + 1) = s[g + 1] + 4 + z[g + 1]
      /\ s[g + 1] \in Nat /\ z[g + 1] \in Nat
  BY <1>1, EndIsPosition
<1>3. CASE h
  <2>1. w + z[Len(z)] = End(s, z, Len(z))
    BY <1>3 DEF Layout
  <2> QED  BY <1>1, <1>2, <2>1
<1>4. CASE ~h
  <2>1. w = End(s, z, Len(z))
    BY <1>4 DEF Layout
  <2> QED  BY <1>1, <1>2, <2>1
<1> QED
  BY <1>3, <1>4

-----------------------------------------------------------------------------
(* The inductive invariant                                                 *)

\* How the buffer of lines 75-91 is sized, by the number of reads so far.
BufferInv ==
    call = "data" =>
        /\ cap <= want
        /\ pieces = 0 => trace = 0 /\ cap = want
        /\ pieces = 1 => trace <= want /\ cap = want - trace
        /\ pieces = 2 => trace <= want

\* Where the reader stands in the frames.
ReaderInv ==
    /\ Len(got) <= Len(size)
    /\ pos <= wrote
    /\ \A j \in 1..Len(got) : got[j] = <<start[j] + 4, size[j]>>
    /\ call # "data" => pos = End(start, size, Len(got))
    /\ call = "data" => /\ Len(got) < Len(size)
                       /\ want = size[Len(got) + 1]
                       /\ pos = start[Len(got) + 1] + 4 + trace

StreamInv ==
    /\ StreamTypeOK
    /\ trace <= pos
    /\ Len(start) = Len(size)
    /\ half => Len(size) > 0
    /\ BufferInv
    /\ ~outOfStep => Layout(start, size, wrote, half) /\ ReaderInv

\* A length of which k bytes were read is one, and all four are the length.
LEMMA LowIsLength ==
  ASSUME NEW k \in 1..4, NEW n \in Nat
  PROVE  /\ Low(k, n) \in Nat
         /\ k = 4 => Low(k, n) = n
<1>1. CASE k = 4
  BY <1>1 DEF Low
<1>2. CASE k = 3
  <2>1. 256^k = 16777216  BY <1>2
  <2> QED  BY <1>2, <2>1 DEF Low
<1>3. CASE k = 2
  <2>1. 256^k = 65536  BY <1>3
  <2> QED  BY <1>3, <2>1 DEF Low
<1>4. CASE k = 1
  <2>1. 256^k = 256  BY <1>4
  <2> QED  BY <1>4, <2>1 DEF Low
<1> QED
  BY <1>1, <1>2, <1>3, <1>4

LEMMA StreamInvInit == StreamInit => StreamInv
<1> SUFFICES ASSUME StreamInit PROVE StreamInv
  OBVIOUS
<1>1. StreamTypeOK
  <2>1. <<>> \in Seq(Nat) /\ <<>> \in Seq(Nat \X Nat)
    OBVIOUS
  <2> QED  BY <2>1 DEF StreamInit, StreamTypeOK
<1>2. Layout(start, size, wrote, half)
  BY DEF StreamInit, Layout, End
<1>3. ReaderInv
  BY DEF StreamInit, ReaderInv, End
<1> QED
  BY <1>1, <1>2, <1>3 DEF StreamInit, StreamInv, BufferInv

LEMMA WriteKeepsStreamInv ==
  ASSUME StreamInv, Write
  PROVE  StreamInv'
<1>0. /\ StreamTypeOK /\ trace <= pos /\ BufferInv
      /\ Len(start) = Len(size)
      /\ half => Len(size) > 0
      /\ ~outOfStep => Layout(start, size, wrote, half) /\ ReaderInv
  BY DEF StreamInv
<1>1. ASSUME NEW n \in Nat, WriteLength(n) PROVE StreamInv'
  <2>1. /\ ~half /\ half' = TRUE
        /\ size' = Append(size, n) /\ start' = Append(start, wrote) /\ wrote' = wrote + 4
        /\ UNCHANGED <<pos, call, want, cap, trace, pieces, got, outOfStep>>
    BY <1>1 DEF WriteLength, readerVars
  <2>2. /\ size' \in Seq(Nat) /\ start' \in Seq(Nat)
        /\ Len(start') = Len(size') /\ Len(size') = Len(size) + 1 /\ Len(size) \in Nat
        /\ \A j \in 1..Len(size) : start'[j] = start[j] /\ size'[j] = size[j]
    BY <1>0, <2>1 DEF StreamTypeOK
  <2>3. StreamTypeOK' /\ BufferInv'
    <3>1. StreamTypeOK'
      BY <1>0, <2>1, <2>2 DEF StreamTypeOK
    <3>2. BufferInv'
      BY <1>0, <2>1 DEF BufferInv
    <3> QED  BY <3>1, <3>2
  <2>4. ASSUME ~outOfStep' PROVE Layout(start, size, wrote, half)' /\ ReaderInv'
    <3>1. /\ Layout(start, size, wrote, FALSE)
          /\ ReaderInv
      <4>1. half = FALSE
        BY <1>0, <2>1 DEF StreamTypeOK
      <4> QED  BY <1>0, <2>1, <2>4, <4>1
    <3>2. Layout(start, size, wrote, half)'
      BY <2>1, <3>1, LayoutAppend
    <3>3. Len(got) \in Nat /\ Len(got) <= Len(size)
      BY <1>0, <3>1 DEF ReaderInv, StreamTypeOK
    <3>4. End(start, size, Len(got))' = End(start, size, Len(got))
      <4>1. Len(got) = 0 \/ Len(got) \in 1..Len(size)
        BY <2>2, <3>3
      <4> QED  BY <2>1, <2>2, <4>1 DEF End
    <3>5. \A j \in 1..Len(got) : got'[j] = <<start'[j] + 4, size'[j]>>
      <4> TAKE j \in 1..Len(got)
      <4>1. j \in 1..Len(size)
        BY <2>2, <3>3
      <4>2. got[j] = <<start[j] + 4, size[j]>>
        BY <3>1 DEF ReaderInv
      <4> QED  BY <2>1, <2>2, <4>1, <4>2
    <3>6. call' = "data" => /\ Len(got') < Len(size')
                           /\ want' = size'[Len(got') + 1]
                           /\ pos' = start'[Len(got') + 1] + 4 + trace'
      <4> SUFFICES ASSUME call = "data"
                   PROVE  /\ Len(got) < Len(size')
                          /\ want = size'[Len(got) + 1]
                          /\ pos = start'[Len(got) + 1] + 4 + trace
        BY <2>1
      <4>1. /\ Len(got) < Len(size) /\ want = size[Len(got) + 1]
            /\ pos = start[Len(got) + 1] + 4 + trace
        BY <3>1 DEF ReaderInv
      <4>2. Len(got) + 1 \in 1..Len(size)
        BY <2>2, <3>3, <4>1
      <4>3. start'[Len(got) + 1] = start[Len(got) + 1] /\ size'[Len(got) + 1] = size[Len(got) + 1]
        BY <2>2, <4>2
      <4> QED  BY <2>2, <3>3, <4>1, <4>3
    <3>7. pos <= wrote + 4 /\ Len(got) <= Len(size) + 1
      BY <1>0, <2>2, <3>1, <3>3 DEF StreamTypeOK, ReaderInv
    <3>8. ReaderInv'
      BY <2>1, <2>2, <3>1, <3>4, <3>5, <3>6, <3>7 DEF ReaderInv
    <3> QED  BY <3>2, <3>8
  <2>5. trace' <= pos' /\ Len(size') > 0
    BY <1>0, <2>1, <2>2
  <2> QED
    BY <2>2, <2>3, <2>4, <2>5 DEF StreamInv
<1>2. CASE WriteData
  <2>1. /\ half /\ half' = FALSE
        /\ wrote' = wrote + size[Len(size)]
        /\ UNCHANGED <<size, start, pos, call, want, cap, trace, pieces, got, outOfStep>>
    BY <1>2 DEF WriteData, readerVars
  <2>2. size[Len(size)] \in Nat /\ wrote' \in Nat /\ wrote <= wrote'
    BY <1>0, <2>1 DEF StreamTypeOK
  <2>3. StreamTypeOK' /\ BufferInv'
    <3>1. StreamTypeOK'
      BY <1>0, <2>1, <2>2 DEF StreamTypeOK
    <3>2. BufferInv'
      BY <1>0, <2>1 DEF BufferInv
    <3> QED  BY <3>1, <3>2
  <2>4. ASSUME ~outOfStep' PROVE Layout(start, size, wrote, half)' /\ ReaderInv'
    <3>1. Layout(start, size, wrote, TRUE) /\ ReaderInv
      <4>1. half = TRUE
        BY <1>0, <2>1 DEF StreamTypeOK
      <4> QED  BY <1>0, <2>1, <2>4, <4>1
    <3>2. Layout(start, size, wrote, half)'
      BY <2>1, <3>1, LayoutComplete
    <3>3. pos <= wrote'
      BY <1>0, <2>2, <3>1 DEF StreamTypeOK, ReaderInv
    <3>4. ReaderInv'
      BY <2>1, <3>1, <3>3 DEF ReaderInv, End
    <3> QED  BY <3>2, <3>4
  <2> QED
    BY <1>0, <2>1, <2>3, <2>4 DEF StreamInv
<1>3. CASE WriteFails
  <2>1. /\ half' = FALSE /\ outOfStep' = TRUE
        /\ UNCHANGED <<size, start, wrote, pos, call, want, cap, trace, pieces, got>>
    BY <1>3 DEF WriteFails, readerVars
  <2>2. StreamTypeOK' /\ BufferInv'
    <3>1. StreamTypeOK'
      BY <1>0, <2>1 DEF StreamTypeOK
    <3>2. BufferInv'
      BY <1>0, <2>1 DEF BufferInv
    <3> QED  BY <3>1, <3>2
  <2> QED
    BY <1>0, <2>1, <2>2 DEF StreamInv
<1> QED
  BY <1>1, <1>2, <1>3 DEF Write

LEMMA CallKeepsStreamInv ==
  ASSUME StreamInv, Call \/ CallRefused
  PROVE  StreamInv'
<1>0. /\ StreamTypeOK /\ trace <= pos /\ BufferInv
      /\ Len(start) = Len(size)
      /\ half => Len(size) > 0
      /\ ~outOfStep => Layout(start, size, wrote, half) /\ ReaderInv
  BY DEF StreamInv
<1>1. /\ UNCHANGED <<size, start, wrote, half, pos, want, cap, trace, pieces, got>>
      /\ \/ call' = call
         \/ call = "idle" /\ call' = "length"
      /\ \/ outOfStep' = outOfStep
         \/ outOfStep' = TRUE
  BY DEF Call, CallRefused, peerVars, readerVars
<1>2. StreamTypeOK'
  BY <1>0, <1>1 DEF StreamTypeOK
<1>3. BufferInv'
  BY <1>0, <1>1 DEF BufferInv
<1>4. ASSUME ~outOfStep' PROVE Layout(start, size, wrote, half)' /\ ReaderInv'
  <2>1. Layout(start, size, wrote, half) /\ ReaderInv
    BY <1>0, <1>1, <1>4
  <2>2. ReaderInv'
    BY <1>1, <2>1 DEF ReaderInv, End
  <2> QED  BY <1>1, <2>1, <2>2
<1> QED
  BY <1>0, <1>1, <1>2, <1>3, <1>4 DEF StreamInv

LEMMA ReadLengthKeepsStreamInv ==
  ASSUME JunkIsLength, StreamInv, NEW k \in 1..4, ReadLength(k)
  PROVE  StreamInv'
<1>0. /\ StreamTypeOK /\ trace <= pos /\ BufferInv
      /\ Len(start) = Len(size)
      /\ half => Len(size) > 0
      /\ ~outOfStep => Layout(start, size, wrote, half) /\ ReaderInv
  BY DEF StreamInv
<1>1. /\ call = "length" /\ call' = "data"
      /\ k <= wrote - pos /\ pos' = pos + k
      /\ cap' = want' /\ trace' = 0 /\ pieces' = 0
      /\ outOfStep' = (outOfStep \/ k < 4)
      /\ UNCHANGED <<size, start, wrote, half, got>>
  BY DEF ReadLength, Chunk, peerVars
<1>2. want' \in Nat
  <2>1. CASE \E j \in 1..Len(start) : start[j] = pos /\ want' = Low(k, size[j])
    <3>1. PICK j \in 1..Len(start) : want' = Low(k, size[j])
      BY <2>1
    <3>2. size[j] \in Nat
      BY <1>0 DEF StreamTypeOK
    <3> QED  BY <3>1, <3>2, LowIsLength
  <2>2. CASE want' \in Junk
    BY <2>2 DEF JunkIsLength
  <2> QED  BY <2>1, <2>2 DEF ReadLength
<1>3. pos' \in Nat /\ outOfStep' \in BOOLEAN
  BY <1>0, <1>1 DEF StreamTypeOK
<1>4. StreamTypeOK'
  BY <1>0, <1>1, <1>2, <1>3 DEF StreamTypeOK
<1>5. BufferInv'
  BY <1>1, <1>2 DEF BufferInv
<1>6. ASSUME ~outOfStep' PROVE Layout(start, size, wrote, half)' /\ ReaderInv'
  <2>0. ~outOfStep /\ ~(k < 4)
    BY <1>1, <1>6
  <2>1. k = 4 /\ Layout(start, size, wrote, half) /\ ReaderInv
    BY <1>0, <2>0
  <2>2. Len(got) \in Nat /\ Len(got) <= Len(size) /\ pos = End(start, size, Len(got)) /\ pos < wrote
    BY <1>0, <1>1, <2>1 DEF ReaderInv, StreamTypeOK
  <2>3. /\ Len(got) < Len(size)
        /\ start[Len(got) + 1] = pos
        /\ \A j \in 1..Len(size) : start[j] = pos => j = Len(got) + 1
    <3>1. half \in BOOLEAN
      BY <1>0 DEF StreamTypeOK
    <3> QED  BY <2>1, <2>2, <3>1, NextFrame
  <2>4. want' = size[Len(got) + 1]
    <3>1. Len(got) + 1 \in 1..Len(start) /\ size[Len(got) + 1] \in Nat
      BY <1>0, <2>2, <2>3 DEF StreamTypeOK
    <3>2. want' = Low(k, size[Len(got) + 1])
      BY <1>0, <2>3, <3>1 DEF ReadLength
    <3> QED  BY <2>1, <3>1, <3>2, LowIsLength
  <2>5. pos' = start[Len(got) + 1] + 4 + 0 /\ pos' <= wrote
    BY <1>0, <1>1, <2>1, <2>2, <2>3 DEF StreamTypeOK
  <2>6. ReaderInv'
    BY <1>1, <2>1, <2>2, <2>3, <2>4, <2>5 DEF ReaderInv
  <2> QED  BY <1>1, <2>1, <2>6
<1>7. trace' <= pos'
  BY <1>1, <1>3
<1> QED
  BY <1>0, <1>1, <1>4, <1>5, <1>6, <1>7 DEF StreamInv

LEMMA ReadMoreKeepsStreamInv ==
  ASSUME StreamInv, NEW n \in 1..cap, ReadMore(n)
  PROVE  StreamInv'
<1>0. /\ StreamTypeOK /\ trace <= pos /\ BufferInv
      /\ Len(start) = Len(size)
      /\ half => Len(size) > 0
      /\ ~outOfStep => Layout(start, size, wrote, half) /\ ReaderInv
  BY DEF StreamInv
<1>1. /\ call = "data" /\ call' = "data"
      /\ n <= wrote - pos /\ pos' = pos + n
      /\ trace' = trace + n /\ pieces' = pieces + 1 /\ cap' = want - n
      /\ UNCHANGED <<size, start, wrote, half, want, got, outOfStep>>
  BY DEF ReadMore, Chunk, peerVars
<1>2. /\ n \in Nat /\ n <= cap /\ cap <= want /\ want \in Nat /\ cap \in Nat
      /\ pos \in Nat /\ trace \in Nat /\ pieces \in Nat /\ wrote \in Nat
  BY <1>0, <1>1 DEF StreamTypeOK, BufferInv
<1>3. StreamTypeOK'
  <2>1. pos' \in Nat /\ trace' \in Nat /\ pieces' \in Nat /\ cap' \in Nat
    BY <1>1, <1>2
  <2> QED  BY <1>0, <1>1, <2>1 DEF StreamTypeOK
<1>4. BufferInv'
  <2>1. pieces = 0 => trace = 0 /\ cap = want
    BY <1>0, <1>1 DEF BufferInv
  <2>2. pieces = 1 => trace <= want /\ cap = want - trace
    BY <1>0, <1>1 DEF BufferInv
  <2>3. cap' <= want /\ pieces' # 0
    BY <1>1, <1>2
  <2>4. pieces' = 1 => trace' <= want /\ cap' = want - trace'
    BY <1>1, <1>2, <2>1
  <2>5. pieces' = 2 => trace' <= want
    BY <1>1, <1>2, <2>2
  <2> QED  BY <1>1, <2>3, <2>4, <2>5 DEF BufferInv
<1>5. ASSUME ~outOfStep' PROVE Layout(start, size, wrote, half)' /\ ReaderInv'
  <2>1. Layout(start, size, wrote, half) /\ ReaderInv
    BY <1>0, <1>1, <1>5
  <2>2. pos' <= wrote
    BY <1>1, <1>2
  <2>3. pos' = start[Len(got) + 1] + 4 + trace'
    <3>1. Len(got) + 1 \in 1..Len(start) /\ pos = start[Len(got) + 1] + 4 + trace
      BY <1>0, <1>1, <2>1 DEF ReaderInv, StreamTypeOK
    <3>2. start[Len(got) + 1] \in Nat
      <4>1. \A i \in 1..Len(start) : start[i] \in Nat
        BY <1>0 DEF StreamTypeOK
      <4> QED  BY <3>1, <4>1
    <3>3. \A a \in Nat : a + 4 + trace + n = a + 4 + (trace + n)
      BY <1>2
    <3> QED  BY <1>1, <3>1, <3>2, <3>3
  <2>4. ReaderInv'
    BY <1>1, <2>1, <2>2, <2>3 DEF ReaderInv
  <2> QED  BY <1>1, <2>1, <2>4
<1>6. trace' <= pos'
  BY <1>0, <1>1, <1>2
<1> QED
  BY <1>0, <1>1, <1>3, <1>4, <1>5, <1>6 DEF StreamInv

\* What is returned in Some is the next frame.
LEMMA ReadLastTakes ==
  ASSUME StreamInv, NEW n \in 1..cap, ReadLast(n), ~outOfStep
  PROVE  /\ Len(got) < Len(size)
         /\ got' = Append(got, <<start[Len(got) + 1] + 4, size[Len(got) + 1]>>)
         /\ pos' = End(start, size, Len(got) + 1)
<1>1. /\ call = "data" /\ trace + n = want /\ pos' = pos + n
      /\ got' = Append(got, <<pos - trace, trace + n>>)
  BY DEF ReadLast
<1>2. StreamTypeOK /\ Layout(start, size, wrote, half) /\ ReaderInv
  BY DEF StreamInv
<1>3. /\ Len(got) < Len(size) /\ Len(got) + 1 \in 1..Len(size) /\ Len(start) = Len(size)
      /\ want = size[Len(got) + 1]
      /\ pos = start[Len(got) + 1] + 4 + trace
  BY <1>1, <1>2 DEF ReaderInv, StreamTypeOK, Layout
<1>4. start[Len(got) + 1] \in Nat /\ trace \in Nat /\ n \in Nat /\ Len(got) + 1 # 0
  <2>1. \A i \in 1..Len(start) : start[i] \in Nat
    BY <1>2 DEF StreamTypeOK
  <2>2. Len(got) \in Nat /\ trace \in Nat
    BY <1>2 DEF StreamTypeOK
  <2> QED  BY <1>3, <2>1, <2>2
<1>5. pos - trace = start[Len(got) + 1] + 4
  BY <1>3, <1>4
<1>6. pos' = start[Len(got) + 1] + 4 + size[Len(got) + 1]
  BY <1>1, <1>3, <1>4
<1> QED
  BY <1>1, <1>3, <1>4, <1>5, <1>6 DEF End

LEMMA ReadLastKeepsStreamInv ==
  ASSUME StreamInv, NEW n \in 1..cap, ReadLast(n)
  PROVE  StreamInv'
<1>0. /\ StreamTypeOK /\ trace <= pos /\ BufferInv
      /\ Len(start) = Len(size)
      /\ half => Len(size) > 0
      /\ ~outOfStep => Layout(start, size, wrote, half) /\ ReaderInv
  BY DEF StreamInv
<1>1. /\ n <= wrote - pos /\ pos' = pos + n
      /\ got' = Append(got, <<pos - trace, trace + n>>)
      /\ call' = "idle" /\ want' = 0 /\ cap' = 0 /\ trace' = 0 /\ pieces' = 0
      /\ UNCHANGED <<size, start, wrote, half, outOfStep>>
  BY DEF ReadLast, Return, Chunk, peerVars
<1>2. n \in Nat /\ pos \in Nat /\ trace \in Nat /\ wrote \in Nat
  BY <1>0 DEF StreamTypeOK
<1>3. StreamTypeOK'
  <2>1. pos' \in Nat /\ pos - trace \in Nat /\ trace + n \in Nat
    BY <1>0, <1>1, <1>2
  <2>2. got' \in Seq(Nat \X Nat)
    BY <1>0, <1>1, <2>1 DEF StreamTypeOK
  <2> QED  BY <1>0, <1>1, <2>1, <2>2 DEF StreamTypeOK
<1>4. BufferInv'
  BY <1>1 DEF BufferInv
<1>5. ASSUME ~outOfStep' PROVE Layout(start, size, wrote, half)' /\ ReaderInv'
  <2>1. Layout(start, size, wrote, half) /\ ReaderInv /\ ~outOfStep
    BY <1>0, <1>1, <1>5
  <2>2. /\ Len(got) < Len(size)
        /\ got' = Append(got, <<start[Len(got) + 1] + 4, size[Len(got) + 1]>>)
        /\ pos' = End(start, size, Len(got) + 1)
    BY <2>1, ReadLastTakes
  <2>3. /\ Len(got') = Len(got) + 1 /\ Len(got) \in Nat /\ Len(size) \in Nat
        /\ got'[Len(got) + 1] = <<start[Len(got) + 1] + 4, size[Len(got) + 1]>>
        /\ \A j \in 1..Len(got) : got'[j] = got[j]
    BY <1>0, <2>2 DEF StreamTypeOK
  <2>4. \A j \in 1..Len(got') : got'[j] = <<start[j] + 4, size[j]>>
    <3> TAKE j \in 1..Len(got')
    <3>1. CASE j = Len(got) + 1
      BY <2>3, <3>1
    <3>2. CASE j \in 1..Len(got)
      BY <2>1, <2>3, <3>2 DEF ReaderInv
    <3> QED  BY <2>3, <3>1, <3>2
  <2>5. Len(got') <= Len(size) /\ pos' <= wrote
    BY <1>1, <1>2, <2>2, <2>3
  <2>6. ReaderInv'
    BY <1>1, <2>2, <2>3, <2>4, <2>5 DEF ReaderInv
  <2> QED  BY <1>1, <2>1, <2>6
<1>6. trace' <= pos'
  BY <1>1, <1>2
<1> QED
  BY <1>0, <1>1, <1>3, <1>4, <1>5, <1>6 DEF StreamInv

LEMMA ReadTailKeepsStreamInv ==
  ASSUME StreamInv, (\E n \in 1..cap : ReadTail(n)) \/ ReadFails
  PROVE  StreamInv'
<1>0. /\ StreamTypeOK
      /\ Len(start) = Len(size)
      /\ half => Len(size) > 0
  BY DEF StreamInv
<1>1. /\ pos' \in Nat /\ outOfStep' = TRUE
      /\ call' = "idle" /\ want' = 0 /\ cap' = 0 /\ trace' = 0 /\ pieces' = 0
      /\ UNCHANGED <<size, start, wrote, half, got>>
  <2>1. ASSUME NEW n \in 1..cap, ReadTail(n) PROVE pos' \in Nat
    BY <1>0, <2>1 DEF ReadTail, StreamTypeOK
  <2>2. CASE ReadFails
    BY <1>0, <2>2 DEF ReadFails, StreamTypeOK, Return, peerVars
  <2>3. CASE \E n \in 1..cap : ReadTail(n)
    BY <2>1, <2>3 DEF ReadTail, Return, peerVars
  <2> QED  BY <2>2, <2>3
<1>2. StreamTypeOK'
  BY <1>0, <1>1 DEF StreamTypeOK
<1> QED
  BY <1>0, <1>1, <1>2 DEF StreamInv, BufferInv

LEMMA StreamInvStep ==
  ASSUME JunkIsLength, StreamInv, [StreamNext]_streamVars
  PROVE  StreamInv'
<1>1. CASE Write
  BY <1>1, WriteKeepsStreamInv
<1>2. CASE Call \/ CallRefused
  BY <1>2, CallKeepsStreamInv
<1>3. CASE Read
  BY <1>3, ReadLengthKeepsStreamInv, ReadMoreKeepsStreamInv, ReadLastKeepsStreamInv, ReadTailKeepsStreamInv DEF Read
<1>4. CASE UNCHANGED streamVars
  BY <1>4 DEF streamVars, peerVars, readerVars, StreamInv, StreamTypeOK, BufferInv, ReaderInv, Layout, End
<1> QED
  BY <1>1, <1>2, <1>3, <1>4 DEF StreamNext

LEMMA IsASeq ==
  ASSUME NEW S, NEW n \in Nat, NEW f \in [1..n -> S]
  PROVE  f \in Seq(S)
  OBVIOUS

-----------------------------------------------------------------------------
(* The theorems                                                            *)

\* Every reachable state satisfies the invariant.
THEOREM StreamInvariant == JunkIsLength /\ StreamSpec => []StreamInv
<1> SUFFICES ASSUME JunkIsLength PROVE StreamSpec => []StreamInv
  OBVIOUS
<1>1. StreamInit => StreamInv
  BY StreamInvInit
<1>2. StreamInv /\ [StreamNext]_streamVars => StreamInv'
  BY StreamInvStep
<1> QED
  BY <1>1, <1>2, PTL DEF StreamSpec

\* The state of a stream and of the call that reads it keeps its types.
THEOREM StreamTypeCorrect == JunkIsLength /\ StreamSpec => []StreamTypeOK
<1>1. StreamInv => StreamTypeOK
  BY DEF StreamInv
<1> QED
  BY <1>1, StreamInvariant, PTL

\* No read of lines 75-91 has a buffer larger than the frame, and none gets past
\* the end of its frame before the third read of the frame's data.
LEMMA OverreadFollows == StreamInv => OverreadNeedsThreePieces
<1> SUFFICES ASSUME StreamInv, call = "data"
             PROVE  /\ cap <= want
                    /\ trace > want => /\ pieces >= 3
                                       /\ ~outOfStep => Len(size) >= Len(got) + 2
  BY DEF OverreadNeedsThreePieces
<1>1. StreamTypeOK /\ BufferInv
  BY DEF StreamInv
<1>2. want \in Nat /\ trace \in Nat /\ pieces \in Nat
  BY <1>1 DEF StreamTypeOK
<1>3. cap <= want /\ (trace > want => pieces >= 3)
  BY <1>1, <1>2 DEF BufferInv
<1>4. ASSUME trace > want, ~outOfStep PROVE Len(size) >= Len(got) + 2
  <2>1. Layout(start, size, wrote, half) /\ ReaderInv
    BY <1>4 DEF StreamInv
  <2>2. /\ Len(got) \in Nat /\ Len(size) \in Nat /\ half \in BOOLEAN
        /\ Len(got) < Len(size)
        /\ trace > size[Len(got) + 1]
        /\ start[Len(got) + 1] + 4 + trace <= wrote
    <3>1. /\ Len(got) < Len(size) /\ want = size[Len(got) + 1]
          /\ pos = start[Len(got) + 1] + 4 + trace /\ pos <= wrote
      BY <2>1 DEF ReaderInv
    <3>2. Len(got) \in Nat /\ Len(size) \in Nat /\ half \in BOOLEAN
      BY <1>1 DEF StreamTypeOK
    <3> QED  BY <1>4, <3>1, <3>2
  <2>3. Len(got) + 2 <= Len(size)
    BY <1>2, <2>1, <2>2, BehindAFrame
  <2> QED  BY <2>2, <2>3
<1> QED
  BY <1>3, <1>4

THEOREM StreamOverread == JunkIsLength /\ StreamSpec => []OverreadNeedsThreePieces
  BY StreamInvariant, OverreadFollows, PTL

\* A stream implements the delivery of frames: each step hands the reader the
\* next frame, adds a frame, or gives up.
LEMMA DeliveryInit == StreamInit => Delivery!Init
  BY DEF StreamInit, Delivery!Init, Frames

LEMMA DeliveryStep ==
  ASSUME StreamInv, [StreamNext]_streamVars
  PROVE  [Delivery!Next]_<<Frames, got, ~outOfStep>>
<1>0. /\ StreamTypeOK /\ Len(start) = Len(size)
  BY DEF StreamInv
<1>1. ASSUME NEW n \in Nat, WriteLength(n) PROVE Delivery!Send
  <2>1. /\ Len(Frames) = Len(size) /\ Len(Frames') = Len(size) + 1
        /\ size' = Append(size, n) /\ start' = Append(start, wrote)
        /\ UNCHANGED <<got, outOfStep>>
    BY <1>0, <1>1 DEF Frames, WriteLength, readerVars, StreamTypeOK
  <2>2. \A j \in 1..Len(size) : Frames'[j] = Frames[j]
    BY <1>0, <2>1 DEF Frames, StreamTypeOK
  <2>3. SubSeq(Frames', 1, Len(size)) = Frames
    <3>1. Frames \in Seq(Nat \X Nat) /\ Frames' \in Seq(Nat \X Nat)
      <4>1. /\ Len(size) \in Nat
            /\ \A j \in 1..Len(size) : <<start[j] + 4, size[j]>> \in Nat \X Nat
        BY <1>0 DEF StreamTypeOK
      <4>2. /\ Len(size') \in Nat
            /\ \A j \in 1..Len(size') : <<start'[j] + 4, size'[j]>> \in Nat \X Nat
        <5>1. size' \in Seq(Nat) /\ start' \in Seq(Nat) /\ Len(start') = Len(size')
          BY <1>0, <2>1 DEF StreamTypeOK
        <5> QED  BY <5>1
      <4>3. Frames \in [1..Len(size) -> Nat \X Nat] /\ Frames' \in [1..Len(size') -> Nat \X Nat]
        BY <4>1, <4>2 DEF Frames
      <4> QED  BY <4>1, <4>2, <4>3, IsASeq
    <3>2. SubSeq(Frames', 1, Len(size)) = [j \in 1..Len(size) |-> Frames'[j]]
      BY <1>0, <2>1, <3>1 DEF StreamTypeOK
    <3>3. Frames = [j \in 1..Len(size) |-> Frames[j]]
      BY DEF Frames
    <3> QED  BY <2>2, <3>2, <3>3
  <2> QED
    BY <2>1, <2>3 DEF Delivery!Send
<1>2. CASE WriteData \/ Call
  BY <1>2 DEF WriteData, Call, Frames, readerVars, peerVars
<1>3. CASE WriteFails \/ CallRefused
  BY <1>3 DEF WriteFails, CallRefused, Delivery!Next, Delivery!GiveUp
<1>4. ASSUME NEW k \in 1..4, ReadLength(k)
      PROVE  Delivery!GiveUp \/ UNCHANGED <<Frames, got, ~outOfStep>>
  <2>1. UNCHANGED <<Frames, got>> /\ outOfStep' = (outOfStep \/ k < 4)
    BY <1>4 DEF ReadLength, peerVars, Frames
  <2>2. CASE k < 4
    BY <2>1, <2>2 DEF Delivery!GiveUp
  <2>3. CASE ~(k < 4)
    BY <2>1, <2>3
  <2> QED  BY <2>2, <2>3
<1>5. ASSUME NEW n \in 1..cap, ReadMore(n) PROVE UNCHANGED <<Frames, got, ~outOfStep>>
  BY <1>5 DEF ReadMore, peerVars, Frames
<1>6. ASSUME NEW n \in 1..cap, ReadLast(n)
      PROVE  Delivery!Take \/ Delivery!GiveUp
  <2>1. CASE outOfStep
    BY <1>6, <2>1 DEF ReadLast, Delivery!GiveUp
  <2>2. CASE ~outOfStep
    <3>1. /\ Len(got) < Len(size)
          /\ got' = Append(got, <<start[Len(got) + 1] + 4, size[Len(got) + 1]>>)
      BY <1>6, <2>2, ReadLastTakes
    <3>2. Len(Frames) = Len(size) /\ Len(got) \in Nat /\ Len(size) \in Nat
      BY <1>0 DEF Frames, StreamTypeOK
    <3>3. Frames[Len(got) + 1] = <<start[Len(got) + 1] + 4, size[Len(got) + 1]>>
      BY <3>1, <3>2 DEF Frames
    <3>4. UNCHANGED <<Frames, outOfStep>>
      BY <1>6 DEF ReadLast, peerVars, Frames
    <3> QED
      BY <2>2, <3>1, <3>2, <3>3, <3>4 DEF Delivery!Take
  <2> QED  BY <2>1, <2>2
<1>7. CASE (\E n \in 1..cap : ReadTail(n)) \/ ReadFails
  BY <1>7 DEF ReadTail, ReadFails, Delivery!Next, Delivery!GiveUp
<1>8. CASE UNCHANGED streamVars
  BY <1>8 DEF streamVars, peerVars, readerVars, Frames
<1> QED
  BY <1>1, <1>2, <1>3, <1>4, <1>5, <1>6, <1>7, <1>8 DEF StreamNext, Write, Read, Delivery!Next

THEOREM StreamImplementsFrameDelivery == JunkIsLength /\ StreamSpec => ImplementsFrameDelivery
<1>1. StreamInv /\ [StreamNext]_streamVars => [Delivery!Next]_<<Frames, got, ~outOfStep>>
  BY DeliveryStep
<1> QED
  BY <1>1, DeliveryInit, StreamInvariant, PTL
     DEF StreamSpec, ImplementsFrameDelivery, Delivery!Spec

-----------------------------------------------------------------------------
(* The session                                                             *)

\* What TypeOK says of the variables that are not the stream's.
OwnTypeOK ==
    /\ asks \in Nat
    /\ reply \in Seq(Nat) /\ Len(reply) = Len(size)
    /\ doubles \in Nat
    /\ down \in Seq(Command \X Nat)
    /\ skew \in BOOLEAN
    /\ link \in {"none", "up", "closed", "reset"}
    /\ socket \in {"null", "live", "unbound", "freed"}
    /\ tcp \in {"connect", "greet", "announce", "spawn", "wait", "gone"}
    /\ connected \in BOOLEAN
    /\ depth \in Nat
    /\ comm \in {"off", "top", "size", "data", "work", "answer"}
    /\ cmd \in (Command \cup {"other"}) \X Nat
    /\ out \in Seq(Nat \X Nat)
    /\ greeted \in BOOLEAN /\ fault \in BOOLEAN

\* The second thread starts when the first is through with the session.
ThreadInv ==
    /\ comm # "off" => tcp = "wait"
    /\ tcp = "connect" => link = "none"
    /\ tcp \in {"announce", "spawn", "wait"} => greeted \/ socket # "live"

\* Once lost, a session is lost for good: nobody connects again.
Lost == link \in {"none", "reset"} \/ skew \/ socket # "live"

HoldInv ==
    /\ comm = "off" => depth = 0
    /\ comm \notin {"off", "top"} => depth > 0
    /\ depth > 1 \/ (comm = "top" /\ depth > 0) => Lost

\* The commands the agent has taken, and the answers it has sent or will send.
Taken   == asks - Len(down)
Planned == Len(reply) + Len(out) - (IF half THEN 1 ELSE 0)

\* What the commands are numbered, and how many answers there are to them.
CommandInv ==
    /\ Len(down) <= asks
    /\ \A i \in 1..Len(down) : down[i][2] = Taken + i
    /\ comm = "data" => down # <<>>
    /\ comm \in {"work", "answer"} => cmd[1] \in Command /\ cmd[2] = Taken /\ Taken > 0

CountInv ==
    /\ comm = "work" => Taken <= Len(reply) + 1 /\ Len(reply) + 1 <= Taken + doubles
    /\ comm = "answer" => /\ Taken <= Len(reply) + 1
                          /\ Taken <= Planned /\ Planned <= Taken + doubles
    /\ comm \notin {"work", "answer"} => Taken <= Len(reply) /\ Len(reply) <= Taken + doubles

AnswerInv ==
    /\ half => comm = "answer" /\ out # <<>>
    /\ link = "none" => asks = 0 /\ down = <<>> /\ size = <<>>
    /\ ~skew => /\ CommandInv
                /\ \A j \in 1..Len(reply) : reply[j] \in 1..j /\ j - reply[j] <= doubles
                /\ link = "up" => CountInv

SessionInv == OwnTypeOK /\ ThreadInv /\ HoldInv /\ AnswerInv

-----------------------------------------------------------------------------
LEMMA SessionInvInit == Init => SessionInv
<1> SUFFICES ASSUME Init PROVE SessionInv
  OBVIOUS
<1>1. <<>> \in Seq(Nat) /\ <<>> \in Seq(Nat \X Nat) /\ <<>> \in Seq(Command \X Nat)
  OBVIOUS
<1>2. OwnTypeOK
  BY <1>1 DEF Init, StreamInit, OwnTypeOK
<1> QED
  BY <1>2 DEF Init, StreamInit, SessionInv, ThreadInv, HoldInv, AnswerInv, CommandInv, CountInv, Taken

\* TCP_conn
LEMMA TcpConnKeepsInv ==
  ASSUME SessionInv, TcpConn
  PROVE  SessionInv'
<1> USE DEF SessionInv, streamVars, peerVars, readerVars, linkVars, connVars, commVars
<1>1. CASE ConnectOK
  <2>1. OwnTypeOK'
    BY <1>1 DEF ConnectOK, OwnTypeOK
  <2>2. ThreadInv' /\ HoldInv'
    BY <1>1 DEF ConnectOK, ThreadInv, HoldInv, Lost, OwnTypeOK
  <2>3. AnswerInv'
    <3>1. /\ asks = 0 /\ down = <<>> /\ Len(reply) = 0 /\ comm = "off" /\ ~half
          /\ UNCHANGED <<asks, down, reply, half, size, comm, cmd, out, skew, doubles>>
      BY <1>1 DEF ConnectOK, ThreadInv, AnswerInv, OwnTypeOK
    <3> QED
      BY <1>1, <3>1 DEF ConnectOK, AnswerInv, CommandInv, CountInv, Taken, OwnTypeOK
  <2> QED  BY <2>1, <2>2, <2>3
<1>2. CASE ConnectRetries
  <2>1. OwnTypeOK'
    BY <1>2 DEF ConnectRetries, OwnTypeOK
  <2>2. ThreadInv' /\ HoldInv'
    BY <1>2 DEF ConnectRetries, ThreadInv, HoldInv, Lost, OwnTypeOK
  <2>3. AnswerInv'
    BY <1>2 DEF ConnectRetries, ThreadInv, AnswerInv, CommandInv, CountInv, Taken, Planned, OwnTypeOK
  <2> QED  BY <2>1, <2>2, <2>3
<1>3. CASE ConnectLeftOver
  <2>1. OwnTypeOK'
    BY <1>3 DEF ConnectLeftOver, OwnTypeOK
  <2>2. ThreadInv' /\ HoldInv'
    BY <1>3 DEF ConnectLeftOver, ThreadInv, HoldInv, Lost, OwnTypeOK
  <2>3. AnswerInv'
    BY <1>3 DEF ConnectLeftOver, ThreadInv, AnswerInv, CommandInv, CountInv, Taken, Planned, OwnTypeOK
  <2> QED  BY <2>1, <2>2, <2>3
<1>4. CASE ConnectStops
  <2>1. OwnTypeOK'
    BY <1>4 DEF ConnectStops, OwnTypeOK
  <2>2. ThreadInv' /\ HoldInv'
    BY <1>4 DEF ConnectStops, ThreadInv, HoldInv, Lost, OwnTypeOK
  <2>3. AnswerInv'
    BY <1>4 DEF ConnectStops, ThreadInv, AnswerInv, CommandInv, CountInv, Taken, Planned, OwnTypeOK
  <2> QED  BY <2>1, <2>2, <2>3
<1>5. CASE Greet
  <2>1. OwnTypeOK'
    BY <1>5 DEF Greet, OwnTypeOK
  <2>2. ThreadInv' /\ HoldInv'
    BY <1>5 DEF Greet, ThreadInv, HoldInv, Lost, OwnTypeOK
  <2>3. AnswerInv'
    BY <1>5 DEF Greet, ThreadInv, AnswerInv, CommandInv, CountInv, Taken, Planned, OwnTypeOK
  <2> QED  BY <2>1, <2>2, <2>3
<1>6. CASE Announce
  <2>1. OwnTypeOK'
    BY <1>6 DEF Announce, OwnTypeOK
  <2>2. ThreadInv' /\ HoldInv'
    BY <1>6 DEF Announce, ThreadInv, HoldInv, Lost, OwnTypeOK
  <2>3. AnswerInv'
    BY <1>6 DEF Announce, ThreadInv, AnswerInv, CommandInv, CountInv, Taken, Planned, OwnTypeOK
  <2> QED  BY <2>1, <2>2, <2>3
<1>7. CASE Spawn
  <2>1. OwnTypeOK'
    BY <1>7 DEF Spawn, OwnTypeOK
  <2>2. ThreadInv' /\ HoldInv'
    BY <1>7 DEF Spawn, ThreadInv, HoldInv, Lost, OwnTypeOK
  <2>3. AnswerInv'
    BY <1>7 DEF Spawn, ThreadInv, AnswerInv, CommandInv, CountInv, Taken, Planned, OwnTypeOK
  <2> QED  BY <2>1, <2>2, <2>3
<1> QED
  BY <1>1, <1>2, <1>3, <1>4, <1>5, <1>6, <1>7 DEF TcpConn

\* RECEIVE_TCP_DATA__with_alloc
LEMMA ReceiveKeepsInv ==
  ASSUME AgentSessionAssumption, SessionInv,
         Enter \/ UseFreedSocket \/ ReceiveFails \/ ReceiveEmpty \/ AllocationFails \/ ReceiveSize \/ ReceiveData
  PROVE  SessionInv'
<1> USE DEF SessionInv, streamVars, peerVars, readerVars, linkVars, connVars, commVars
<1>1. CASE Enter
  <2>1. OwnTypeOK'
    BY <1>1 DEF Enter, OwnTypeOK, HoldInv
  <2>2. ThreadInv' /\ HoldInv'
    BY <1>1 DEF Enter, ThreadInv, HoldInv, Lost, Readable, OwnTypeOK
  <2>3. AnswerInv'
    BY <1>1 DEF Enter, Readable, AnswerInv, CommandInv, CountInv, Taken, Planned, OwnTypeOK
  <2> QED  BY <2>1, <2>2, <2>3
<1>2. CASE UseFreedSocket
  <2>1. OwnTypeOK'
    BY <1>2 DEF UseFreedSocket, OwnTypeOK, HoldInv
  <2>2. ThreadInv' /\ HoldInv'
    BY <1>2 DEF UseFreedSocket, ThreadInv, HoldInv, Lost, Readable, OwnTypeOK
  <2>3. AnswerInv'
    BY <1>2 DEF UseFreedSocket, Readable, AnswerInv, CommandInv, CountInv, Taken, Planned, OwnTypeOK
  <2> QED  BY <2>1, <2>2, <2>3
<1>3. CASE ReceiveFails
  <2>1. OwnTypeOK'
    BY <1>3 DEF ReceiveFails, OwnTypeOK, HoldInv
  <2>2. ThreadInv' /\ HoldInv'
    BY <1>3 DEF ReceiveFails, ThreadInv, HoldInv, Lost, Readable, OwnTypeOK
  <2>3. AnswerInv'
    BY <1>3 DEF ReceiveFails, Readable, AnswerInv, CommandInv, CountInv, Taken, Planned, OwnTypeOK
  <2> QED  BY <2>1, <2>2, <2>3
<1>4. CASE ReceiveEmpty
  <2>1. OwnTypeOK'
    BY <1>4 DEF ReceiveEmpty, OwnTypeOK, HoldInv
  <2>2. ThreadInv' /\ HoldInv'
    BY <1>4 DEF ReceiveEmpty, ThreadInv, HoldInv, Lost, Readable, OwnTypeOK
  <2>3. AnswerInv'
    BY <1>4 DEF ReceiveEmpty, Readable, AnswerInv, CommandInv, CountInv, Taken, Planned, OwnTypeOK
  <2> QED  BY <2>1, <2>2, <2>3
<1>5. CASE AllocationFails
  <2>1. OwnTypeOK'
    BY <1>5 DEF AllocationFails, OwnTypeOK, HoldInv
  <2>2. ThreadInv' /\ HoldInv'
    BY <1>5 DEF AllocationFails, ThreadInv, HoldInv, Lost, Readable, OwnTypeOK
  <2>3. AnswerInv'
    BY <1>5 DEF AllocationFails, Readable, AnswerInv, CommandInv, CountInv, Taken, Planned, OwnTypeOK
  <2> QED  BY <2>1, <2>2, <2>3
<1>6. CASE ReceiveSize
  <2>1. OwnTypeOK'
    BY <1>6 DEF ReceiveSize, OwnTypeOK, HoldInv
  <2>2. ThreadInv' /\ HoldInv'
    BY <1>6 DEF ReceiveSize, ThreadInv, HoldInv, Lost, Readable, OwnTypeOK
  <2>3. AnswerInv'
    BY <1>6 DEF ReceiveSize, Readable, AnswerInv, CommandInv, CountInv, Taken, Planned, OwnTypeOK
  <2> QED  BY <2>1, <2>2, <2>3
<1>7. CASE ReceiveData
  <2>1. /\ comm = "data" /\ comm' = "work"
        /\ UNCHANGED <<asks, link, socket, tcp, connected, greeted, out, depth, reply, doubles, fault, size, half>>
    BY <1>7 DEF ReceiveData
  <2>2. OwnTypeOK' /\ AnswerInv'
    <3>1. CASE ~skew /\ cmd' = Head(down) /\ down' = Tail(down) /\ UNCHANGED skew
      <4>1. /\ down # <<>> /\ down \in Seq(Command \X Nat)
            /\ Len(down) <= asks /\ asks \in Nat
            /\ \A i \in 1..Len(down) : down[i][2] = Taken + i
        BY <2>1, <3>1 DEF AnswerInv, CommandInv, OwnTypeOK
      <4>2. /\ Len(down) \in Nat \ {0} /\ cmd' = down[1] /\ down[1] \in Command \X Nat
            /\ down' \in Seq(Command \X Nat) /\ Len(down') = Len(down) - 1
            /\ \A i \in 1..Len(down') : i + 1 \in 1..Len(down) /\ down'[i] = down[i + 1]
        BY <3>1, <4>1
      <4>3. Taken' = Taken + 1 /\ Taken \in Nat
        BY <2>1, <4>1, <4>2 DEF Taken
      <4>4. OwnTypeOK'
        BY <2>1, <3>1, <4>2 DEF OwnTypeOK
      <4>5. CommandInv'
        <5>1. cmd'[1] \in Command /\ cmd'[2] = Taken' /\ Taken' > 0
          BY <4>1, <4>2, <4>3
        <5>2. ASSUME NEW i \in 1..Len(down') PROVE down'[i][2] = Taken' + i
          <6>1. i \in Int /\ i + 1 \in 1..Len(down) /\ down'[i] = down[i + 1]
            BY <4>2
          <6>2. down[i + 1][2] = Taken + (i + 1)
            BY <4>1, <6>1
          <6> QED  BY <4>3, <6>1, <6>2
        <5>3. Len(down') <= asks'
          BY <2>1, <4>1, <4>2
        <5> QED  BY <2>1, <5>1, <5>2, <5>3 DEF CommandInv
      <4>6. link = "up" => CountInv'
        BY <2>1, <3>1, <4>3 DEF AnswerInv, CountInv, OwnTypeOK
      <4>7. AnswerInv'
        BY <2>1, <3>1, <4>1, <4>5, <4>6 DEF AnswerInv
      <4> QED  BY <4>4, <4>7
    <3>2. CASE cmd' \in (Sent \cup {"other"}) \X {0} /\ skew' = TRUE /\ UNCHANGED down
      <4>1. cmd' \in (Command \cup {"other"}) \X Nat
        BY <3>2 DEF AgentSessionAssumption
      <4>2. OwnTypeOK'
        BY <2>1, <3>2, <4>1 DEF OwnTypeOK
      <4>3. AnswerInv'
        BY <2>1, <3>2 DEF AnswerInv
      <4> QED  BY <4>2, <4>3
    <3> QED  BY <1>7, <3>1, <3>2 DEF ReceiveData
  <2>3. ThreadInv' /\ HoldInv'
    BY <1>7 DEF ReceiveData, ThreadInv, HoldInv, Lost, Readable, OwnTypeOK
  <2> QED  BY <2>2, <2>3
<1> QED
  BY <1>1, <1>2, <1>3, <1>4, <1>5, <1>6, <1>7

LEMMA ConcatType ==
  ASSUME NEW S, NEW a \in Seq(S), NEW b \in Seq(S)
  PROVE  a \o b \in Seq(S)
  OBVIOUS

\* Every command that the server sends has one answer, an accepted rule two.
LEMMA AnswersFit ==
  ASSUME AgentSessionAssumption, NEW c \in Command \cup {"other"}, NEW o \in Answers(c)
  PROVE  /\ o \in Seq(Nat \X Nat)
         /\ c \in Command => Len(o) \in {1, 2}
         /\ Len(o) = 2 => c = "GET_action_process_creation"
<1>1. \A n \in Data : n \in Nat
  BY DEF AgentSessionAssumption
<1>2. /\ <<Flag>> \in Seq(Nat \X Nat) /\ <<Flag, Flag>> \in Seq(Nat \X Nat) /\ <<>> \in Seq(Nat \X Nat)
      /\ Len(<<Flag>>) = 1 /\ Len(<<Flag, Flag>>) = 2 /\ Len(<<>>) = 0
  BY DEF Flag
<1>3. ASSUME NEW n \in Data, NEW m \in Nat
      PROVE  <<<<n, m>>>> \in Seq(Nat \X Nat) /\ Len(<<<<n, m>>>>) = 1
  BY <1>1
<1>4. CASE c = "GET_file_bin"
  <2>1. o = <<Flag>> \/ \E n \in Data : o = <<<<n, 0>>>>
    BY <1>4 DEF Answers, FileAnswers
  <2> QED  BY <1>2, <1>3, <1>4, <2>1
<1>5. CASE c = "GET_collected_data"
  <2>1. o = <<Flag>> \/ \E n \in Data : o = <<<<n, 4>>>>
    BY <1>5 DEF Answers, CollectedAnswers
  <2>2. \A n \in Data : <<<<n, 4>>>> \in Seq(Nat \X Nat) /\ Len(<<<<n, 4>>>>) = 1
    <3>1. 4 \in Nat
      OBVIOUS
    <3> QED  BY <1>3, <3>1
  <2> QED  BY <1>2, <1>5, <2>1, <2>2
<1>6. CASE c \in {"Are_you_ALIVE", "Signature_Management"}
  <2>1. o = <<Flag>>
    BY <1>6 DEF Answers, AliveAnswers
  <2> QED  BY <1>2, <1>6, <2>1
<1>7. CASE c = "GET_action_process_creation"
  BY <1>2, <1>7 DEF Answers
<1>8. CASE c = "other"
  BY <1>2, <1>8 DEF Answers, Command
<1> QED
  BY <1>4, <1>5, <1>6, <1>7, <1>8 DEF Command

\* communication_server
LEMMA AnswerKeepsInv ==
  ASSUME AgentSessionAssumption, StreamInv, SessionInv,
         Work \/ SendLength \/ SendData \/ SendFails \/ Release
  PROVE  SessionInv'
<1> USE DEF SessionInv, streamVars, peerVars, readerVars, linkVars, connVars, commVars
<1>1. CASE Work
  <2>1. /\ comm = "work" /\ comm' = "answer"
        /\ out' \in Answers(cmd[1]) /\ cmd[1] \in Command \cup {"other"}
        /\ UNCHANGED <<asks, down, link, socket, tcp, connected, greeted, cmd, depth, skew, reply, fault, size, half>>
    BY <1>1 DEF Work, OwnTypeOK
  <2>2. /\ doubles' \in Nat /\ doubles' >= doubles /\ doubles \in Nat
        /\ cmd[2] > 0 /\ Len(out') = 2 => doubles' = doubles + 1
    BY <1>1, <2>1, AnswersFit DEF Work, OwnTypeOK
  <2>3. /\ out' \in Seq(Nat \X Nat) /\ Len(out') \in Nat
        /\ cmd[1] \in Command => Len(out') \in {1, 2}
    BY <2>1, AnswersFit
  <2>4. OwnTypeOK'
    BY <2>1, <2>2, <2>3 DEF OwnTypeOK
  <2>5. AnswerInv'
    <3>1. ~half /\ (link = "none" => asks = 0 /\ down = <<>> /\ size = <<>>)
      BY <2>1 DEF AnswerInv
    <3>2. ASSUME ~skew PROVE CommandInv'
      BY <2>1, <3>2 DEF AnswerInv, CommandInv, Taken
    <3>3. ASSUME ~skew, NEW j \in 1..Len(reply)
          PROVE  reply[j] \in 1..j /\ j - reply[j] <= doubles'
      <4>1. reply[j] \in 1..j /\ j - reply[j] <= doubles
        BY <3>3 DEF AnswerInv
      <4> QED  BY <2>2, <4>1
    <3>4. ASSUME ~skew, link = "up" PROVE CountInv'
      <4>1. /\ Taken <= Len(reply) + 1 /\ Len(reply) + 1 <= Taken + doubles
            /\ cmd[1] \in Command /\ cmd[2] = Taken /\ Taken > 0
        BY <2>1, <3>4 DEF AnswerInv, CommandInv, CountInv
      <4>2. Taken \in Int /\ Len(reply) \in Nat /\ Taken' = Taken
        BY <2>1 DEF OwnTypeOK, Taken
      <4>3. Planned' = Len(reply) + Len(out')
        BY <2>1, <2>3, <3>1, <4>2 DEF Planned
      <4>4. Taken <= Planned' /\ Planned' <= Taken + doubles'
        <5>1. CASE Len(out') = 1
          BY <2>2, <4>1, <4>2, <4>3, <5>1
        <5>2. CASE Len(out') = 2
          BY <2>2, <4>1, <4>2, <4>3, <5>2
        <5> QED  BY <2>3, <4>1, <5>1, <5>2
      <4> QED  BY <2>1, <4>1, <4>2, <4>4 DEF CountInv
    <3> QED  BY <2>1, <3>1, <3>2, <3>3, <3>4 DEF AnswerInv
  <2>9. ThreadInv' /\ HoldInv'
    BY <1>1 DEF Work, ThreadInv, HoldInv, Lost, OwnTypeOK
  <2> QED  BY <2>4, <2>5, <2>9
<1>2. CASE SendLength
  <2>1. /\ comm = "answer" /\ out # <<>> /\ ~half /\ link = "up"
        /\ size' = Append(size, Head(out)[1]) /\ half' = TRUE
        /\ reply' = Append(reply, cmd[2])
        /\ UNCHANGED <<asks, down, link, socket, tcp, connected, greeted, comm, cmd, out, depth, skew, doubles, fault>>
    BY <1>2 DEF SendLength, WriteLength
  <2>2. /\ Len(size') = Len(size) + 1 /\ Len(reply') = Len(reply) + 1
        /\ reply' \in Seq(Nat) /\ Len(reply) \in Nat
        /\ reply'[Len(reply) + 1] = cmd[2]
        /\ \A j \in 1..Len(reply) : reply'[j] = reply[j]
    <3>1. size \in Seq(Nat)
      BY DEF StreamInv, StreamTypeOK
    <3> QED  BY <2>1, <3>1 DEF OwnTypeOK
  <2>3. OwnTypeOK'
    BY <2>1, <2>2 DEF OwnTypeOK
  <2>4. AnswerInv'
    <3>1. ASSUME ~skew PROVE CommandInv' /\ CountInv' /\ \A j \in 1..Len(reply') : reply'[j] \in 1..j /\ j - reply'[j] <= doubles
      <4>1. /\ CommandInv /\ cmd[2] = Taken /\ Taken > 0
            /\ Taken <= Len(reply) + 1
            /\ Taken <= Planned /\ Planned <= Taken + doubles
            /\ \A j \in 1..Len(reply) : reply[j] \in 1..j /\ j - reply[j] <= doubles
        BY <2>1, <3>1 DEF AnswerInv, CommandInv, CountInv
      <4>2. CommandInv' /\ Taken' = Taken
        BY <2>1, <4>1 DEF CommandInv, Taken
      <4>3. /\ Len(out) \in Nat \ {0} /\ Taken \in Int /\ doubles \in Nat
            /\ Planned = Len(reply) + Len(out) /\ Planned' = Planned
        BY <2>1, <2>2 DEF OwnTypeOK, Planned, Taken
      <4>4. CountInv'
        BY <2>1, <2>2, <4>1, <4>2, <4>3 DEF CountInv
      <4>5. cmd[2] \in 1..(Len(reply) + 1) /\ Len(reply) + 1 - cmd[2] <= doubles
        BY <2>2, <4>1, <4>3
      <4>6. \A j \in 1..Len(reply') : reply'[j] \in 1..j /\ j - reply'[j] <= doubles
        <5> TAKE j \in 1..Len(reply')
        <5>1. CASE j = Len(reply) + 1
          <6>1. reply'[j] = cmd[2]
            BY <2>2, <5>1
          <6> QED  BY <4>5, <5>1, <6>1
        <5>2. CASE j \in 1..Len(reply)
          BY <2>2, <4>1, <5>2
        <5> QED  BY <2>2, <5>1, <5>2
      <4> QED  BY <4>2, <4>4, <4>6
    <3> QED  BY <2>1, <3>1 DEF AnswerInv
  <2>9. ThreadInv' /\ HoldInv'
    BY <1>2 DEF SendLength, ThreadInv, HoldInv, Lost, OwnTypeOK
  <2> QED  BY <2>3, <2>4, <2>9
<1>3. CASE SendData
  <2>1. /\ comm = "answer" /\ out # <<>> /\ link = "up" /\ half /\ half' = FALSE
        /\ out' = Tail(out)
        /\ UNCHANGED <<asks, down, link, socket, tcp, connected, greeted, comm, cmd, depth, skew, reply, doubles, fault, size>>
    BY <1>3 DEF SendData, WriteData
  <2>2. out' \in Seq(Nat \X Nat) /\ Len(out') = Len(out) - 1 /\ Len(out) \in Nat
    BY <2>1 DEF OwnTypeOK
  <2>3. OwnTypeOK'
    BY <2>1, <2>2 DEF OwnTypeOK
  <2>4. AnswerInv'
    <3>1. Planned' = Planned /\ Taken' = Taken
      <4>1. Planned = Len(reply) + Len(out) - 1 /\ Len(reply) \in Nat
        BY <2>1 DEF Planned, OwnTypeOK
      <4>2. Planned' = Len(reply) + Len(out') - 0
        BY <2>1 DEF Planned
      <4> QED  BY <2>1, <2>2, <4>1, <4>2 DEF Taken
    <3>2. CommandInv => CommandInv'
      BY <2>1, <3>1 DEF CommandInv
    <3>3. CountInv => CountInv'
      BY <2>1, <3>1 DEF CountInv
    <3> QED  BY <2>1, <3>2, <3>3 DEF AnswerInv
  <2>9. ThreadInv' /\ HoldInv'
    BY <1>3 DEF SendData, ThreadInv, HoldInv, Lost, OwnTypeOK
  <2> QED  BY <2>3, <2>4, <2>9
<1>4. CASE SendFails
  <2>1. /\ comm = "answer" /\ out # <<>> /\ link # "up" /\ half' = FALSE
        /\ out' = Tail(out) \/ out' = <<Flag>> \o Tail(out)
        /\ UNCHANGED <<asks, down, link, socket, tcp, connected, greeted, comm, cmd, depth, skew, reply, doubles, fault, size>>
    <3>1. half \in BOOLEAN
      BY DEF StreamInv, StreamTypeOK
    <3> QED  BY <1>4, <3>1 DEF SendFails, WriteFails
  <2>2. out' \in Seq(Nat \X Nat)
    <3>1. Tail(out) \in Seq(Nat \X Nat)
      BY <2>1 DEF OwnTypeOK
    <3>2. <<Flag>> \in Seq(Nat \X Nat)
      BY DEF Flag
    <3>3. <<Flag>> \o Tail(out) \in Seq(Nat \X Nat)
      BY <3>1, <3>2, ConcatType
    <3> QED  BY <2>1, <3>1, <3>3
  <2>3. OwnTypeOK'
    BY <2>1, <2>2 DEF OwnTypeOK
  <2>4. AnswerInv'
    <3>1. CommandInv => CommandInv'
      BY <2>1 DEF CommandInv, Taken
    <3> QED  BY <2>1, <3>1 DEF AnswerInv
  <2>9. ThreadInv' /\ HoldInv'
    BY <1>4 DEF SendFails, ThreadInv, HoldInv, Lost, OwnTypeOK
  <2> QED  BY <2>3, <2>4, <2>9
<1>5. CASE Release
  <2>1. OwnTypeOK'
    BY <1>5 DEF Release, OwnTypeOK, HoldInv
  <2>2. ThreadInv' /\ HoldInv'
    BY <1>5 DEF Release, ThreadInv, HoldInv, Lost, Readable, OwnTypeOK
  <2>3. AnswerInv'
    BY <1>5 DEF Release, Readable, AnswerInv, CommandInv, CountInv, Taken, Planned, OwnTypeOK
  <2> QED  BY <2>1, <2>2, <2>3
<1> QED
  BY <1>1, <1>2, <1>3, <1>4, <1>5

\* The server and the network
LEMMA OthersKeepInv ==
  ASSUME AgentSessionAssumption, StreamInv, SessionInv,
         (\E c \in Sent : Ask(c)) \/ AskFails \/ ServerReads \/ LinkBreaks
  PROVE  SessionInv'
<1> USE DEF SessionInv, streamVars, peerVars, readerVars, linkVars, connVars, commVars
<1>1. ASSUME NEW c \in Sent, Ask(c) PROVE SessionInv'
  <2>1. /\ link = "up" /\ asks' = asks + 1 /\ down' = Append(down, <<c, asks + 1>>)
        /\ UNCHANGED <<size, half, link, socket, tcp, connected, greeted, comm, cmd, out, depth, skew, reply, doubles, fault>>
    BY <1>1 DEF Ask, Call, peerVars
  <2>2. /\ c \in Command /\ asks \in Nat /\ down \in Seq(Command \X Nat)
        /\ <<c, asks + 1>> \in Command \X Nat
    BY DEF OwnTypeOK, AgentSessionAssumption
  <2>3. /\ down' \in Seq(Command \X Nat) /\ Len(down') = Len(down) + 1 /\ Len(down) \in Nat
        /\ down'[Len(down) + 1] = <<c, asks + 1>>
        /\ \A i \in 1..Len(down) : down'[i] = down[i]
    BY <2>1, <2>2
  <2>4. OwnTypeOK'
    BY <2>1, <2>2, <2>3 DEF OwnTypeOK
  <2>5. ThreadInv' /\ HoldInv'
    BY <2>1 DEF ThreadInv, HoldInv, Lost
  <2>6. AnswerInv'
    <3>1. Taken' = Taken /\ Taken \in Int
      BY <2>1, <2>2, <2>3 DEF Taken
    <3>2. ASSUME ~skew PROVE CommandInv'
      <4>1. CommandInv
        BY <3>2 DEF AnswerInv
      <4>2. \A i \in 1..Len(down') : down'[i][2] = Taken' + i
        <5> TAKE i \in 1..Len(down')
        <5>1. CASE i = Len(down) + 1
          BY <2>2, <2>3, <3>1, <5>1 DEF Taken
        <5>2. CASE i \in 1..Len(down)
          BY <2>3, <3>1, <4>1, <5>2 DEF CommandInv
        <5> QED  BY <2>3, <5>1, <5>2
      <4>3. Len(down') <= asks' /\ down' # <<>>
        BY <2>1, <2>2, <2>3, <4>1 DEF CommandInv
      <4> QED  BY <2>1, <3>1, <4>1, <4>2, <4>3 DEF CommandInv
    <3>3. CountInv => CountInv'
      BY <2>1, <3>1 DEF CountInv, Planned
    <3> QED  BY <2>1, <3>2, <3>3 DEF AnswerInv
  <2> QED  BY <2>4, <2>5, <2>6
<1>2. CASE AskFails
  <2>1. OwnTypeOK'
    BY <1>2 DEF AskFails, CallRefused, peerVars, OwnTypeOK
  <2>2. ThreadInv' /\ HoldInv' /\ AnswerInv'
    BY <1>2 DEF AskFails, CallRefused, peerVars, ThreadInv, HoldInv, Lost, AnswerInv
  <2> QED  BY <2>1, <2>2
<1>3. CASE ServerReads
  <2>1. UNCHANGED <<size, half>>
    BY <1>3 DEF ServerReads, Read, ReadLength, ReadMore, ReadLast, ReadTail, ReadFails, peerVars
  <2>2. OwnTypeOK' /\ ThreadInv' /\ HoldInv'
    BY <1>3, <2>1 DEF ServerReads, OwnTypeOK, ThreadInv, HoldInv, Lost
  <2>3. Taken' = Taken /\ Planned' = Planned
    BY <1>3, <2>1 DEF ServerReads, Taken, Planned
  <2>4. AnswerInv'
    BY <1>3, <2>1, <2>3 DEF ServerReads, AnswerInv, CommandInv, CountInv
  <2> QED  BY <2>2, <2>4
<1>4. CASE LinkBreaks
  <2>1. OwnTypeOK' /\ ThreadInv' /\ HoldInv'
    BY <1>4 DEF LinkBreaks, OwnTypeOK, ThreadInv, HoldInv, Lost
  <2>2. AnswerInv'
    BY <1>4 DEF LinkBreaks, AnswerInv, CommandInv, Taken
  <2> QED  BY <2>1, <2>2
<1> QED
  BY <1>1, <1>2, <1>3, <1>4

LEMMA SessionInvStep ==
  ASSUME AgentSessionAssumption, StreamInv, SessionInv, [Next]_vars
  PROVE  SessionInv'
<1>1. CASE Next
  BY <1>1, TcpConnKeepsInv, ReceiveKeepsInv, AnswerKeepsInv, OthersKeepInv DEF Next, CommunicationServer
<1>2. CASE UNCHANGED vars
  <2>1. UNCHANGED <<size, half, asks, down, link, socket, tcp, connected, greeted, comm, cmd,
                    out, depth, skew, reply, doubles, fault>>
    BY <1>2 DEF vars, streamVars, peerVars, readerVars, linkVars, connVars, commVars
  <2>2. OwnTypeOK' /\ ThreadInv' /\ HoldInv'
    BY <2>1 DEF SessionInv, OwnTypeOK, ThreadInv, HoldInv, Lost
  <2>3. Taken' = Taken /\ Planned' = Planned
    BY <2>1 DEF Taken, Planned
  <2>4. AnswerInv'
    BY <2>1, <2>3 DEF SessionInv, AnswerInv, CommandInv, CountInv
  <2> QED  BY <2>2, <2>4 DEF SessionInv
<1> QED
  BY <1>1, <1>2

-----------------------------------------------------------------------------
(* The stream of answers                                                   *)

\* A write of an answer, the start of a call, a read: steps of FramedStream.
LEMMA StreamStep ==
  ASSUME SessionInv, [Next]_vars
  PROVE  [StreamNext]_streamVars
<1>1. CASE SendLength
  <2>1. Head(out)[1] \in Nat
    BY <1>1 DEF SendLength, SessionInv, OwnTypeOK
  <2> QED  BY <1>1, <2>1 DEF SendLength, StreamNext, Write
<1>2. CASE SendData
  BY <1>2 DEF SendData, StreamNext, Write
<1>3. CASE SendFails
  BY <1>3 DEF SendFails, StreamNext, Write
<1>4. CASE (\E c \in Sent : Ask(c)) \/ AskFails \/ ServerReads
  BY <1>4 DEF Ask, AskFails, ServerReads, StreamNext
<1>5. CASE TcpConn \/ LinkBreaks \/ UNCHANGED vars
  BY <1>5 DEF vars, TcpConn, ConnectOK, ConnectRetries, ConnectLeftOver, ConnectStops,
              Greet, Announce, Spawn, LinkBreaks
<1>6. CASE CommunicationServer
  BY <1>1, <1>2, <1>3, <1>6
  DEF CommunicationServer, Enter, UseFreedSocket, ReceiveFails, ReceiveEmpty, AllocationFails,
      ReceiveSize, ReceiveData, Work, Release
<1> QED
  BY <1>4, <1>5, <1>6 DEF Next

LEMMA JunkFits == JunkIsLength
  BY AgentSessionAssumption DEF AgentSessionAssumption, JunkIsLength

LEMMA InvStep ==
  ASSUME StreamInv, SessionInv, [Next]_vars
  PROVE  StreamInv' /\ SessionInv'
<1>1. StreamInv'
  BY StreamStep, JunkFits, StreamInvStep
<1>2. SessionInv'
  BY AgentSessionAssumption, SessionInvStep
<1> QED  BY <1>1, <1>2

-----------------------------------------------------------------------------
(* The theorems                                                            *)

\* Every reachable state satisfies both invariants.
THEOREM SessionInvariant == Spec => [](StreamInv /\ SessionInv)
<1>1. Init => StreamInv /\ SessionInv
  BY StreamInvInit, SessionInvInit DEF Init
<1>2. StreamInv /\ SessionInv /\ [Next]_vars => (StreamInv /\ SessionInv)'
  BY InvStep
<1> QED
  BY <1>1, <1>2, PTL DEF Spec

\* The state of the session keeps its types; the depth of the mutex does not go
\* below zero.
THEOREM SessionTypeOK == Spec => []TypeOK
<1>1. StreamInv /\ SessionInv => TypeOK
  BY DEF StreamInv, SessionInv, OwnTypeOK, TypeOK, StreamTypeOK
<1> QED
  BY <1>1, SessionInvariant, PTL

\* TCP_session is only left held by a connection that is lost or out of step.
THEOREM SessionHeldOnlyWhenBroken == Spec => []HeldOnlyWhenBroken
<1>1. SessionInv => HeldOnlyWhenBroken
  BY DEF SessionInv, HoldInv, Lost, HeldOnlyWhenBroken
<1> QED
  BY <1>1, SessionInvariant, PTL

\* A command is received, worked on and answered under TCP_session.
THEOREM SessionIsHeld == Spec => []WorksUnderTheSession
<1>1. SessionInv => WorksUnderTheSession
  BY DEF SessionInv, HoldInv, OwnTypeOK, WorksUnderTheSession
<1> QED
  BY <1>1, SessionInvariant, PTL

\* TCP_conn and communication_server do not use the session at the same time.
THEOREM SessionOneThread == Spec => []OneThreadAtATime
<1>1. SessionInv => OneThreadAtATime
  BY DEF SessionInv, ThreadInv, OneThreadAtATime
<1> QED
  BY <1>1, SessionInvariant, PTL

\* The server's j-th answer is late by at most the rules accepted before it.
THEOREM SessionStale == Spec => []StaleOnlyAfterDoubledYes
<1>1. StreamInv /\ SessionInv => StaleOnlyAfterDoubledYes
  <2> SUFFICES ASSUME StreamInv, SessionInv, ~outOfStep, ~skew, NEW j \in 1..Len(got)
               PROVE  reply[j] \in 1..j /\ j - reply[j] <= doubles
    BY DEF StaleOnlyAfterDoubledYes
  <2>1. Len(got) <= Len(size) /\ Len(got) \in Nat
    BY DEF StreamInv, ReaderInv, StreamTypeOK
  <2>2. Len(reply) = Len(size) /\ Len(reply) \in Nat
    BY DEF SessionInv, OwnTypeOK
  <2>3. j \in 1..Len(reply)
    BY <2>1, <2>2
  <2> QED
    BY <2>3 DEF SessionInv, AnswerInv
<1> QED
  BY <1>1, SessionInvariant, PTL

\* The session's answers are read as those of any stream.
THEOREM SessionOverread == Spec => []OverreadNeedsThreePieces
  BY SessionInvariant, OverreadFollows, PTL

\* What the server takes are the frames the agent sends, whole, once, in order.
THEOREM SessionImplementsFrameDelivery == Spec => ImplementsFrameDelivery
<1>1. Init => Delivery!Init
  BY DeliveryInit DEF Init
<1>2. StreamInv /\ SessionInv /\ [Next]_vars => [Delivery!Next]_<<Frames, got, ~outOfStep>>
  BY StreamStep, DeliveryStep
<1> QED
  BY <1>1, <1>2, SessionInvariant, PTL DEF Spec, ImplementsFrameDelivery, Delivery!Spec
=============================================================================
