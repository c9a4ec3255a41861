---------------------------- MODULE FramedStream ----------------------------
(***************************************************************************)
(* One direction of a TCP stream between an agent and the center server:   *)
(* SEND_TCP_DATA of the agent writes frames of a 4-byte length and that    *)
(* many bytes of data; Receiving_from_Agent of the server reads them back. *)
(* TCP keeps no boundaries: a read returns any part of what is there.      *)
(*                                                                         *)
(* Bytes are counted, not represented: a position in the stream says what  *)
(* stands there, since a frame's length stands where the frame starts.     *)
(* What a reader finds that takes other bytes for a length is any of Junk. *)
(***************************************************************************)
EXTENDS Naturals, Sequences

CONSTANTS
    Piece,  \* bound: a read returns all it can, or one of these numbers of bytes
    Junk    \* bound: lengths that bytes of data may be taken for

VARIABLES
    size,      \* the frames whose length has been written: their sizes
    start,     \* start[j]: the position of frame j
    wrote,     \* bytes written so far
    half,      \* the data of the last frame is still to be written
    pos,       \* bytes read so far (Agent_Receive_Buf)
    call,      \* where Receiving_from_Agent is
    want,      \* DATA_SIZE
    cap,       \* DATA_BUFFER.len()
    trace,     \* trace_DATA_SIZE
    pieces,    \* history: the reads of data in this call
    got,       \* history: <<position, length>> of what was returned in Some
    outOfStep  \* history: a call has returned None, a length was read in parts,
               \* or a frame has been left without its data

peerVars   == <<size, start, wrote, half>>
readerVars == <<pos, call, want, cap, trace, pieces, got>>
streamVars == <<peerVars, readerVars, outOfStep>>

StreamTypeOK ==
    /\ size \in Seq(Nat)
    /\ start \in Seq(Nat)
    /\ wrote \in Nat
    /\ half \in BOOLEAN
    /\ pos \in Nat
    /\ call \in {"idle", "length", "data"}
    /\ want \in Nat
    /\ cap \in Nat
    /\ trace \in Nat
    /\ pieces \in Nat
    /\ got \in Seq(Nat \X Nat)
    /\ outOfStep \in BOOLEAN

StreamInit ==
    /\ size = <<>> /\ start = <<>>
    /\ wrote = 0 /\ half = FALSE
    /\ pos = 0 /\ call = "idle"
    /\ want = 0 /\ cap = 0 /\ trace = 0 /\ pieces = 0
    /\ got = <<>>
    /\ outOfStep = FALSE

-----------------------------------------------------------------------------
(* SEND_TCP_DATA                                                           *)

\* [1/2] the length of a frame of n bytes
WriteLength(n) ==
    /\ ~half
    /\ size' = Append(size, n)
    /\ start' = Append(start, wrote)
    /\ wrote' = wrote + 4
    /\ half' = TRUE
    /\ UNCHANGED <<readerVars, outOfStep>>

\* [2/2] the data
WriteData ==
    /\ half
    /\ wrote' = wrote + size[Len(size)]
    /\ half' = FALSE
    /\ UNCHANGED <<size, start, readerVars, outOfStep>>

\* The send of [2/2] fails: the next frame starts where the data would.
WriteFails ==
    /\ half
    /\ half' = FALSE
    /\ outOfStep' = TRUE
    /\ UNCHANGED <<size, start, wrote, readerVars>>

-----------------------------------------------------------------------------
(* Receiving_from_Agent                                                    *)

\* The numbers of bytes a read into a buffer of the given room may return.
Chunk(room) == {n \in 1..room : n <= wrote - pos /\ (n \in Piece \/ n = room \/ n = wrote - pos)}

Call ==
    /\ call = "idle"
    /\ call' = "length"
    /\ UNCHANGED <<peerVars, pos, want, cap, trace, pieces, got, outOfStep>>

\* SEND_DATA_with_SERVER_COMMAND, lines 128-129: the request cannot be sent, and
\* the caller gets None without a read.
CallRefused ==
    /\ call = "idle"
    /\ outOfStep' = TRUE
    /\ UNCHANGED <<peerVars, readerVars>>

\* u32::from_le_bytes of a buffer of zeros of which k bytes were read.
Low(k, n) == IF k = 4 THEN n ELSE n % 256^k

\* Line 56: one read, into four bytes; it need not fill them.
ReadLength(k) ==
    /\ call = "length"
    /\ k \in Chunk(4)
    /\ pos' = pos + k
    /\ \/ \E j \in 1..Len(start) : start[j] = pos /\ want' = Low(k, size[j])
       \/ (\A j \in 1..Len(start) : start[j] # pos) /\ want' \in Junk
    /\ cap' = want'
    /\ trace' = 0
    /\ pieces' = 0
    /\ call' = "data"
    /\ outOfStep' = (outOfStep \/ k < 4)
    /\ UNCHANGED <<peerVars, got>>

\* The locals of the call are gone.
Return == call' = "idle" /\ want' = 0 /\ cap' = 0 /\ trace' = 0 /\ pieces' = 0

\* Mutant of ReadMore: the new buffer is as large as the first one.
ReadMoreFrom0(n) ==
    /\ call = "data"
    /\ n \in Chunk(cap)
    /\ cap >= 4 /\ trace + n # want
    /\ pos' = pos + n
    /\ trace' = trace + n
    /\ pieces' = pieces + 1
    /\ cap' = want
    /\ UNCHANGED <<peerVars, call, want, got, outOfStep>>

\* Lines 79-88: not everything yet.  The new buffer has room for what this read
\* has left of the frame, not for what all reads have left of it (line 81).
ReadMore(n) ==
    /\ call = "data"
    /\ n \in Chunk(cap)
    /\ cap >= 4 /\ trace + n # want
    /\ pos' = pos + n
    /\ trace' = trace + n
    /\ pieces' = pieces + 1
    /\ cap' = want - n
    /\ UNCHANGED <<peerVars, call, want, got, outOfStep>>

\* Mutant of ReadLast: a read that fills its buffer is taken for the last one.
ReadLastFull(n) ==
    /\ call = "data"
    /\ n \in Chunk(cap)
    /\ cap >= 4 /\ (trace + n = want \/ n = cap)
    /\ pos' = pos + n
    /\ got' = Append(got, <<pos - trace, trace + n>>)
    /\ Return
    /\ UNCHANGED <<peerVars, outOfStep>>

\* Lines 89-91: the frame is complete.
ReadLast(n) ==
    /\ call = "data"
    /\ n \in Chunk(cap)
    /\ cap >= 4 /\ trace + n = want
    /\ pos' = pos + n
    /\ got' = Append(got, <<pos - trace, trace + n>>)
    /\ Return
    /\ UNCHANGED <<peerVars, outOfStep>>

\* Lines 96-99: what was read went into a buffer of less than four bytes.
ReadTail(n) ==
    /\ call = "data"
    /\ n \in Chunk(cap)
    /\ cap < 4
    /\ pos' = pos + n
    /\ Return
    /\ outOfStep' = TRUE
    /\ UNCHANGED <<peerVars, got>>

\* Lines 57, 72, 105, 113: time-out, error or end of the stream; a read into an
\* empty buffer also returns Ok(0).
ReadFails ==
    /\ call # "idle"
    /\ Return
    /\ outOfStep' = TRUE
    /\ UNCHANGED <<peerVars, pos, got>>

-----------------------------------------------------------------------------
Write == (\E n \in Nat : WriteLength(n)) \/ WriteData \/ WriteFails

Read ==
    \/ \E k \in 1..4 : ReadLength(k)
    \/ \E n \in 1..cap : ReadMore(n) \/ ReadLast(n) \/ ReadTail(n)
    \/ ReadFails

StreamNext == Write \/ Call \/ CallRefused \/ Read

StreamSpec == StreamInit /\ [][StreamNext]_streamVars

-----------------------------------------------------------------------------
(* Properties                                                              *)

\* The buffer of a read never is larger than the frame, so the subtraction of
\* line 81 does not underflow; and the reader only gets past the end of a frame
\* (after which no read makes the lengths equal) with its third read at the
\* earliest, when another frame has been written behind it.
OverreadNeedsThreePieces ==
    call = "data" =>
        /\ cap <= want
        /\ trace > want => /\ pieces >= 3
                           /\ ~outOfStep => Len(size) >= Len(got) + 2

Frames == [j \in 1..Len(size) |-> <<start[j] + 4, size[j]>>]

Delivery == INSTANCE FrameDelivery WITH sent <- Frames, taken <- got, inStep <- ~outOfStep

\* What Some returns are the frames, each one whole and once, in their order,
\* until a call returns None or a length is read in parts: in whatever pieces
\* the data arrives and however lines 79-88 size the next buffer.
ImplementsFrameDelivery == Delivery!Spec
=============================================================================
