---------------------------- MODULE FrameDelivery ----------------------------
(***************************************************************************)
(* What a stream of length-prefixed frames promises its reader: every call *)
(* takes the next whole frame, in the order they were sent.  The promise   *)
(* ends (inStep) with the first call that fails.                           *)
(***************************************************************************)
EXTENDS Naturals, Sequences

VARIABLES sent,   \* the frames sent
          taken,  \* the frames handed to the reader
          inStep  \* no call has failed yet

Init == sent = <<>> /\ taken = <<>> /\ inStep = TRUE

Send ==
    /\ inStep' = inStep
    /\ Len(sent') = Len(sent) + 1
    /\ SubSeq(sent', 1, Len(sent)) = sent
    /\ UNCHANGED taken

Take ==
    /\ inStep /\ inStep' = inStep
    /\ Len(taken) < Len(sent)
    /\ taken' = Append(taken, sent[Len(taken) + 1])
    /\ UNCHANGED sent

GiveUp == inStep' = FALSE

Next == Send \/ Take \/ GiveUp

Spec == Init /\ [][Next]_<<sent, taken, inStep>>
=============================================================================
