----------------------------- MODULE MCReceiver ------------------------------
(***************************************************************************)
(* What a receiver makes of the bytes it is sent: of the stream, frames    *)
(* (Framing), and of a string in a payload, text (TextField).  The two     *)
(* share no state, so that a behaviour has steps of one of them only; an   *)
(* interleaving of both would show nothing more.                           *)
(***************************************************************************)
EXTENDS Framing, TextField

\* The bytes on both sides of every bound that the check or the table compares with.
Sampled == {127, 128, 143, 144, 159, 160, 191, 192, 193, 194, 224, 237, 239, 240, 244, 247, 248}

\* Every string of up to four of them, and one that is longer than the limit.
Samples == UNION {[1 .. n -> Sampled] : n \in 0 .. 4} \cup {<<127, 127, 127, 127, 127>>}

ReceiverInit == Init /\ TextInit

\* Frames are sent and decoded, beside the empty string.
FrameStep ==
    /\ text = <<>> /\ whole /\ taken = NotRead
    /\ Next
    /\ UNCHANGED tvars

\* A string is read, before the first frame.
TextStep ==
    /\ written = <<>> /\ reader = "Next"
    /\ TextNext
    /\ UNCHANGED vars

ReceiverNext == FrameStep \/ TextStep

ReceiverSpec == ReceiverInit /\ [][ReceiverNext]_<<vars, tvars>>
=============================================================================
