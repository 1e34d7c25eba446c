------------------------------- MODULE Framing -------------------------------
(***************************************************************************)
(* Frames over a byte stream (protocol.cpp): what one end writes with      *)
(* encode_frame and what the other end's FrameDecoder makes of it, however *)
(* the transport cuts the stream into chunks.  Module Session has the      *)
(* frames as a worker and a client exchange them; this one has the bytes   *)
(* under them.                                                             *)
(*                                                                         *)
(* A byte is a pair of the number of the frame it was written for and its  *)
(* offset in it; the header is the first kFrameHeaderBytes of them.  Its   *)
(* magic, length, checksum and flags are represented by the frame itself:  *)
(* they can be read when the header's bytes stand together and in order,   *)
(* and the checksum matches when the payload's do.                         *)
(* Definitions named X_... are faulty variants of X.                       *)
(***************************************************************************)
EXTENDS Naturals, Sequences

CONSTANTS kFrameHeaderBytes, kReceiveChunk,
          max_frame_bytes,   \* the bound of the decoder
          send_bound,        \* what the sender compares a payload with
          Lengths,           \* the payload lengths tried
          kErrorReplyBytes,  \* the length of the reply sent in place of a large one
          MaxFrames          \* bound of the model: frames written

\* The decoder can buffer what it waits for and one more chunk; the defaults are
\* a bound of 1 MiB and chunks of 64 KiB.
ASSUME FramingAssumption ==
    /\ kFrameHeaderBytes \in Nat \ {0} /\ max_frame_bytes \in Nat /\ send_bound \in Nat
    /\ kReceiveChunk \in 1 .. kFrameHeaderBytes + max_frame_bytes
    /\ Lengths \subseteq Nat /\ kErrorReplyBytes \in 0 .. max_frame_bytes
    /\ MaxFrames \in Nat

VARIABLES written,                    \* the frames, as they were written
          stream,                     \* the bytes on their way
          buffer_, cursor_, failed_,  \* FrameDecoder
          reader,                     \* what serve and round_trip do next
          delivered                   \* the frames next has returned

vars == <<written, stream, buffer_, cursor_, failed_, reader, delivered>>

\* A frame is its length and what is wrong with it, if anything: its first word,
\* its flags or its payload are not what encode_frame makes, or the sender failed
\* in the middle of it.  These are its first n bytes.
Bytes(i, n) == [k \in 1 .. n |-> <<i, k>>]

Init ==
    /\ written = <<>> /\ stream = <<>>
    /\ buffer_ = <<>> /\ cursor_ = 0 /\ failed_ = FALSE
    /\ reader = "Next" /\ delivered = <<>>

------------------------------------------------------------------------------
(* The sender *)

\* n bytes of a new frame.
Write(length, fault, n) ==
    /\ Len(written) < MaxFrames
    /\ written' = Append(written, [length |-> length, fault |-> fault])
    /\ stream' = stream \o Bytes(Len(written'), n)
    /\ UNCHANGED <<buffer_, cursor_, failed_, reader, delivered>>

encode_frame(length) == Write(length, "None", kFrameHeaderBytes + length)

\* round_trip does not send a request that is too large; send_response sends an
\* error in place of such a reply.
send(length) ==
    \/ length <= send_bound /\ encode_frame(length)
    \/ length > send_bound /\ encode_frame(kErrorReplyBytes)

\* The send fails after some of the bytes; the sender may go on with another
\* frame, as round_trip does when it is called again.
send_fails(length) ==
    /\ length <= send_bound
    /\ \E n \in 1 .. kFrameHeaderBytes + length - 1 : Write(length, "Cut", n)

\* A peer that does not keep to the format.
send_malformed(length, fault) == Write(length, fault, kFrameHeaderBytes + length)

------------------------------------------------------------------------------
(* The decoder *)

\* Bytes that were read are kept.
push_KeepsConsumed(chunk) ==
    LET room == 2 * (max_frame_bytes + kFrameHeaderBytes) IN
    /\ buffer_' = IF Len(chunk) > room THEN buffer_ ELSE buffer_ \o chunk
    /\ failed_' = (Len(chunk) > room \/ Len(buffer_') > room)
    /\ UNCHANGED cursor_

push(chunk) ==
    LET rest == SubSeq(buffer_, cursor_ + 1, Len(buffer_))
        room == 2 * (max_frame_bytes + kFrameHeaderBytes)
    IN  /\ cursor_' = 0
        /\ buffer_' = IF Len(chunk) > room THEN rest ELSE rest \o chunk
        /\ failed_' = (Len(chunk) > room \/ Len(buffer_') > room)

Available == Len(buffer_) - cursor_

\* The frame at the cursor starts here and its whole header can be read.
HeaderOf(i) == SubSeq(buffer_, cursor_ + 1, cursor_ + kFrameHeaderBytes) = Bytes(i, kFrameHeaderBytes)

Total(i) == kFrameHeaderBytes + written[i].length

LengthTooLarge(i) == written[i].length > max_frame_bytes

\* The checksum is not compared.
PayloadMatches_Always(i) == TRUE

\* The checksum of the bytes where the payload should be.
PayloadMatches(i) ==
    /\ written[i].fault # "Payload"
    /\ SubSeq(buffer_, cursor_ + 1, cursor_ + Total(i)) = Bytes(i, Total(i))

\* Return Status::NotFound; the caller receives.
NotFound == reader' = "Receive" /\ UNCHANGED <<buffer_, cursor_, failed_, delivered>>

\* A decoder that refused a frame refuses everything after it.  A worker closes
\* its connection; a client may ask again.
Refuse == failed_' = TRUE /\ UNCHANGED <<buffer_, cursor_, reader, delivered>>

\* What is buffered behind a frame is dropped with it.
Consume_All(i) ==
    /\ delivered' = Append(delivered, i)
    /\ buffer_' = <<>> /\ cursor_' = 0
    /\ UNCHANGED <<failed_, reader>>

Consume(i) ==
    /\ delivered' = Append(delivered, i)
    /\ IF cursor_ + Total(i) = Len(buffer_)
       THEN buffer_' = <<>> /\ cursor_' = 0
       ELSE cursor_' = cursor_ + Total(i) /\ UNCHANGED buffer_
    /\ UNCHANGED <<failed_, reader>>

\* A header that is made up of the bytes of two frames declares anything: it is
\* refused at once, or when the bytes it declares are there and the checksum of
\* what is none of the payloads written does not match.
next ==
    /\ reader = "Next" /\ ~failed_
    /\ \/ Available < kFrameHeaderBytes /\ NotFound
       \/ /\ Available >= kFrameHeaderBytes
          /\ ~ \E i \in DOMAIN written : HeaderOf(i)
          /\ Refuse \/ (Available < kFrameHeaderBytes + max_frame_bytes /\ NotFound)
       \/ /\ Available >= kFrameHeaderBytes
          /\ \E i \in DOMAIN written :
                /\ HeaderOf(i)
                /\ \/ /\ written[i].fault \in {"Magic", "Flags"} \/ LengthTooLarge(i)
                      /\ Refuse
                   \/ /\ written[i].fault \notin {"Magic", "Flags"} /\ ~LengthTooLarge(i)
                      /\ \/ Available < Total(i) /\ NotFound
                         \/ Available >= Total(i) /\ PayloadMatches(i) /\ Consume(i)
                         \/ Available >= Total(i) /\ ~PayloadMatches(i) /\ Refuse
    /\ UNCHANGED <<written, stream>>

\* recv_some returns what has arrived, up to a chunk.
receive ==
    /\ reader = "Receive" /\ ~failed_
    /\ \E n \in 1 .. kReceiveChunk :
          /\ n <= Len(stream)
          /\ push(SubSeq(stream, 1, n))
          /\ stream' = SubSeq(stream, n + 1, Len(stream))
    /\ reader' = "Next"
    /\ UNCHANGED <<written, delivered>>

\* The caller gives up while it waits, and asks again with its next call.
ask_again ==
    /\ reader = "Receive" /\ ~failed_
    /\ reader' = "Next"
    /\ UNCHANGED <<written, stream, buffer_, cursor_, failed_, delivered>>

Next ==
    \/ \E length \in Lengths :
          \/ send(length)
          \/ send_fails(length)
          \/ \E fault \in {"Magic", "Flags", "Payload"} : send_malformed(length, fault)
    \/ next
    \/ receive
    \/ ask_again

Spec == Init /\ [][Next]_vars

------------------------------------------------------------------------------
(* Properties *)

Acceptable(i) == written[i].fault = "None" /\ written[i].length <= max_frame_bytes

\* What next returns is the frames as they were written: in order, none left out,
\* none twice, and none that was damaged, cut off, or merged with another.
DeliveredIsPrefix ==
    /\ delivered = [k \in 1 .. Len(delivered) |-> k]
    /\ \A k \in DOMAIN delivered : Acceptable(k)

\* The decoder refuses the stream at the first frame that is not acceptable and
\* never before it, wherever the chunks begin and end: neither its buffer bound
\* nor a frame that arrives in parts makes it refuse what was written correctly.
RefusedAtFirstFault ==
    failed_ => /\ Len(delivered) < Len(written)
               /\ ~Acceptable(Len(delivered) + 1)

\* When the reader waits and nothing is on its way, every acceptable frame before
\* the first fault has been returned: none is left in the buffer.
NothingLeftBehind ==
    reader = "Receive" /\ ~failed_ /\ stream = <<>> /\ Len(delivered) < Len(written)
        => ~Acceptable(Len(delivered) + 1)

==============================================================================
