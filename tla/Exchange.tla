------------------------------ MODULE Exchange ------------------------------
(***************************************************************************)
(* One message, from the encoder that writes it to the decoder that reads  *)
(* it (module Messages).  Its bytes arrive as they were written, or they   *)
(* are not what the encoder made: the end is missing, there is a byte too  *)
(* many, one byte has another value, or the peer has an encoder of its own *)
(* that cuts no text.  A text that a client gives is then put in the       *)
(* record that the daemon's plan makes or changes, and the image of that   *)
(* record is applied: decoded again, here and at every later start.        *)
(***************************************************************************)
EXTENDS Messages

CONSTANTS Tried,      \* the messages sent
          Texts,      \* the strings in them
          Accented,   \* the strings with longer characters that are given by clients
          Lengths,    \* the numbers of elements in their lists
          Overwrites  \* the values that a byte is given in place of its own

ASSUME ExchangeAssumption ==
    /\ Tried \subseteq DOMAIN Written
    /\ \A t \in Texts \cup Accented :
           t \in Seq(Byte) /\ Len(t) <= max_string /\ is_valid_utf8(t)
    /\ Lengths \subseteq 0 .. max_container /\ Overwrites \subseteq Byte

VARIABLES message, sent,     \* what is sent
          data,              \* its bytes
          fault,             \* what is wrong with them
          received,          \* what the decoder returned
          image, applied     \* the image of the plan, and what apply decoded

vars == <<message, sent, data, fault, received, image, applied>>

None == [ok |-> FALSE, value |-> <<>>, offset |-> -1]

\* A record with the given strings, where the encoder cuts none and where it may, the
\* given number of elements and, for ordinals, booleans and bounded numbers, the
\* smallest or the largest value that is written.  No two other fields have the same
\* value.
RECURSIVE Sample(_, _, _, _, _)
Sample(fields, text, long, elements, large) ==
    LET Least(S) == CHOOSE n \in S : \A m \in S : n <= m
        Greatest(S) == CHOOSE n \in S : \A m \in S : n >= m
        Distinct(i, width) == [k \in 1 .. width |-> IF k = 1 THEN i ELSE k]
        Fill(record, i) ==
            LET f == fields[i]
            IN (f[1] :> CASE f[2] = "atmost" -> IF large THEN record[f[3]] ELSE [k \in 1 .. 8 |-> 0]
                          [] f[2] \in Fixed -> Distinct(i, Width(f[2]))
                          [] f[2] = "boolean" -> large
                          [] f[2] \in {"ordinal", "ordinal16"} ->
                                 IF large THEN Greatest(f[3]) ELSE Least(f[3])
                          [] f[2] = "number" -> IF large THEN f[3] ELSE 0
                          [] f[2] \in {"str", "bytes"} -> text
                          [] f[2] = "cut" -> long
                          [] f[2] = "nested" -> Sample(f[3], text, long, elements, large)
                          [] f[2] \in {"list", "counted"} ->
                                 [e \in 1 .. elements |-> Sample(f[3], text, long, elements, large)])
               @@ record
    IN FoldLeft(Fill, <<>>, [i \in DOMAIN fields |-> i])

\* The requests whose text a plan puts in a record.
Reasoned == {"SiteSetState", "PathSetState", "CapacityAttest", "GrantPropose", "GrantDegrade",
             "GrantWithdraw", "GrantRetire", "GrantCancel", "GrantVerify", "GrantReconcile"}

\* The encoder is what cuts the source of an attestation, in the client and for the
\* image.  In every other record the plan has cut the text, or decoded what was cut.
Uncut == {"CapacityAttest", "AttestationImage"}

\* The fields as written by an encoder that cuts no text.
RECURSIVE Plain(_)
Plain(fields) ==
    [i \in DOMAIN fields |->
        LET f == fields[i]
        IN CASE f[2] = "cut" -> Str(f[1])
             [] f[2] \in {"nested", "list", "counted"} -> [f EXCEPT ![3] = Plain(f[3])]
             [] OTHER -> f]

Init ==
    /\ message \in Tried
    /\ fault \in {"none", "foreign"}
    /\ \E text \in IF message \in Reasoned \cup Uncut THEN Texts \cup Accented ELSE Texts,
          elements \in Lengths, large \in BOOLEAN :
          LET long == IF message \in Uncut \/ fault = "foreign" THEN text ELSE bounded(text)
          IN sent = Sample(Written[message], text, long, elements, large)
    /\ IF fault = "none" THEN data = Encode(Written[message], sent)
                         ELSE /\ Plain(Written[message]) # Written[message]
                              /\ data = Encode(Plain(Written[message]), sent)
    /\ received = None /\ image = <<>> /\ applied = None

------------------------------------------------------------------------------

Disturb(kind, bytes) ==
    /\ fault = "none" /\ received = None
    /\ fault' = kind /\ data' = bytes
    /\ UNCHANGED <<message, sent, received, image, applied>>

Truncate == \E n \in 0 .. Len(data) - 1 : Disturb("truncated", SubSeq(data, 1, n))
Extend == \E b \in Overwrites : Disturb("extended", Append(data, b))
Overwrite == \E p \in DOMAIN data, b \in Overwrites :
    b # data[p] /\ Disturb("overwritten", [data EXCEPT ![p] = b])

\* The decoder that the receiver uses for this message.
Receive ==
    /\ received = None
    /\ LET r == Decode(Expected[message], data, 0)
       IN received' = IF r.ok /\ (EndRequired(message) => require_end(data, r.offset))
                      THEN r ELSE Refused
    /\ UNCHANGED <<message, sent, data, fault, image, applied>>

\* Where a plan puts the text that came with the request: the kinds of image it may
\* make and the field of the record.  A site or path that is taken out of service
\* gives its text to the grants that it downgrades.  Where the text is empty the
\* plans put a word of their own, which is as readable as the empty one that stands
\* for it here.
Destination ==
    CASE message = "CapacityAttest" -> {<<"AttestationImage", "source">>}
      [] message \in {"GrantPropose", "GrantDegrade", "GrantWithdraw", "GrantRetire",
                      "GrantCancel", "GrantReconcile"} -> {<<"GrantImage", "reason">>}
      [] message = "GrantVerify" -> {<<"VerificationImage", "detail">>}
      [] message = "SiteSetState" ->
            LET state == SiteState[received.value.state + 1]
            IN {<<"SiteImage", "fence_reason">> : s \in {state} \cap {"Fenced"}} \cup
               {<<"GrantImage", "reason">> :
                    s \in {state} \cap {"Partitioned", "Down", "Fenced", "Maintenance"}}
      [] message = "PathSetState" ->
            {<<"GrantImage", "reason">> : s \in {PathState[received.value.state + 1]}
                                               \cap {"Down", "Fenced", "Maintenance", "Draining"}}

Reason ==
    CASE message = "GrantReconcile" -> received.value.op.reason
      [] message = "GrantVerify" -> received.value.detail
      [] message = "CapacityAttest" -> received.value.source
      [] OTHER -> received.value.reason

\* The plan cuts the text, or leaves that to the encoder, and makes the image, commit has
\* it written to the log, and apply decodes it.
PlanAndApply ==
    /\ message \in Reasoned /\ received.ok /\ image = <<>>
    /\ \E to \in Destination :
        LET kind == to[1]
            kept == IF message = "CapacityAttest" THEN Reason ELSE bounded(Reason)
            changed == [Sample(Planned[kind], <<>>, <<>>, 0, FALSE) EXCEPT ![to[2]] = kept]
        IN /\ image' = Encode(Planned[kind], changed)
           /\ LET r == Decode(apply[kind], image', 0)
              IN applied' = IF r.ok /\ require_end(image', r.offset) THEN r ELSE Refused
    /\ UNCHANGED <<message, sent, data, fault, received>>

Next == Truncate \/ Extend \/ Overwrite \/ Receive \/ PlanAndApply

Spec == Init /\ [][Next]_vars

------------------------------------------------------------------------------
(* Properties *)

\* What is sent arrives: the decoder that meets an encoder returns the record that
\* was encoded, for every message, every log record and every image (TESTING.md), but
\* for the source of an attestation.  The encoder cuts that at a byte, without a word
\* to the caller, and what arrives is the beginning of it; the decoder refuses the
\* record if the cut went through a character.  Longer texts of a peer that does not
\* cut arrive as they are.
SurvivesRoundTrip ==
    received # None /\ fault \in {"none", "foreign"} =>
        IF fault = "none" /\ message \in Uncut
        THEN LET kept == [sent EXCEPT !.source = bounded(@)]
             IN IF WellFormed(kept.source) THEN received.ok /\ received.value = kept
                                           ELSE ~received.ok
        ELSE received.ok /\ received.value = sent

\* There is one encoding of any record (PROTOCOL.md): whatever bytes a decoder
\* accepts, whoever wrote them, are the bytes of what it returned, in order and in
\* full, and no byte is missing or left over.  The digest of the state and the
\* comparison of images rest on it.  They are the bytes that the encoder makes of it,
\* unless the record has a text that the encoder would cut: the decoder takes one that
\* is as long as any string may be.  The one reader that lets bytes follow is
\* FabricClient::snapshot.
OneEncoding ==
    received # None /\ received.ok =>
        LET consumed == IF message = "SnapshotReply" THEN SubSeq(data, 1, received.offset) ELSE data
        IN consumed = Encode(Plain(Written[message]), received.value)

\* commit writes an image to the log before apply decodes it, and every later start
\* decodes it again.  No accepted request leads to one that cannot be decoded, except
\* by a text that is cut in the middle of a character: a reason, which the plan cuts, or
\* the source of an attestation, which this client's encoder cuts before it is sent,
\* another peer need not, and the encoder of the image does.
UnreadableOnlyIfCut ==
    applied # None /\ ~applied.ok => WellFormed(Reason) /\ ~WellFormed(bounded(Reason))
=============================================================================
