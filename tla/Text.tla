-------------------------------- MODULE Text --------------------------------
(***************************************************************************)
(* Strings in the canonical encoding (wire.cpp): how a Writer writes one,  *)
(* and which bytes a Reader takes for one.  The Reader's functions give    *)
(* the value and the offset_ behind it, or refuse.                         *)
(* Definitions named X_... are faulty variants of X.                       *)
(***************************************************************************)
EXTENDS Integers, Sequences

CONSTANTS max_string,        \* WireLimits
          kMaxReasonBytes    \* model.cpp and, as kMaxReasonText, authority.cpp

\* The largest number of TLC stands for every u32 from there on.
TooLarge == 2147483647

ASSUME TextAssumption ==
    /\ max_string \in Nat /\ max_string < TooLarge
    /\ kMaxReasonBytes \in 0 .. max_string

Byte == 0 .. 255

------------------------------------------------------------------------------
(* Which bytes are text *)

\* How many bytes follow a lead byte; -1 when it is none.
Extra(lead) ==
    CASE lead < 128       -> 0
      [] lead \div 32 = 6  -> 1
      [] lead \div 16 = 14 -> 2
      [] lead \div 8 = 30  -> 3
      [] OTHER            -> -1

IsContinuation(b) == b \div 64 = 2

\* The value that a lead byte and the continuation bytes after it spell.
Code(unit) ==
    LET Low(k) == unit[k] % 64 IN
    CASE Len(unit) = 1 -> unit[1]
      [] Len(unit) = 2 -> (unit[1] % 32) * 64 + Low(2)
      [] Len(unit) = 3 -> ((unit[1] % 16) * 64 + Low(2)) * 64 + Low(3)
      [] Len(unit) = 4 -> (((unit[1] % 8) * 64 + Low(2)) * 64 + Low(3)) * 64 + Low(4)

\* The checks on the value of a complete sequence.
CodeAdmitted_NoSurrogates(extra, lead, code) ==
    /\ extra = 1 => lead % 32 # 0
    /\ extra = 2 => code >= 2048
    /\ extra = 3 => code >= 65536
    /\ code <= 1114111
CodeAdmitted(extra, lead, code) ==
    /\ extra = 1 => lead % 32 # 0
    /\ extra = 2 => code >= 2048
    /\ extra = 3 => code >= 65536
    /\ code <= 1114111
    /\ code \notin 55296 .. 57343

is_valid_utf8(text) ==
    LET n == Len(text)
        from[i \in 1 .. n + 1] ==
            \/ i = n + 1
            \/ LET extra == Extra(text[i])
                   unit == SubSeq(text, i, i + extra)
               IN /\ extra >= 0
                  /\ i + extra <= n
                  /\ \A k \in 1 .. extra : IsContinuation(unit[k + 1])
                  /\ CodeAdmitted(extra, text[i], Code(unit))
                  /\ from[i + extra + 1]
    IN from[1]

\* encode_string_bounded, and bounded in the plans: a text is cut at a byte.
bounded(text) ==
    IF Len(text) > kMaxReasonBytes THEN SubSeq(text, 1, kMaxReasonBytes) ELSE text

------------------------------------------------------------------------------
(* Writing and reading *)

WriteU32(n) == <<n % 256, (n \div 256) % 256, (n \div 65536) % 256, (n \div 16777216) % 256>>
Prefixed(bytes) == WriteU32(Len(bytes)) \o bytes

Refused == [ok |-> FALSE, value |-> <<>>, offset |-> 0]
Got(v, offset) == [ok |-> TRUE, value |-> v, offset |-> offset]

remaining(data, offset) == Len(data) - offset

take(data, offset, count) ==
    IF count > remaining(data, offset) THEN Refused
    ELSE Got(SubSeq(data, offset + 1, offset + count), offset + count)

\* A u32 as a number.  Those from 2^31 on are above every limit, as is TooLarge.
AsNumber(b) ==
    IF b[4] >= 128 THEN TooLarge
    ELSE b[1] + 256 * b[2] + 65536 * b[3] + 16777216 * b[4]

ReadU32(data, offset) ==
    LET r == take(data, offset, 4)
    IN IF r.ok THEN Got(AsNumber(r.value), r.offset) ELSE Refused

str(data, offset) ==
    LET length == ReadU32(data, offset)
        span == take(data, length.offset, length.value)
    IN IF length.ok /\ length.value <= max_string /\ span.ok /\ is_valid_utf8(span.value)
       THEN span ELSE Refused

require_end(data, offset) == offset = Len(data)

------------------------------------------------------------------------------
(* Well-formed text: table 3-7 of the Unicode standard *)

WellFormedUnit(u) ==
    LET In(k, lo, hi) == u[k] \in lo .. hi
        Follows(k) == In(k, 128, 191)
    IN \/ Len(u) = 1 /\ In(1, 0, 127)
       \/ Len(u) = 2 /\ In(1, 194, 223) /\ Follows(2)
       \/ /\ Len(u) = 3 /\ Follows(3)
          /\ \/ In(1, 224, 224) /\ In(2, 160, 191)
             \/ (In(1, 225, 236) \/ In(1, 238, 239)) /\ Follows(2)
             \/ In(1, 237, 237) /\ In(2, 128, 159)
       \/ /\ Len(u) = 4 /\ Follows(3) /\ Follows(4)
          /\ \/ In(1, 240, 240) /\ In(2, 144, 191)
             \/ In(1, 241, 243) /\ Follows(2)
             \/ In(1, 244, 244) /\ In(2, 128, 143)

WellFormed(t) ==
    LET n == Len(t)
        from[i \in 1 .. n + 1] ==
            \/ i = n + 1
            \/ \E k \in 1 .. 4 : /\ i + k - 1 <= n
                                 /\ WellFormedUnit(SubSeq(t, i, i + k - 1))
                                 /\ from[i + k]
    IN from[1]
=============================================================================
