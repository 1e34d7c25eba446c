-------------------------------- MODULE Wire --------------------------------
(***************************************************************************)
(* The canonical encoding (wire.cpp): what a Writer makes of a record and  *)
(* what a Reader makes of bytes.                                           *)
(*                                                                         *)
(* An encoder and a decoder are each a sequence of fields, in the order in *)
(* which the code writes or reads them; a field has a name, a kind and,    *)
(* for some kinds, what is admitted.  A record is a function from names to *)
(* values.  A fixed-width integer, an identity and a digest are            *)
(* represented by their bytes, in the little-endian order of the encoding; *)
(* lengths, counts and ordinals are numbers, because the code compares     *)
(* them.                                                                   *)
(* Definitions named X_... are faulty variants of X.                       *)
(***************************************************************************)
EXTENDS Text, SequencesExt, TLC

CONSTANT max_container    \* WireLimits

ASSUME WireAssumption == max_container \in Nat

------------------------------------------------------------------------------
(* Fields *)

U16(name) == <<name, "u16">>
U32(name) == <<name, "u32">>
U64(name) == <<name, "u64">>
Id(name) == <<name, "id128">>
Dig(name) == <<name, "digest">>
Bool(name) == <<name, "boolean">>
Str(name) == <<name, "str">>
Cut(name) == <<name, "cut">>                       \* written with encode_string_bounded
Bytes(name) == <<name, "bytes">>
Ord(name, admitted) == <<name, "ordinal", admitted>>      \* an enumeration in a u8
Ord16(name, admitted) == <<name, "ordinal16", admitted>>  \* one in a u16
Num(name, most) == <<name, "number", most>>        \* a u32 that is compared with a bound
AtMost(name, other) == <<name, "atmost", other>>   \* a u64 compared with an earlier one
List(name, fields) == <<name, "list", fields>>     \* container_count, then the elements
Counted(name, fields) == <<name, "counted", fields>> \* a count with a bound of its own
Nested(name, fields) == <<name, "nested", fields>> \* a byte field that is decoded in turn

Fixed == {"u16", "u32", "u64", "atmost", "id128", "digest"}
Width(kind) ==
    CASE kind = "u16" -> 2
      [] kind = "u32" -> 4
      [] kind \in {"u64", "atmost"} -> 8
      [] kind = "id128" -> 16
      [] kind = "digest" -> 32

------------------------------------------------------------------------------
(* Writer *)

WriteU16(n) == <<n % 256, n \div 256>>

RECURSIVE Encode(_, _)
Encode(fields, record) ==
    LET Write(buffer, f) ==
            LET v == record[f[1]]
            IN buffer \o
               CASE f[2] \in Fixed -> v
                 [] f[2] = "boolean" -> <<IF v THEN 1 ELSE 0>>
                 [] f[2] = "ordinal" -> <<v>>
                 [] f[2] = "ordinal16" -> WriteU16(v)
                 [] f[2] = "number" -> WriteU32(v)
                 [] f[2] \in {"str", "bytes"} -> Prefixed(v)
                 [] f[2] = "cut" -> Prefixed(bounded(v))
                 [] f[2] = "nested" -> Prefixed(Encode(f[3], v))
                 [] f[2] \in {"list", "counted"} ->
                        WriteU32(Len(v)) \o FlattenSeq([i \in DOMAIN v |-> Encode(f[3], v[i])])
    IN FoldLeft(Write, <<>>, fields)

------------------------------------------------------------------------------
(* Reader: the data and the offset_ in it *)

boolean_AnyByte(data, offset) ==
    LET r == take(data, offset, 1)
    IN IF r.ok THEN Got(r.value[1] # 0, r.offset) ELSE Refused
boolean(data, offset) ==
    LET r == take(data, offset, 1)
    IN IF r.ok /\ r.value[1] <= 1 THEN Got(r.value[1] = 1, r.offset) ELSE Refused

\* The limit on a byte field is that on the frame or record the data came in.
ReadBytes(data, offset) ==
    LET length == ReadU32(data, offset)
    IN IF length.ok THEN take(data, length.offset, length.value) ELSE Refused

container_count(data, offset) ==
    LET count == ReadU32(data, offset)
    IN IF /\ count.ok /\ count.value <= max_container
          /\ count.value <= remaining(data, count.offset) + 1
       THEN count ELSE Refused

\* a <= b, as the integers that the bytes represent.
NotAbove(a, b) ==
    \/ a = b
    \/ \E k \in DOMAIN a : a[k] < b[k] /\ \A m \in k + 1 .. Len(a) : a[m] = b[m]

\* The record that the fields read from data describe, starting at offset; the
\* decoder returns at the first field that it refuses.
RECURSIVE Decode(_, _, _)
Decode(fields, data, offset) ==
    LET Elements(element, count) ==
            FoldLeft(LAMBDA r, i : LET e == Decode(element, data, r.offset)
                                   IN IF r.ok /\ e.ok THEN Got(Append(r.value, e.value), e.offset)
                                      ELSE Refused,
                     Got(<<>>, count.offset), [i \in 1 .. count.value |-> i])
        Read(out, at, f) ==
            LET fixed == take(data, at, Width(f[2]))
                byte == take(data, at, 1)
                word == take(data, at, 2)
                number == ReadU32(data, at)
                count == container_count(data, at)
                span == ReadBytes(data, at)
                inner == Decode(f[3], span.value, 0)
            IN CASE f[2] = "atmost" -> IF fixed.ok /\ NotAbove(fixed.value, out[f[3]])
                                       THEN fixed ELSE Refused
                 [] f[2] \in Fixed -> fixed
                 [] f[2] = "boolean" -> boolean(data, at)
                 [] f[2] = "ordinal" -> IF byte.ok /\ byte.value[1] \in f[3]
                                        THEN Got(byte.value[1], byte.offset) ELSE Refused
                 [] f[2] = "ordinal16" -> IF word.ok /\ AsNumber(word.value \o <<0, 0>>) \in f[3]
                                          THEN Got(AsNumber(word.value \o <<0, 0>>), word.offset)
                                          ELSE Refused
                 [] f[2] = "number" -> IF number.ok /\ number.value <= f[3] THEN number ELSE Refused
                 [] f[2] \in {"str", "cut"} -> str(data, at)
                 [] f[2] = "bytes" -> span
                 [] f[2] = "nested" -> IF span.ok /\ inner.ok /\ require_end(span.value, inner.offset)
                                       THEN Got(inner.value, span.offset) ELSE Refused
                 [] f[2] = "list" -> IF count.ok THEN Elements(f[3], count) ELSE Refused
                 [] f[2] = "counted" -> IF number.ok /\ number.value <= max_container
                                        THEN Elements(f[3], number) ELSE Refused
        Next(r, f) ==
            LET field == Read(r.value, r.offset, f)
            IN IF r.ok /\ field.ok THEN Got((f[1] :> field.value) @@ r.value, field.offset)
               ELSE Refused
    IN FoldLeft(Next, Got(<<>>, offset), fields)
=============================================================================
