----------------------------- MODULE MCExchange -----------------------------
(* Constants for the model checking of Exchange. *)
EXTENDS Exchange

All == DOMAIN Written

\* "" and "abcd", which is as long as a string may be and longer than a reason.
Ascii == {<<>>, <<97, 98, 99, 100>>}
\* "ab" and a character of two bytes, and one of two bytes and "b".
TwoBytes == {<<97, 98, 195, 169>>, <<195, 169, 98>>}
=============================================================================
