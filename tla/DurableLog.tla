------------------------------ MODULE DurableLog ------------------------------
(***************************************************************************)
(* What the daemon relies on the store for: a log in which at most one     *)
(* intent is open, an intent gets at most one outcome, and an outcome is   *)
(* never lost or changed, whatever crashes and compactions happen.         *)
(***************************************************************************)
CONSTANTS Intents, NoIntent

VARIABLES completed,   \* set of <<intent, outcome>>
          open         \* the intent without an outcome, or NoIntent

Init == completed = {} /\ open = NoIntent

Begin ==
    /\ open = NoIntent
    /\ open' \in {i \in Intents : \A o \in {"committed", "aborted"} : <<i, o>> \notin completed}
    /\ UNCHANGED completed

Complete ==
    /\ open # NoIntent
    /\ \E o \in {"committed", "aborted"} : completed' = completed \cup {<<open, o>>}
    /\ open' = NoIntent

Next == Begin \/ Complete

Spec == Init /\ [][Next]_<<completed, open>>
==============================================================================
