------------------------------ MODULE MCSession ------------------------------
(* Constants for the model checking of Session. *)
EXTENDS Session, TLC

\* Proposals are told apart by nothing.
Symmetry == Permutations(Proposals)
==============================================================================
