------------------------------ MODULE MCLedger ------------------------------
(***************************************************************************)
(* The instances of the authority, with the ledger of every state.         *)
(***************************************************************************)
EXTENDS MCAuthority, Ledger
=============================================================================
