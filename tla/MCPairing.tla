----------------------------- MODULE MCPairing ------------------------------
(* Pairing on a small instance. *)
EXTENDS Pairing
=============================================================================
