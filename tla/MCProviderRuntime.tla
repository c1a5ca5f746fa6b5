------------------------- MODULE MCProviderRuntime --------------------------
(* ProviderRuntime on a small instance: its turns are those of one instance. *)
EXTENDS ProviderRuntime
CONSTANT i1
OwnerOfTurn == [t \in Turns |-> i1]
=============================================================================
