------------------------- MODULE MCChannelOwnership -------------------------
(* ChannelOwnership on a small instance, with a bound on the requests that *)
(* are pending at once in the whole group.  Receive, the only action it    *)
(* holds up, has no fairness, so no liveness is gained from the bound.     *)
EXTENDS ChannelOwnership, FiniteSets

CONSTANT MaxPending \* Bounds the requests queued or in tasks, over all connections.

Pending ==
  LET queued  == {<<c, i>> \in Connections \X (1 .. QueueCapacity + 1) : i <= Len(queue[c])}
      running == {<<c, k>> \in Connections \X Slots : tasks[c][k] # Idle}
  IN  Cardinality(queued) + Cardinality(running)

BoundedSpec == Init /\ [][Next /\ Pending' <= MaxPending]_vars /\ Fairness
=============================================================================
