--------------------------- MODULE ChannelService ---------------------------
(***************************************************************************)
(* What the ownership of a group of connections promises its client: at    *)
(* most one connection serves, it serves until it yields, between two      *)
(* there is a moment when none does, and a connection that retired serves  *)
(* no more.                                                                *)
(***************************************************************************)
CONSTANT Servers

VARIABLES
  serving,  \* the connections whose requests are admitted
  retired   \* the connections that are done

Init == serving = {} /\ retired = {}

Take(c) ==
  /\ serving = {}
  /\ c \notin retired
  /\ serving' = {c}
  /\ UNCHANGED retired

Yield == serving # {} /\ serving' = {} /\ UNCHANGED retired

Retire(c) ==
  /\ c \notin retired
  /\ retired' = retired \cup {c}
  /\ serving' = serving \ {c}

Next == Yield \/ \E c \in Servers : Take(c) \/ Retire(c)

Spec == Init /\ [][Next]_<<serving, retired>>
=============================================================================
