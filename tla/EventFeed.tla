------------------------------ MODULE EventFeed ------------------------------
(***************************************************************************)
(* What the Gateway promises the subscribers of its events: a subscription *)
(* delivers the events after its cursor one by one, none left out and none *)
(* twice, until it ends; and it never runs ahead of what was published.    *)
(***************************************************************************)
EXTENDS Naturals

CONSTANTS
  Subscribers,
  Off          \* no subscription

VARIABLES
  length,  \* how many events were published
  at       \* the last event each subscription delivered

Init == length = 0 /\ at = [c \in Subscribers |-> Off]

Publish == length' = length + 1 /\ UNCHANGED at

Open(c) ==
  /\ at[c] = Off
  /\ \E n \in 0 .. length : at' = [at EXCEPT ![c] = n]
  /\ UNCHANGED length

Deliver(c) ==
  /\ at[c] # Off /\ at[c] < length
  /\ at' = [at EXCEPT ![c] = @ + 1]
  /\ UNCHANGED length

End(c) ==
  /\ at[c] # Off
  /\ at' = [at EXCEPT ![c] = Off]
  /\ UNCHANGED length

Next == Publish \/ \E c \in Subscribers : Open(c) \/ Deliver(c) \/ End(c)

Spec == Init /\ [][Next]_<<length, at>>
=============================================================================
