--------------------------- MODULE InvitationLife ---------------------------
(***************************************************************************)
(* What a pairing window promises, whatever requests, retries, dialogs and *)
(* deadlines meet in it: it is opened once and is over once, one window is *)
(* open at a time, and its secret gives a credential, a new one, at the    *)
(* instant that it is over and never otherwise.                            *)
(***************************************************************************)
CONSTANTS Windows, Ids

VARIABLES
  open,     \* the window that is open, if any
  over,     \* the windows that were
  outcome,  \* what the desktop can be told of each window
  given     \* the credentials that each window's secret gave

vars == <<open, over, outcome, given>>

Init ==
  /\ open = {} /\ over = {}
  /\ outcome = [w \in Windows |-> "none"]
  /\ given = [w \in Windows |-> {}]

\* One that was open until now has expired.
Open(w) ==
  /\ w \notin open \cup over
  /\ open' = {w}
  /\ over' = over \cup open
  /\ outcome' = [v \in Windows |-> IF v \in open THEN "expired" ELSE outcome[v]]
  /\ UNCHANGED given

Ends(w, how) ==
  /\ w \in open
  /\ open' = {}
  /\ over' = over \cup {w}
  /\ outcome' = [outcome EXCEPT ![w] = how]

Give(w, id) ==
  /\ Ends(w, "succeeded")
  /\ \A v \in Windows : id \notin given[v]
  /\ given' = [given EXCEPT ![w] = {id}]

\* Nobody used the secret: the client may have been let in without it.
Close(w, how) == Ends(w, how) /\ UNCHANGED given

Forget(w) ==
  /\ w \notin open
  /\ outcome' = [outcome EXCEPT ![w] = "none"]
  /\ UNCHANGED <<open, over, given>>

Restart ==
  /\ open' = {}
  /\ over' = over \cup open
  /\ outcome' = [w \in Windows |-> "none"]
  /\ UNCHANGED given

Next ==
  \/ Restart
  \/ \E w \in Windows :
       \/ Open(w) \/ Forget(w)
       \/ \E how \in {"cancelled", "expired", "succeeded"} : Close(w, how)
       \/ \E id \in Ids : Give(w, id)

Spec == Init /\ [][Next]_vars
=============================================================================
