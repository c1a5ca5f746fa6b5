--------------------------- MODULE CredentialLife ---------------------------
(***************************************************************************)
(* What a credential promises, whatever the Host does with files, locks    *)
(* and sockets: it is granted, then revoked, then forgotten, never back,   *)
(* not even by a restart; and a session begins to serve only with a        *)
(* credential that is live at that moment.                                 *)
(***************************************************************************)
CONSTANTS Ids, Sessions, None

VARIABLES
  state,   \* where each credential is in its life
  serving  \* the credential each session serves with, or None

vars == <<state, serving>>

States == {"unissued", "live", "revoked", "gone"}

Later == [unissued |-> {"unissued", "live"}, live |-> {"live", "revoked"},
          revoked |-> {"revoked", "gone"}, gone |-> {"gone"}]

Init ==
  /\ state = [id \in Ids |-> "unissued"]
  /\ serving = [s \in Sessions |-> None]

\* Grants, revocations and deletions.
Advance ==
  /\ state' \in {next \in [Ids -> States] : \A id \in Ids : next[id] \in Later[state[id]]}
  /\ UNCHANGED serving

Begin(s) ==
  \E id \in Ids :
    /\ state[id] = "live"
    /\ serving[s] = None
    /\ serving' = [serving EXCEPT ![s] = id]
    /\ UNCHANGED state

End(s) ==
  /\ serving' = [serving EXCEPT ![s] = None]
  /\ UNCHANGED state

\* A restart ends every session, and may be when a save takes effect.
Restart ==
  /\ state' \in {next \in [Ids -> States] : \A id \in Ids : next[id] \in Later[state[id]]}
  /\ serving' = [s \in Sessions |-> None]

Next == Advance \/ Restart \/ (\E s \in Sessions : Begin(s) \/ End(s))

Spec == Init /\ [][Next]_vars
=============================================================================
