--------------------------- MODULE RemoteSessions ---------------------------
(***************************************************************************)
(* Who is let in with a credential, and how the sessions of one end when   *)
(* it is revoked: the session registry (remote/channels/session.rs), the   *)
(* admissions of the LAN listener and of the cloud channel that share it   *)
(* (lan/listener.rs, webrtc/cloud.rs), and the desktop's operations        *)
(* (src-tauri/src/runtime_gateway/remote_access.rs).                       *)
(*                                                                         *)
(* An admission validates the credential, registers the session, and       *)
(* validates again, as a revocation may have run in between.  The registry *)
(* keeps a group per credential, with a mark that it was cancelled, and    *)
(* forgets the group with its last session.  A desktop operation holds the *)
(* runtime's inner lock while it waits for the sessions it cancelled; the  *)
(* shutdown takes the listener under the same lock and ends the sessions   *)
(* afterwards.  The listener accepts sessions before it is put there.      *)
(***************************************************************************)
EXTENDS CredentialStore

CONSTANTS
  Sessions,     \* connections of clients, each one after another
  Lan,          \* the sessions that come through the LAN listener
  Operators,    \* operations that may run at the same time
  None,         \* no credential, no operator
  MaxSessions,  \* MAX_CONCURRENT_WEBSOCKET_SESSIONS
  MaxRestarts   \* Bounds the restarts of the Host.

Steps  == {"revoked", "listed", "waiting", "deleting", "forgotten"}
Task   == [kind : {"revoke", "delete", "forget"}, step : Steps,
           client : Clients, ids : SUBSET Ids]

ASSUME SessionAssumption ==
  /\ Lan \subseteq Sessions
  /\ None \notin Ids \cup Operators \cup Clients /\ None \notin Task
  /\ MaxSessions \in Nat /\ MaxRestarts \in Nat

VARIABLES
  stage,      \* where each session is in its admission
  peer,       \* the credential it is admitted with
  signalled,  \* a cancellation is in the session's receiver
  cancelled,  \* the groups marked cancelled
  listener,   \* the life of RemoteAccessRuntimeInner.listener
  task,       \* the operation each operator runs
  inner,      \* the operator that holds the runtime's inner lock
  restarts,   \* history: restarts so far
  drained,    \* history: revoked credentials reported disconnected
  ended       \* history: revoked credentials whose sessions have to end

sessions  == <<stage, peer, signalled, cancelled>>
operators == <<task, inner, drained, ended>>
vars      == <<store, sessions, operators, listener, restarts>>

-----------------------------------------------------------------------------
Stages == {"idle", "validated", "registered", "serving"}

\* "starting": accepting, not yet installed; "taken": by the shutdown;
\* "stopped": the sessions were told as well (shutting_down).
Listeners == {"starting", "installed", "taken", "stopped"}

Registered(id) == {s \in Sessions : stage[s] \in {"registered", "serving"} /\ peer[s] = id}
Slots          == UNION {Registered(id) : id \in Ids}

\* The shutdown of the registry takes its groups away.
Group(id)     == IF listener = "stopped" THEN {} ELSE Registered(id)
Members(ids)  == UNION {Group(id) : id \in ids}

TypeOK ==
  /\ StoreTypeOK
  /\ stage \in [Sessions -> Stages]
  /\ peer \in [Sessions -> Ids \cup {None}]
  /\ signalled \in [Sessions -> BOOLEAN]
  /\ cancelled \subseteq {id \in Ids : Group(id) # {}}
  /\ listener \in Listeners
  /\ task \in [Operators -> Task \cup {None}]
  /\ inner \in Operators \cup {None}
  /\ restarts \in 0 .. MaxRestarts
  /\ drained \subseteq Ids
  /\ ended \subseteq Ids
  /\ Cardinality(Slots) <= MaxSessions

SessionsReset ==
  /\ stage' = [s \in Sessions |-> "idle"]
  /\ peer' = [s \in Sessions |-> None]
  /\ signalled' = [s \in Sessions |-> FALSE]
  /\ cancelled' = {}
  /\ listener' = "starting"
  /\ task' = [o \in Operators |-> None]
  /\ inner' = None

Init ==
  /\ StoreInit
  /\ stage = [s \in Sessions |-> "idle"]
  /\ peer = [s \in Sessions |-> None]
  /\ signalled = [s \in Sessions |-> FALSE]
  /\ cancelled = {}
  /\ listener = "starting"
  /\ task = [o \in Operators |-> None]
  /\ inner = None
  /\ restarts = 0 /\ drained = {} /\ ended = {}

-----------------------------------------------------------------------------
(* Sessions.                                                               *)

\* A bearer is validated with a save, a cloud peer's credential is looked
\* up; either may find it unusable.
Check(s, id, usable) ==
  IF s \in Lan
  THEN \/ ValidateBearer(id, usable)
       \/ ~usable /\ ~Live(id) /\ UNCHANGED store
  ELSE usable = Live(id) /\ UNCHANGED store

Moves(s, to, id) ==
  /\ stage' = [stage EXCEPT ![s] = to]
  /\ peer' = [peer EXCEPT ![s] = id]

\* Mutant of Leaves: the mark of an empty group stays.
LeavesMark(s) ==
  /\ Moves(s, "idle", None)
  /\ signalled' = [signalled EXCEPT ![s] = FALSE]
  /\ UNCHANGED cancelled

\* SessionRegistration is dropped: the session leaves its group, and the
\* last one takes the group's mark away.
Leaves(s) ==
  /\ Moves(s, "idle", None)
  /\ signalled' = [signalled EXCEPT ![s] = FALSE]
  /\ cancelled' = IF Group(peer[s]) = {s} THEN cancelled \ {peer[s]} ELSE cancelled

Arrive(s) ==
  /\ stage[s] = "idle"
  /\ \E id \in 1 .. issued, usable \in BOOLEAN :
       /\ Check(s, id, usable)
       /\ IF usable THEN Moves(s, "validated", id) ELSE UNCHANGED <<stage, peer>>
  /\ UNCHANGED <<signalled, cancelled, operators, listener, restarts>>

Registrable(s) ==
  /\ listener # "stopped"
  /\ peer[s] \notin cancelled
  /\ Cardinality(Slots) < MaxSessions

Register(s) ==
  /\ stage[s] = "validated"
  /\ IF Registrable(s) THEN Moves(s, "registered", peer[s]) ELSE Moves(s, "idle", None)
  /\ UNCHANGED <<store, signalled, cancelled, operators, listener, restarts>>

\* Mutant of Revalidate: one validation is taken to be enough.
RevalidateNothing(s) ==
  /\ stage[s] = "registered"
  /\ Moves(s, "serving", peer[s])
  /\ UNCHANGED <<store, signalled, cancelled, operators, listener, restarts>>

Revalidate(s) ==
  /\ stage[s] = "registered"
  /\ \E usable \in BOOLEAN :
       /\ Check(s, peer[s], usable)
       /\ IF usable THEN Moves(s, "serving", peer[s]) /\ UNCHANGED <<signalled, cancelled>>
                    ELSE Leaves(s)
  /\ UNCHANGED <<operators, listener, restarts>>

\* The upgrade fails or the client goes away.
Disconnect(s) ==
  /\ stage[s] = "serving"
  /\ Leaves(s)
  /\ UNCHANGED <<store, operators, listener, restarts>>

\* Every wait of the session loop watches the cancellation as well.
Obey(s) ==
  /\ stage[s] = "serving" /\ signalled[s]
  /\ Leaves(s)
  /\ UNCHANGED <<store, operators, listener, restarts>>

-----------------------------------------------------------------------------
(* Operations.                                                             *)

Does(o, kind, step, client, ids) ==
  task' = [task EXCEPT ![o] = [kind |-> kind, step |-> step, client |-> client, ids |-> ids]]

Advances(o, step) == task' = [task EXCEPT ![o].step = step]
Ends(o)           == task' = [task EXCEPT ![o] = None]

\* Mutant of Cancel: the group is marked, its sessions hear nothing.
CancelSilently(ids) ==
  /\ cancelled' = cancelled \cup {id \in ids : Group(id) # {}}
  /\ UNCHANGED <<stage, peer, signalled>>

\* cancel_credential: the group is marked and told; no group, no mark.
Cancel(ids) ==
  /\ cancelled' = cancelled \cup {id \in ids : Group(id) # {}}
  /\ signalled' = [s \in Sessions |-> signalled[s] \/ s \in Members(ids)]
  /\ UNCHANGED <<stage, peer>>

\* revoke_credential: the client of a listed record, and its live records.
BeginRevoke(o) ==
  /\ task[o] = None
  /\ \E client \in Clients, saved \in BOOLEAN :
       /\ RecordsOf(client) # {}
       /\ RevokeClient(client, saved)
       /\ IF saved THEN Does(o, "revoke", "revoked", client, {}) ELSE UNCHANGED task
  /\ UNCHANGED <<sessions, inner, drained, ended, listener, restarts>>

\* The records are listed anew, among them any granted since.
RevokeLists(o) ==
  /\ task[o] # None /\ task[o].step = "revoked"
  /\ Does(o, "revoke", "listed", task[o].client, RecordsOf(task[o].client))
  /\ UNCHANGED <<store, sessions, inner, drained, ended, listener, restarts>>

\* delete_revoked_client: all records of the client, if none is live.
BeginDelete(o) ==
  /\ task[o] = None
  /\ \E id \in DOMAIN credentials :
       /\ Deletable(id)
       /\ Does(o, "delete", "listed", credentials[id].client, RecordsOf(credentials[id].client))
  /\ UNCHANGED <<store, sessions, inner, drained, ended, listener, restarts>>

\* The inner lock is taken; with a listener in it the groups are cancelled.
Disconnects(o) ==
  /\ task[o] # None /\ task[o].step = "listed"
  /\ inner = None
  /\ IF listener = "installed"
     THEN /\ inner' = o
          /\ Advances(o, "waiting")
          /\ Cancel(task[o].ids)
          /\ ended' = ended \cup {id \in task[o].ids : ~Live(id)}
     ELSE /\ IF task[o].kind = "delete" THEN inner' = o /\ Advances(o, "deleting")
                                        ELSE inner' = inner /\ Ends(o)
          /\ UNCHANGED <<sessions, ended>>
  /\ UNCHANGED <<store, drained, listener, restarts>>

\* wait_credentials_empty finds no session left.
Drains(o) ==
  /\ task[o] # None /\ task[o].step = "waiting"
  /\ Members(task[o].ids) = {}
  /\ drained' = drained \cup {id \in task[o].ids : ~Live(id)}
  /\ IF task[o].kind = "delete" THEN Advances(o, "deleting") /\ UNCHANGED inner
                                ELSE Ends(o) /\ inner' = None
  /\ UNCHANGED <<store, sessions, ended, listener, restarts>>

\* CONNECTION_CLOSE_TIMEOUT passes first: the operation is an error.
TimesOut(o) ==
  /\ task[o] # None /\ task[o].step = "waiting"
  /\ Members(task[o].ids) # {}
  /\ Ends(o) /\ inner' = None
  /\ UNCHANGED <<store, sessions, drained, ended, listener, restarts>>

\* The store looks again before it deletes.
Deletes(o) ==
  /\ task[o] # None /\ task[o].step = "deleting"
  /\ LET target == CHOOSE id \in task[o].ids : TRUE
     IN  IF Deletable(target) THEN \E saved \in BOOLEAN : DeleteRevokedClient(target, saved)
                              ELSE UNCHANGED store
  /\ Ends(o) /\ inner' = None
  /\ UNCHANGED <<sessions, drained, ended, listener, restarts>>

\* delete_current_credential: a client revokes its own bearer.
BeginForget(o) ==
  /\ task[o] = None
  /\ \E id \in DOMAIN credentials, saved \in BOOLEAN :
       /\ RevokeCurrent(id, saved)
       /\ IF saved
          THEN /\ Does(o, "forget", "forgotten", credentials[id].client, {id})
               /\ ended' = ended \cup {id}
          ELSE UNCHANGED <<task, ended>>
  /\ UNCHANGED <<sessions, inner, drained, listener, restarts>>

ForgetCancels(o) ==
  /\ task[o] # None /\ task[o].step = "forgotten"
  /\ Cancel(task[o].ids)
  /\ Ends(o)
  /\ UNCHANGED <<store, inner, drained, ended, listener, restarts>>

-----------------------------------------------------------------------------
(* The runtime.                                                            *)

\* retry: the listener that already serves is put where operations see it.
Install ==
  /\ listener = "starting" /\ inner = None
  /\ listener' = "installed"
  /\ UNCHANGED <<store, sessions, operators, restarts>>

\* shutdown_once takes it out again ...
Take ==
  /\ listener = "installed" /\ inner = None
  /\ listener' = "taken"
  /\ UNCHANGED <<store, sessions, operators, restarts>>

\* Mutant of Shutdown: the groups are dropped, their sessions hear nothing.
ShutdownSilently ==
  /\ listener = "taken"
  /\ listener' = "stopped"
  /\ cancelled' = {}
  /\ UNCHANGED <<store, stage, peer, signalled, operators, restarts>>

\* ... and the registry's shutdown tells every session.
Shutdown ==
  /\ listener = "taken"
  /\ listener' = "stopped"
  /\ signalled' = [s \in Sessions |-> signalled[s] \/ s \in Slots]
  /\ cancelled' = {}
  /\ UNCHANGED <<store, stage, peer, operators, restarts>>

\* The Host ends, at any moment, and starts again.
Restart ==
  /\ restarts < MaxRestarts
  /\ restarts' = restarts + 1
  /\ StoreRestarts
  /\ SessionsReset
  /\ UNCHANGED <<drained, ended>>

-----------------------------------------------------------------------------
\* A pairing ends well: see Pairing.
Grant ==
  /\ \E client \in Clients, saved \in BOOLEAN : Issue(client, saved)
  /\ UNCHANGED <<sessions, operators, listener, restarts>>

SessionStep(s) == Arrive(s) \/ Register(s) \/ Revalidate(s) \/ Disconnect(s) \/ Obey(s)

Continues(o) ==
  RevokeLists(o) \/ Drains(o) \/ TimesOut(o) \/ Deletes(o) \/ ForgetCancels(o)

OperatorStep(o) ==
  BeginRevoke(o) \/ BeginDelete(o) \/ BeginForget(o) \/ Disconnects(o) \/ Continues(o)

Next ==
  \/ \E s \in Sessions : SessionStep(s)
  \/ \E o \in Operators : OperatorStep(o)
  \/ Install \/ Take \/ Shutdown \/ Restart \/ Grant

(* Cancelled sessions run their loop to its end, and operations run in     *)
(* commands and handlers that nothing drops.                               *)
Fairness ==
  /\ \A s \in Sessions : WF_vars(Obey(s))
  /\ \A o \in Operators : WF_vars(Continues(o))

Spec == Init /\ [][Next]_vars /\ Fairness

-----------------------------------------------------------------------------
(* An operation that reported its sessions gone told the truth             *)
(* (cancel_and_wait_credentials, revoke_credential, delete_revoked_client):*)
(* no session serves with a credential that is revoked and was reported    *)
(* disconnected, nor will one that was on its way in.                      *)
DisconnectIsTrue ==
  \A s \in Sessions :
    stage[s] = "serving" /\ peer[s] \in drained => Live(peer[s])

\* A client gave the credential up and its sessions are about to be told.
BeingForgotten(id) ==
  \E o \in Operators : task[o] # None /\ task[o].step = "forgotten" /\ id \in task[o].ids

(* No session is overlooked (cancel_credential, shutdown and the second    *)
(* validation of the admissions): one that is served with a credential     *)
(* given up, or found revoked with the listener in hand, has been told to  *)
(* end or is told by the handler that is still on its way, in whatever     *)
(* order admission, revocation and the registry's shutdown met.            *)
EndedAreTold ==
  \A s \in Sessions :
    stage[s] = "serving" /\ peer[s] \in ended => signalled[s] \/ BeingForgotten(peer[s])

(* Revoked sessions end (SessionRegistry::cancel_credential, the selects   *)
(* of the session loop): once a client gave its credential up, or an       *)
(* operation with the listener in hand found it revoked, nothing goes on   *)
(* being served with it, not even if the wait for it timed out.            *)
RevokedSessionsEnd ==
  \A s \in Sessions, id \in Ids :
    (stage[s] = "serving" /\ peer[s] = id /\ id \in ended) ~> ~(stage[s] = "serving" /\ peer[s] = id)

(* Life of a credential (CredentialLife): refused saves, crashes and races *)
(* only ever move it forward, and sessions begin with live ones.           *)
Life == INSTANCE CredentialLife WITH
  state <- [id \in Ids |->
              IF id \notin stored THEN "unissued"
              ELSE IF id \notin DOMAIN credentials THEN "gone"
              ELSE IF credentials[id].revoked THEN "revoked" ELSE "live"],
  serving <- [s \in Sessions |-> IF stage[s] = "serving" THEN peer[s] ELSE None]

LifeSpec == Life!Spec
=============================================================================
