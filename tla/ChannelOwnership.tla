-------------------------- MODULE ChannelOwnership --------------------------
(***************************************************************************)
(* Which of a remote client's connections may send business requests       *)
(* (codepet-host/src/remote/channels/ownership.rs), together with the      *)
(* channel loop that drives it (channels/session.rs) and the presence it   *)
(* publishes (remote/connections.rs).                                      *)
(*                                                                         *)
(* A client that moves from one transport to another opens a connection    *)
(* per transport in one logical session: they form a group.  The group is  *)
(* changed under the mutex of Ownership; whether a connection is active is *)
(* an atomic flag that the request path reads without that mutex.  So an   *)
(* activation is two steps here: the old flag falls, then the new one      *)
(* rises; and so is the end of a lease: its flag falls, then it leaves.    *)
(*                                                                         *)
(* A request is looked at twice, as it is queued and as its task starts,   *)
(* and neither look is under the mutex; the task calls the handler in a    *)
(* step of its own, with no lock held since the second look.               *)
(*                                                                         *)
(* The module is about one group: groups share nothing but the mutex.      *)
(***************************************************************************)
EXTENDS Naturals, Sequences

CONSTANTS
  Connections,   \* the connections ever opened in the group
  SwitchIds,     \* the identifiers clients give their switches
  None,          \* Option::None
  QueueCapacity, \* REQUEST_QUEUE_CAPACITY
  MaxConcurrent, \* MAX_CONCURRENT_REQUESTS_PER_SESSION
  MaxCommits     \* Bounds the switches that commit.

ASSUME NoneAssumption     == None \notin Connections /\ None \notin SwitchIds
ASSUME CapacityAssumption ==
  QueueCapacity \in Nat /\ MaxConcurrent \in Nat /\ MaxCommits \in Nat

VARIABLES
  pc,        \* where the channel loop of each connection is
  args,      \* the switch each connection is committing
  mutex,     \* the connection that holds Ownership.groups, across two steps
  members,   \* Group.connections
  active,    \* Group.active
  switchId,  \* Group.switch_id
  flag,      \* OwnershipLease.active
  queue,     \* the requests admitted and not yet taken, by the ownership they were admitted in
  tasks,     \* the tasks of run_gateway_requests, one request each
  entries,   \* RemoteConnections.connections
  snapshot,  \* the connections in the published ClientConnectionsSnapshot
  owners     \* history: the connections that came to own the group, in order

group    == <<members, active, switchId>>
presence == <<entries, snapshot>>
requests == <<queue, tasks>>
vars     == <<pc, args, mutex, group, flag, requests, presence, owners>>

-----------------------------------------------------------------------------
Stages == {"new", "prepared", "open", "commit", "refresh", "closing", "dropping", "gone"}

\* The stages in which a connection holds an OwnershipLease.
Leased(c) == pc[c] \in Stages \ {"new", "gone"}

\* The channel loop has ended and told the tasks of the connection to stop.
Stopped(c) == pc[c] \in {"closing", "dropping", "gone"}

Slots == 1 .. MaxConcurrent

\* A request's task: spawned, or past its look at the flag (accepted) and about to call
\* the handler.  That it keeps its slot for as long as the handler or the answer takes
\* is not modelled: nothing says when the next request is taken.
Task == [stage    : {"idle", "spawned", "accepted"},
         admitted : 0 .. MaxCommits,
         accepted : 0 .. MaxCommits]

Idle == [stage |-> "idle", admitted |-> 0, accepted |-> 0]

TypeOK ==
  /\ pc \in [Connections -> Stages]
  /\ args \in [Connections -> SwitchIds \cup {None}]
  /\ mutex \in Connections \cup {None}
  /\ members \subseteq Connections
  /\ active \in Connections \cup {None}
  /\ switchId \in SwitchIds \cup {None}
  /\ flag \in [Connections -> BOOLEAN]
  /\ queue \in [Connections -> Seq(0 .. MaxCommits)]
  /\ \A c \in Connections : Len(queue[c]) <= QueueCapacity
  /\ tasks \in [Connections -> [Slots -> Task]]
  /\ entries \subseteq Connections
  /\ snapshot \subseteq Connections
  /\ owners \in Seq(Connections)
  /\ Len(owners) <= MaxCommits

Init ==
  /\ pc = [c \in Connections |-> "new"]
  /\ args = [c \in Connections |-> None]
  /\ mutex = None
  /\ members = {} /\ active = None /\ switchId = None
  /\ flag = [c \in Connections |-> FALSE]
  /\ queue = [c \in Connections |-> <<>>]
  /\ tasks = [c \in Connections |-> [k \in Slots |-> Idle]]
  /\ entries = {} /\ snapshot = {}
  /\ owners = <<>>

-----------------------------------------------------------------------------
\* RemoteConnections::publish: of the registered connections, those visible now.
Published(registered) == {c \in registered : flag[c]}

\* The prepare control frame: the connection joins the group, not active.
Prepare(c) ==
  /\ pc[c] = "new"
  /\ mutex = None
  /\ pc' = [pc EXCEPT ![c] = "prepared"]
  /\ members' = members \cup {c}
  /\ UNCHANGED <<args, mutex, active, switchId, flag, requests, presence, owners>>

\* The handshake succeeds: the connection is registered, its flag its visibility.
Handshake(c) ==
  /\ pc[c] = "prepared"
  /\ pc' = [pc EXCEPT ![c] = "open"]
  /\ entries' = entries \cup {c}
  /\ snapshot' = Published(entries')
  /\ UNCHANGED <<args, mutex, group, flag, requests, owners>>

\* OwnershipLease::activate answers without a switch: the last switch again, or the
\* expected owner is not the owner.
ActivateUnchanged(c, expected, id) ==
  /\ pc[c] = "open"
  /\ mutex = None
  /\ id = switchId \/ active # expected
  /\ pc' = [pc EXCEPT ![c] = "refresh"]
  /\ UNCHANGED <<args, mutex, group, flag, requests, presence, owners>>

\* Mutant of ActivateFences: the old owner is not fenced.
ActivateForgetsOld(c, expected, id) ==
  /\ pc[c] = "open"
  /\ mutex = None
  /\ Len(owners) < MaxCommits
  /\ id # switchId /\ active = expected
  /\ mutex' = c
  /\ args' = [args EXCEPT ![c] = id]
  /\ pc' = [pc EXCEPT ![c] = "commit"]
  /\ UNCHANGED <<group, flag, requests, presence, owners>>

\* OwnershipLease::activate finds the expected owner: its flag falls.
ActivateFences(c, expected, id) ==
  /\ pc[c] = "open"
  /\ mutex = None
  /\ Len(owners) < MaxCommits
  /\ id # switchId /\ active = expected
  /\ mutex' = c
  /\ args' = [args EXCEPT ![c] = id]
  /\ flag' = [d \in Connections |-> flag[d] /\ ~(d = active /\ d \in members)]
  /\ pc' = [pc EXCEPT ![c] = "commit"]
  /\ UNCHANGED <<group, requests, presence, owners>>

\* Mutant of ActivateCommits: the presence is not refreshed.
ActivateUnpublished(c) ==
  /\ pc[c] = "commit"
  /\ active' = c /\ switchId' = args[c]
  /\ flag' = [flag EXCEPT ![c] = TRUE]
  /\ mutex' = None /\ args' = [args EXCEPT ![c] = None]
  /\ pc' = [pc EXCEPT ![c] = "open"]
  /\ owners' = Append(owners, c)
  /\ UNCHANGED <<members, requests, presence>>

\* ... and then the switch is recorded and the new owner's flag rises.
ActivateCommits(c) ==
  /\ pc[c] = "commit"
  /\ active' = c /\ switchId' = args[c]
  /\ flag' = [flag EXCEPT ![c] = TRUE]
  /\ mutex' = None /\ args' = [args EXCEPT ![c] = None]
  /\ pc' = [pc EXCEPT ![c] = "refresh"]
  /\ owners' = Append(owners, c)
  /\ UNCHANGED <<members, requests, presence>>

\* RemoteConnections::refresh, after every activate.
Refresh(c) ==
  /\ pc[c] = "refresh"
  /\ pc' = [pc EXCEPT ![c] = "open"]
  /\ snapshot' = Published(entries)
  /\ UNCHANGED <<args, mutex, group, flag, requests, entries, owners>>

\* Mutant of Receive: the queue has no bound.
ReceiveUnbounded(c) ==
  /\ pc[c] = "open"
  /\ flag[c]
  /\ queue' = [queue EXCEPT ![c] = Append(@, Len(owners))]
  /\ UNCHANGED <<pc, args, mutex, group, flag, tasks, presence, owners>>

\* A business request arrives: refused unless the connection is active, else queued.
\* Between the two only the flag can change, or room be made, which queueing it now
\* does not tell apart.  When the queue is full the channel loop ends instead (Close).
Receive(c) ==
  /\ pc[c] = "open"
  /\ flag[c]
  /\ Len(queue[c]) < QueueCapacity
  /\ queue' = [queue EXCEPT ![c] = Append(@, Len(owners))]
  /\ UNCHANGED <<pc, args, mutex, group, flag, tasks, presence, owners>>

\* run_gateway_requests takes a request and spawns its task; the stop is looked for first.
Spawn(c, k) ==
  /\ ~Stopped(c)
  /\ queue[c] # <<>>
  /\ tasks[c][k] = Idle
  /\ queue' = [queue EXCEPT ![c] = Tail(@)]
  /\ tasks' = [tasks EXCEPT ![c][k] =
                 [stage |-> "spawned", admitted |-> Head(queue[c]), accepted |-> 0]]
  /\ UNCHANGED <<pc, args, mutex, group, flag, presence, owners>>

\* The task finds its connection inactive and answers with an error.
Refuse(c, k) ==
  /\ tasks[c][k].stage = "spawned"
  /\ ~flag[c]
  /\ tasks' = [tasks EXCEPT ![c][k] = Idle]
  /\ UNCHANGED <<pc, args, mutex, group, flag, queue, presence, owners>>

\* Mutant of Accept: the flag was looked at when the request arrived.
AcceptUnchecked(c, k) ==
  /\ ~Stopped(c)
  /\ tasks[c][k].stage = "spawned"
  /\ tasks' = [tasks EXCEPT ![c][k] =
                 [stage |-> "accepted", admitted |-> @.admitted, accepted |-> Len(owners)]]
  /\ UNCHANGED <<pc, args, mutex, group, flag, queue, presence, owners>>

\* The task finds its connection active, the stop not raised yet: a task that comes later
\* than the stop calls nothing, whatever the flag.
Accept(c, k) ==
  /\ ~Stopped(c)
  /\ tasks[c][k].stage = "spawned"
  /\ flag[c]
  /\ tasks' = [tasks EXCEPT ![c][k] =
                 [stage |-> "accepted", admitted |-> @.admitted, accepted |-> Len(owners)]]
  /\ UNCHANGED <<pc, args, mutex, group, flag, queue, presence, owners>>

\* It calls dispatch_for_caller_scope: whatever became of the flag since, ...
Call(c, k) ==
  /\ tasks[c][k].stage = "accepted"
  /\ tasks' = [tasks EXCEPT ![c][k] = Idle]
  /\ UNCHANGED <<pc, args, mutex, group, flag, queue, presence, owners>>

\* ... or finds the stop that is looked for first.
Stop(c, k) ==
  /\ Stopped(c)
  /\ tasks[c][k].stage = "accepted"
  /\ tasks' = [tasks EXCEPT ![c][k] = Idle]
  /\ UNCHANGED <<pc, args, mutex, group, flag, queue, presence, owners>>

\* The channel loop ends, for any of its reasons: the presence goes first.
Close(c) ==
  /\ pc[c] \in {"prepared", "open"}
  /\ pc' = [pc EXCEPT ![c] = "closing"]
  /\ entries' = entries \ {c}
  /\ snapshot' = IF c \in entries THEN Published(entries') ELSE snapshot
  /\ UNCHANGED <<args, mutex, group, flag, requests, owners>>

\* Mutant of LeaseFalls: the flag of a dropped lease stays up.
LeaseStaysUp(c) ==
  /\ pc[c] = "closing"
  /\ \A k \in Slots : tasks[c][k].stage # "accepted"
  /\ pc' = [pc EXCEPT ![c] = "dropping"]
  /\ queue' = [queue EXCEPT ![c] = <<>>]
  /\ tasks' = [tasks EXCEPT ![c] = [k \in Slots |-> Idle]]
  /\ UNCHANGED <<args, mutex, group, flag, presence, owners>>

\* The dispatcher is joined, with its tasks aborted, and the lease dropped: its flag
\* falls at once, ...  A task between its look at the flag and the handler does not await
\* there, so it is not aborted: it is taken to get there within the deadline.  A handler
\* left behind at the deadline is one that was called before.
LeaseFalls(c) ==
  /\ pc[c] = "closing"
  /\ \A k \in Slots : tasks[c][k].stage # "accepted"
  /\ pc' = [pc EXCEPT ![c] = "dropping"]
  /\ queue' = [queue EXCEPT ![c] = <<>>]
  /\ tasks' = [tasks EXCEPT ![c] = [k \in Slots |-> Idle]]
  /\ flag' = [flag EXCEPT ![c] = FALSE]
  /\ UNCHANGED <<args, mutex, group, presence, owners>>

\* Mutant of LeaseLeaves: an owner takes the whole group with it.
LeaseRemovesGroup(c) ==
  /\ pc[c] = "dropping"
  /\ mutex = None
  /\ pc' = [pc EXCEPT ![c] = "gone"]
  /\ members' = IF active = c THEN {} ELSE members \ {c}
  /\ active' = IF active = c THEN None ELSE active
  /\ switchId' = IF members' = {} THEN None ELSE switchId
  /\ UNCHANGED <<args, mutex, flag, requests, presence, owners>>

\* Mutant of LeaseLeaves: the group's owner is not cleared.
LeaseKeepsOwner(c) ==
  /\ pc[c] = "dropping"
  /\ mutex = None
  /\ pc' = [pc EXCEPT ![c] = "gone"]
  /\ members' = members \ {c}
  /\ switchId' = IF members' = {} THEN None ELSE switchId
  /\ UNCHANGED <<args, mutex, active, flag, requests, presence, owners>>

\* ... and under the mutex it leaves the group, which goes with its last member.
LeaseLeaves(c) ==
  /\ pc[c] = "dropping"
  /\ mutex = None
  /\ pc' = [pc EXCEPT ![c] = "gone"]
  /\ members' = members \ {c}
  /\ active' = IF active = c THEN None ELSE active
  /\ switchId' = IF members' = {} THEN None ELSE switchId
  /\ UNCHANGED <<args, mutex, flag, requests, presence, owners>>

-----------------------------------------------------------------------------
Activate(c) ==
  \E expected \in Connections \cup {None}, id \in SwitchIds :
    ActivateUnchanged(c, expected, id) \/ ActivateFences(c, expected, id)

Next ==
  \E c \in Connections :
    \/ Prepare(c) \/ Handshake(c) \/ Activate(c) \/ ActivateCommits(c) \/ Refresh(c)
    \/ Receive(c) \/ Close(c) \/ LeaseFalls(c) \/ LeaseLeaves(c)
    \/ \E k \in Slots :
         Spawn(c, k) \/ Refuse(c, k) \/ Accept(c, k) \/ Call(c, k) \/ Stop(c, k)

\* What is left to do for a connection whose channel loop has ended.
CleanUp(c) == LeaseFalls(c) \/ LeaseLeaves(c) \/ \E k \in Slots : Stop(c, k)

(***************************************************************************)
(* An activation that holds the mutex runs to its end, and so does the     *)
(* cleanup of a closed connection, which has a deadline and is not starved *)
(* of the mutex for ever.  Nothing says that a client ever sends, switches *)
(* or closes.                                                              *)
(***************************************************************************)
Fairness ==
  /\ WF_vars(\E c \in Connections : ActivateCommits(c))
  /\ \A c \in Connections : SF_vars(CleanUp(c))

Spec     == Init /\ [][Next]_vars
FairSpec == Spec /\ Fairness

-----------------------------------------------------------------------------
(***************************************************************************)
(* Properties                                                              *)
(***************************************************************************)

\* At no instant can two connections of a group have requests admitted, though the
\* flags are read without the mutex they are written under.
AtMostOneServes == \A c, d \in Connections : flag[c] /\ flag[d] => c = d

\* While the mutex is free, the flags say what the group says: the owner serves,
\* unless its lease is being dropped, and nobody else does.
FlagsFollowGroup ==
  mutex = None =>
    \A c \in Connections : flag[c] <=> active = c /\ pc[c] # "dropping"

\* Whoever holds a lease finds its group and itself in it: status and activate,
\* which unwrap the group, never panic and so never poison the mutex of all groups.
LeaseHasGroup == \A c \in Connections : Leased(c) => c \in members

\* When no activation is under way, the presence shown to the user is exactly the
\* registered connections that serve.
SnapshotSettles ==
  (\A c \in Connections : pc[c] \notin {"commit", "refresh"}) =>
    snapshot = Published(entries)

\* Over any switches and closings since, a request reaches the handler only if its
\* connection owned the group as the request was admitted and again as its task
\* started, and has not retired: the handler is not called for a closed connection,
\* whose place a new one may have taken, nor for a request that only its admission
\* covers.
CallsAreOwned ==
  \A c \in Connections, k \in Slots :
    tasks[c][k].stage = "accepted" =>
      /\ owners[tasks[c][k].admitted] = c
      /\ owners[tasks[c][k].accepted] = c
      /\ tasks[c][k].admitted <= tasks[c][k].accepted
      /\ pc[c] \notin {"dropping", "gone"}

\* A connection that closes does not keep the group: it stops owning it in the end,
\* so that the next connection can take over.
ClosedReleases ==
  \A c \in Connections : []<>(Stopped(c) => active # c /\ c \notin members)

\* What the group promises: one connection serves at a time.
Service == INSTANCE ChannelService
  WITH Servers <- Connections,
       serving <- {c \in Connections : flag[c]},
       retired <- {c \in Connections : pc[c] \in {"dropping", "gone"}}

\* The flags hand the service over as ChannelService says.
ServiceSpec == Service!Spec
=============================================================================
