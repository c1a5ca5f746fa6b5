---------------------------- MODULE GatewayEvents ----------------------------
(***************************************************************************)
(* How a change of a Provider reaches the Gateway's clients                *)
(* (codepet-host/src/gateway.rs and providers/manager.rs): the manager     *)
(* changes its state under a lock and sends an update after it; one task   *)
(* forwards the updates to a bus that numbers the events, keeps the newest *)
(* for replay and broadcasts them; a client handshakes, reads the state    *)
(* and subscribes after a cursor.                                          *)
(*                                                                         *)
(* The manager's state is a version, an update the version it was taken    *)
(* at, an event its cursor.  An update becomes one event (an update of a   *)
(* hidden plugin becomes none, and one with many instances several).       *)
(***************************************************************************)
EXTENDS Naturals, Sequences

CONSTANTS
  Clients,      \* sockets and in-process subscribers
  Capacity,     \* event_capacity: of the update queue and of the replay window
  RingCapacity, \* what tokio's broadcast channel makes of that capacity
  MaxVersion,   \* Bounds the changes.
  Off           \* no subscription

ASSUME CapacityAssumption == Capacity \in Nat \ {0} /\ RingCapacity \in Nat \ {0}
ASSUME VersionAssumption  == MaxVersion \in Nat
ASSUME OffAssumption      == Off \notin Nat

VARIABLES
  version,   \* the manager's state
  unsent,    \* updates taken under the lock and not yet in the queue
  updates,   \* the mpsc queue of HostUpdates
  lost,      \* history: updates that will never be published
  sequence,  \* GatewayEventState.sequence
  window,    \* GatewayEventState.events, as a set of cursors
  sent,      \* how many events were broadcast: the n-th is event n
  published, \* history: the version each event reports
  pc,        \* where each client is
  cursor,    \* the cursor its handshake returned
  snap,      \* the version its handshake returned
  after,     \* the cursor it subscribed after
  next,      \* the position of its broadcast receiver
  replay,    \* what is left of its replay
  last       \* last_sequence; of a client without subscription, what it applied

manager == <<version, unsent, updates, lost>>
bus     == <<sequence, window, sent, published>>
client  == <<pc, cursor, snap, after, next, replay, last>>
vars    == <<manager, bus, client>>

-----------------------------------------------------------------------------
Versions == 1 .. MaxVersion
Stages   == {"offline", "handshake", "ready", "receiver", "streaming"}

TypeOK ==
  /\ version \in 0 .. MaxVersion
  /\ unsent \subseteq Versions
  /\ updates \in Seq(Versions) /\ Len(updates) <= Capacity
  /\ lost \subseteq Versions
  /\ sequence \in Nat /\ window \subseteq 1 .. sequence /\ sent \in 0 .. sequence
  /\ published \in Seq(Versions) /\ Len(published) = sequence
  /\ pc \in [Clients -> Stages]
  /\ cursor \in [Clients -> Nat] /\ snap \in [Clients -> 0 .. MaxVersion]
  /\ after \in [Clients -> Nat] /\ next \in [Clients -> Nat \ {0}]
  /\ replay \in [Clients -> SUBSET Nat] /\ last \in [Clients -> Nat]

Init ==
  /\ version = 0 /\ unsent = {} /\ updates = <<>> /\ lost = {}
  /\ sequence = 0 /\ window = {} /\ sent = 0 /\ published = <<>>
  /\ pc = [c \in Clients |-> "offline"]
  /\ cursor = [c \in Clients |-> 0] /\ snap = [c \in Clients |-> 0]
  /\ after = [c \in Clients |-> 0] /\ next = [c \in Clients |-> 1]
  /\ replay = [c \in Clients |-> {}] /\ last = [c \in Clients |-> 0]

-----------------------------------------------------------------------------
(***************************************************************************)
(* From the manager to the bus                                             *)
(***************************************************************************)
\* Under the plugins lock a task changes the state and takes an update of it.
Change ==
  /\ version < MaxVersion
  /\ version' = version + 1
  /\ unsent' = unsent \cup {version + 1}
  /\ UNCHANGED <<updates, lost, bus, client>>

\* Mutant of SendUpdate: a full queue drops the update.
TrySendUpdate(v) ==
  /\ v \in unsent
  /\ unsent' = unsent \ {v}
  /\ updates' = IF Len(updates) < Capacity THEN Append(updates, v) ELSE updates
  /\ UNCHANGED <<version, lost, bus, client>>

\* PluginManager::send_update, after the lock: tasks may overtake each other.
SendUpdate(v) ==
  /\ v \in unsent
  /\ Len(updates) < Capacity
  /\ unsent' = unsent \ {v}
  /\ updates' = Append(updates, v)
  /\ UNCHANGED <<version, lost, bus, client>>

\* A remote request that drives a recovery waits for room in the queue and is dropped.
SendDropped(v) ==
  /\ v \in unsent
  /\ Len(updates) = Capacity
  /\ unsent' = unsent \ {v}
  /\ lost' = lost \cup {v}
  /\ UNCHANGED <<version, updates, bus, client>>

\* forward_host_update fails before it publishes, as when a store cannot be opened:
\* the forwarding task reports the error and goes on.
ForwardFails ==
  /\ updates # <<>> /\ sent = sequence
  /\ updates' = Tail(updates)
  /\ lost' = lost \cup {Head(updates)}
  /\ UNCHANGED <<version, unsent, bus, client>>

\* The replay window after event n: the newest events, as many as fit.
Newest(n) == {m \in window \cup {n} : m + Capacity > n}

\* GatewayEventBus::publish under its mutex: a cursor, the window, the oldest dropped.
Publish ==
  /\ updates # <<>> /\ sent = sequence
  /\ updates' = Tail(updates)
  /\ sequence' = sequence + 1
  /\ window' = Newest(sequence + 1)
  /\ published' = Append(published, Head(updates))
  /\ UNCHANGED <<version, unsent, lost, sent, client>>

\* ... and after the mutex it is broadcast; the forwarding task does one at a time.
Broadcast ==
  /\ sent < sequence
  /\ sent' = sent + 1
  /\ UNCHANGED <<manager, sequence, window, published, client>>

-----------------------------------------------------------------------------
(***************************************************************************)
(* The clients                                                             *)
(***************************************************************************)
\* protocol.handshake captures the cursor ...
Handshake(c) ==
  /\ pc[c] = "offline"
  /\ pc' = [pc EXCEPT ![c] = "handshake"]
  /\ cursor' = [cursor EXCEPT ![c] = sequence]
  /\ UNCHANGED <<manager, bus, snap, after, next, replay, last>>

\* Mutant of ReadSnapshot: the state is read before the cursor is captured.
ReadSnapshotFirst(c) ==
  /\ pc[c] = "handshake"
  /\ pc' = [pc EXCEPT ![c] = "ready"]
  /\ cursor' = [cursor EXCEPT ![c] = sequence]
  /\ \E v \in 0 .. version : snap' = [snap EXCEPT ![c] = v]
  /\ UNCHANGED <<manager, bus, after, next, replay, last>>

\* ... and then reads the state of the Providers.
ReadSnapshot(c) ==
  /\ pc[c] = "handshake"
  /\ pc' = [pc EXCEPT ![c] = "ready"]
  /\ snap' = [snap EXCEPT ![c] = version]
  /\ UNCHANGED <<manager, bus, cursor, after, next, replay, last>>

\* event.subscribe after the handshake's cursor or the last event applied: first the
\* receiver, which sees what is broadcast from now on, ...
SubscribeReceiver(c, from) ==
  /\ pc[c] = "ready"
  /\ from \in {cursor[c], last[c]}
  /\ pc' = [pc EXCEPT ![c] = "receiver"]
  /\ after' = [after EXCEPT ![c] = from]
  /\ next' = [next EXCEPT ![c] = sent + 1]
  /\ UNCHANGED <<manager, bus, cursor, snap, replay, last>>

\* Mutant of Available: the window may start one event too late.
AvailableTooLate(from) == from <= sequence /\ (window = {} \/ \E n \in window : n <= from + 2)

\* GatewayEventBus::replay answers: no event after the cursor fell out of the window.
Available(from) == from <= sequence /\ (window = {} \/ \E n \in window : n <= from + 1)

\* ... then the replay, which may be refused, ...
ReplayRefused(c) ==
  /\ pc[c] = "receiver"
  /\ ~ Available(after[c])
  /\ pc' = [pc EXCEPT ![c] = "ready"]
  /\ UNCHANGED <<manager, bus, cursor, snap, after, next, replay, last>>

\* Mutant of ReplayTaken: the replay was taken first, the receiver is made now.
ReplayTakenFirst(c) ==
  /\ pc[c] = "receiver"
  /\ Available(after[c])
  /\ pc' = [pc EXCEPT ![c] = "streaming"]
  /\ replay' = [replay EXCEPT ![c] = {n \in window : n > after[c] /\ n < next[c]}]
  /\ next' = [next EXCEPT ![c] = sent + 1]
  /\ last' = [last EXCEPT ![c] = after[c]]
  /\ UNCHANGED <<manager, bus, cursor, snap, after>>

\* ... or makes the subscription.
ReplayTaken(c) ==
  /\ pc[c] = "receiver"
  /\ Available(after[c])
  /\ pc' = [pc EXCEPT ![c] = "streaming"]
  /\ replay' = [replay EXCEPT ![c] = {n \in window : n > after[c]}]
  /\ last' = [last EXCEPT ![c] = after[c]]
  /\ UNCHANGED <<manager, bus, cursor, snap, after, next>>

\* An event is delivered unless it was before.
Delivered(c, n) == last' = [last EXCEPT ![c] = IF n > @ THEN n ELSE @]

\* next_event takes the front of the replay, ...
Replay(c) ==
  /\ pc[c] = "streaming"
  /\ \E n \in replay[c] :
       /\ \A m \in replay[c] : n <= m
       /\ replay' = [replay EXCEPT ![c] = @ \ {n}]
       /\ Delivered(c, n)
  /\ UNCHANGED <<manager, bus, pc, cursor, snap, after, next>>

\* The broadcast channel has written over the receiver's next event.
Lagged(c) == next[c] + RingCapacity <= sent

\* ... and after the replay what the receiver gets, ...
Receive(c) ==
  /\ pc[c] = "streaming"
  /\ replay[c] = {}
  /\ next[c] <= sent /\ ~ Lagged(c)
  /\ next' = [next EXCEPT ![c] = @ + 1]
  /\ Delivered(c, next[c])
  /\ UNCHANGED <<manager, bus, pc, cursor, snap, after, replay>>

\* Mutant of Lag: the receiver goes on with the oldest event that is left.
LagSwallowed(c) ==
  /\ pc[c] = "streaming"
  /\ replay[c] = {}
  /\ Lagged(c)
  /\ next' = [next EXCEPT ![c] = sent + 1 - RingCapacity]
  /\ UNCHANGED <<manager, bus, pc, cursor, snap, after, replay, last>>

\* A socket goes, and its session with it: the client keeps what it applied.
Ends(c) ==
  /\ pc' = [pc EXCEPT ![c] = "offline"]
  /\ cursor' = [cursor EXCEPT ![c] = 0] /\ snap' = [snap EXCEPT ![c] = 0]
  /\ after' = [after EXCEPT ![c] = 0] /\ next' = [next EXCEPT ![c] = 1]
  /\ replay' = [replay EXCEPT ![c] = {}]

\* ... which says when it lagged: the error closes the socket.
Lag(c) ==
  /\ pc[c] = "streaming"
  /\ replay[c] = {}
  /\ Lagged(c)
  /\ Ends(c)
  /\ UNCHANGED <<manager, bus, last>>

\* A socket is lost at any time, with the events its client has not applied yet.
Disconnect(c) ==
  /\ pc[c] # "offline"
  /\ Ends(c)
  /\ \E n \in (IF pc[c] = "streaming" THEN after[c] .. last[c] ELSE {last[c]}) :
       last' = [last EXCEPT ![c] = n]
  /\ UNCHANGED <<manager, bus>>

-----------------------------------------------------------------------------
Subscribe(c) ==
  \/ \E from \in {cursor[c], last[c]} : SubscribeReceiver(c, from)
  \/ ReplayRefused(c) \/ ReplayTaken(c)

NextEvent(c) == Replay(c) \/ Receive(c) \/ Lag(c)

Next ==
  \/ Change
  \/ \E v \in Versions : SendUpdate(v) \/ SendDropped(v)
  \/ ForwardFails \/ Publish \/ Broadcast
  \/ \E c \in Clients :
       Handshake(c) \/ ReadSnapshot(c) \/ Subscribe(c) \/ NextEvent(c) \/ Disconnect(c)

(***************************************************************************)
(* A sender that waits for room gets its turn, the forwarding task takes   *)
(* every update, and a subscription's task keeps asking for the next       *)
(* event.  Nothing says that a client connects, subscribes or stays.       *)
(***************************************************************************)
Fairness ==
  /\ \A v \in Versions : WF_vars(SendUpdate(v))
  /\ WF_vars(Publish) /\ WF_vars(Broadcast)
  /\ \A c \in Clients : WF_vars(NextEvent(c))

Spec     == Init /\ [][Next]_vars
FairSpec == Spec /\ Fairness

-----------------------------------------------------------------------------
(***************************************************************************)
(* Properties                                                              *)
(***************************************************************************)
\* An update is on its way to the bus.
InTransit(v) == v \in unsent \/ \E i \in DOMAIN updates : updates[i] = v

\* An update was published after cursor n.
PublishedAfter(n, v) == \E i \in DOMAIN published : i > n /\ published[i] = v

\* The comment in protocol_handshake: a change is either in the snapshot the client was
\* given or in an event after the cursor it was given, at the latest when the update
\* arrives; only an update lost between the manager and the bus is neither.
HandshakeCovers ==
  \A c \in Clients : pc[c] \in {"ready", "receiver", "streaming"} =>
    \A v \in 1 .. version :
      v <= snap[c] \/ InTransit(v) \/ PublishedAfter(cursor[c], v) \/ v \in lost

\* The same comment to the letter, without the updates that are lost.
HandshakeCoversAll ==
  \A c \in Clients : pc[c] \in {"ready", "receiver", "streaming"} =>
    \A v \in 1 .. version :
      v <= snap[c] \/ InTransit(v) \/ PublishedAfter(cursor[c], v)

\* No update is left behind in the manager or in the queue: it is published, unless it
\* is one of those the manager or the forwarding task gives up.
UpdatesArrive == \A v \in Versions : v \in unsent ~> PublishedAfter(0, v) \/ v \in lost

\* A subscription delivers every event in the end, or it ends.
EventsArrive ==
  \A c \in Clients, n \in Versions :
    (pc[c] = "streaming" /\ n <= sequence) ~> (pc[c] # "streaming" \/ last[c] >= n)

\* What the subscribers are promised, over the receiver, the window and the cursors.
Feed == INSTANCE EventFeed
  WITH Subscribers <- Clients,
       length <- sequence,
       at <- [c \in Clients |-> IF pc[c] = "streaming" THEN last[c] ELSE Off]

\* Subscriptions deliver the events one by one, none left out and none twice.
FeedSpec == Feed!Spec
=============================================================================
