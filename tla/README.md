# A verification project for CodePet's Provider Host

CodePet is a desktop application (Tauri, Rust) whose **Provider Host**
(`src/crates/codepet-host`) runs *Provider plugins* — child processes that speak to
coding agents — and offers what they do to clients: the desktop's own windows and
phones that connect over LAN WebSockets or WebRTC. This directory holds TLA+ modules of
the Host's concurrent core, TLC configurations for small instances, and theorems that
TLAPS checks for every value of the constants.

    tlc -workers 2 -config MCPluginLifecycle.cfg MCPluginLifecycle.tla
    tlapm PluginLifecycleProofs.tla

All paths below are relative to `src/crates/codepet-host/src/` unless they begin with `src/`.

## 1. Inventory

| Component | State | Operations | What is hard | What makes it correct |
|---|---|---|---|---|
| Plugin manager, plugin lifecycle (`providers/manager.rs`) | per plugin a `PluginEntry` (generation, state, process, diagnostic) under one async `RwLock`; a `plugin_operations` mutex per plugin; the `shutting_down` flag | `start_enabled`, `start_plugin`, `stop_plugin`, `restart_plugin`, `ensure_historical_route_ready`, `shutdown`, `force_kill_all`; event loop and exit watcher per process | every operation awaits in the middle; shutdown takes no operation mutex; request futures are dropped; the shutdown is dropped by its time limit | no process out of sight, no resurrection after shutdown, shutdown ends and leaves nothing, no plugin stuck Starting |
| Provider instances (`providers/manager.rs`, `instance_registry.rs`) | `InstanceRuntime` per instance; persisted records | create, start, stop, event upsert, settings | a start's response and instance events race | the newer fact wins |
| Plugin process (`providers/process.rs`) | the child, its RPC table, `shutdown_started`, exit watch | `spawn`, `shutdown`, `force_kill`, `process_monitor` | graceful stop, deadline, kill and exit race | exactly one exit is published; kill ends |
| Subscriptions and heartbeat (`providers/manager/subscriptions.rs`, `heartbeat.rs`) | a hub per plugin with generation and wire id; last pong | subscribe, unsubscribe, deliver; ping | slow subscribers, restarts, dropped callers | each generation's events go to its own hub only |
| Catalog, import (`providers/catalog.rs`, `manager/import.rs`) | descriptors, files | scan, import | sequential | – |
| Gateway event bus (`gateway.rs`) | `sequence`, replay window, broadcast channel, subscriptions | publish, replay, subscribe, next event, handshake | several locks between a change, its event and a snapshot; bounded queue, window and ring | no gap between snapshot and events, no gap and no duplicate in a subscription |
| turn.send (`gateway.rs` 41–78, 485–513) | a cache of results by caller and `clientRequestId` | send | retry, drop between send and insert, eviction | a retry does not send twice |
| Recent feed (`gateway/recent.rs`, `recent_conversations.rs`) | cached pages with epoch and fence, tracked queries, build locks | page, invalidate, install, append | awaited queries, epochs and cursors under different locks | a change after a page's fence is announced after it |
| Conversation state (`conversation_state.rs`) | SQLite | read, write | single transactions | – |
| Event journal (`event_journal.rs`, `event_journal/history.rs`) | JSONL segments, sidecar indices, bounded queue | submit, append, rotate, prune, load, query | crash between two renames, partial line, stale index | what was appended is read back once and in order |
| Connection ownership (`remote/channels/ownership.rs`) | groups under a mutex, one atomic flag per connection | prepare, activate, drop of a lease | flags are read without the mutex | one connection serves at a time |
| Presence (`remote/connections.rs`) | registered connections, visibility, published snapshot | register, refresh, drop | visibility changes outside | the snapshot settles on the truth |
| Channel session (`remote/channels/session.rs`) | admission, request queue, tasks | control frames, requests, event task, cleanup | admission at two moments, futures dropped at the end | a request reaches the handler only if its connection owned the group at both moments, and never after it closed |
| Session registry (`remote/channels/session.rs` 986–1160) | sessions per credential, limit, shutting down | register, cancel, shutdown | register against revoke | no session outlives its credential |
| Remote access (`remote/access.rs`) | pairing window and requests, credentials, grants | begin, request, resolve, expire, revoke, validate | expiry against resolution, persistence failing half way | one outcome per request, revoked means refused |
| LAN, WebRTC, signaling (`remote/channels/lan`, `webrtc`, `signaling_service.rs`) | sockets, peers, lanes of framed messages | listen, connect, relay | input and output; budgets of the lanes | reassembly, fairness |
| Pet Gateway (`pet_gateway`) | a projection | fold events | – | – |
| Persistence, device, log origin | files | load, save | – | – |
| Desktop shell (`src/src-tauri`) | the Host's handle, shutdown gate | `shutdown_once`, bridges | a time limit that drops a future | see plugin lifecycle |
| Desktop remote access (`src/src-tauri/src/runtime_gateway/remote_access.rs`) | listeners, advertisement, pairing monitor | start, stop, pair | restart of listeners while pairing | one advertisement that matches the listener |
| Provider SDK runtime (`src/sdk/rust/codepet-provider-sdk/src`) | execution gate, activity, multiplexed lanes | run a request, release an idle instance, send and reassemble frames | the idle stop races requests not yet answered; budgets per lane | a busy instance is not stopped; no message starves |
| Local runtime discovery, task lineage, Provider plugins, protocol, generated SDKs, frontend, signaling service | – | – | separate programs, generated code, user interface | – |

How they interact. A channel session hands requests to `ProviderGatewayService`, which
calls `PluginManager`; the manager sends typed RPCs to the plugin process. Back, the
process's event loop and every lifecycle step change the entry under the plugins lock and
then send a `HostUpdate` over a bounded `mpsc` queue; one task of the Gateway turns updates
into numbered events and publishes them on the bus; the event task of each session (and the
desktop's bridges) takes them from a subscription. Ownership, admission and presence decide
which of a client's connections may send business requests at all. The desktop's exit calls
the manager's shutdown inside a time limit.

## 2. Modules

| Module | About |
|---|---|
| `PluginLifecycle` | one plugin: its entry, its processes, the operator, the per-process tasks, the shutdown |
| `PluginLifecycleProofs` | five properties of it proved |
| `ChannelOwnership` | one group of connections: ownership, session admission, presence |
| `ChannelService` | the abstract service: one server at a time, handed over |
| `ChannelOwnershipProofs` | six properties and the refinement proved |
| `GatewayEvents` | manager updates, event bus, clients with snapshots and subscriptions |
| `EventFeed` | the abstract feed: events one by one, no gap, no duplicate |
| `GatewayEventsProofs` | its safety and the refinement proved |
| `RecentFeed` | the recent conversations of one Provider: snapshots, pages, fences, invalidations, requests |
| `RecentFeedProofs` | its four safety properties proved |
| `CredentialStore` | the durable credentials of remote clients and the file they are in |
| `CredentialLife` | the abstract life of a credential: granted, revoked, forgotten, never back |
| `RemoteSessions` | admissions, the session registry, revocation and deletion, the listener's life, restarts |
| `InvitationLife` | the abstract life of a pairing window: opened once, over once, its secret used in the step that ends it |
| `Pairing` | windows, invitations, requests and answers that end in a credential |
| `RemoteAccessProofs` | the store's step, the safety of `RemoteSessions` and of `Pairing`, and the refinement of each proved |
| `EventJournal` | segments, their index, rotation, retention, crashes, and the clients that read |
| `EventJournalFiles` | proved: the writer's program, the files it leaves and the sidecars that fit them |
| `EventJournalProofs` | its three safety properties proved |
| `ProviderRuntime` | the Provider SDK: requests behind a gate, activity, release of idle instances |
| `ProviderRuntimeProofs` | its safety proved |
| `MC*` | the instances for TLC |

`CredentialStore` is extended by `RemoteSessions` and by `Pairing`: each is an environment of the same
operations on credentials, one with sessions, the other with all ways to be granted one. What they
share is the store alone, so a composition would only multiply the states: `RemoteSessions!Grant` is what a
pairing does to the store.

### PluginLifecycle

One action is what the code does between two awaits, so an interleaving of actions is an
interleaving the Tokio runtime can produce. `state`, `process`, `diagnostic` are the
fields of `PluginEntry`; `procs` records the child of every generation and its length is
`PluginEntry.generation`, since both starting and stopping advance it. The operator is
whoever holds the plugin's `plugin_operations` mutex: it performs a start, a restart or a
recovery on behalf of a remote client's history request, and only the last can be dropped at
any await (`RecoveryDropped`), because it runs in a request future that
`run_gateway_requests` drops when the session ends. `stop_plugin` is written once
(`Stop*`) and has two callers, the operator and the shutdown, which may be inside it at the
same time. The shutdown is `shutdown_once` of the desktop: `PluginManager::shutdown` in a
time limit, and `force_kill_all` if it failed or was dropped.

A process is `up`, `closing` (asked to shut down), `dying` (dead or killed, not reaped) or
`gone`. It may die at any time. `diagnostic` keeps only whether an error may be retried,
which decides whether a crashed plugin is recovered. Left out: the instances inside
a plugin, the heartbeat's status, the failure of `send_update` (its receiver lives as long
as the Gateway) and the failure of a kill (`process_monitor` publishes an exit in every case).

### ChannelOwnership

`Ownership::activate` and the drop of a lease are the interesting code: both change an
atomic flag and the group, and the request path reads the flag alone. Each is therefore two
actions: `ActivateFences` lowers the old flag and `ActivateCommits` records the switch and
raises the new one, holding the mutex across; `LeaseFalls` lowers the flag and
`LeaseLeaves` then takes the mutex. Around them are the session loop (`Prepare`,
`Handshake`, `Receive`, `Close`), the request dispatcher and its tasks, and the presence
(`Refresh`, `Published`).

A request is admitted in the channel loop (`Receive`), taken by the dispatcher (`Spawn`), looked at again in
its task (`Accept` or `Refuse`) and only then, in another step with no lock held since, does the task call
the handler (`Call`), unless the connection has closed (`Stop`). `owners` is the history of the connections
that came to own the group; a request carries the number of the ownership it was admitted in and of the one it
was accepted in, so that an ownership that returns is told apart from the earlier one. When a connection closes,
its dispatcher is joined before its lease is dropped (`LeaseFalls`); this waits for 250 ms at most
(half of `CONNECTION_CLOSE_TIMEOUT`), and the model takes it that the few instructions from the second look to the call,
which await nothing, take no longer. A handler may: it was called before. How long handlers run is not in the
model; they would only delay the next `Spawn`. Groups share nothing but the
mutex, so one group is enough. Left out: connections without channel control (they are
always admitted and hold no lease), and the event task of a fenced connection, which goes on
streaming by design.

### GatewayEvents

The manager's state is a version; a change takes an update of it under the lock, which is
sent later (`unsent`), so updates overtake each other as they do in the code. The bus is
`sequence`, the replay `window` and the broadcast ring, of which only the positions matter:
the n-th broadcast is event n, `sent` is how many there were, and a receiver lags when the
ring has wrapped over its position. Publishing is two actions (`Publish` under the mutex,
`Broadcast` after it), the subscription is two (`SubscribeReceiver`, then `ReplayTaken` or
`ReplayRefused`), and the handshake is two (`Handshake` captures the cursor, `ReadSnapshot`
reads the state). A client that lost its socket keeps some prefix of what was delivered and may
resume after it. `lost` is a history variable: the updates the code gives up, because
forwarding failed or because the request that waited for room in the queue was dropped.

### RecentFeed

The requests are those of `conversation_recent_for_scope`, one action between two awaits: a
look at the cached snapshot (`Lookup`), a second one with the build lock of the view
(`Recheck`, which merges taking the lock with the look that follows it at once),
`PendingTail` with a permit of the semaphore, and then either the rest of the list
(`TailEpoch`, `AppendTail`, `TailFails`) or up to three builds of a new one (`ReadEpoch`,
`ReadFence`, `CollectFails`, `Install`). `feed` is what `RecentSnapshots` keeps of one
Provider; its methods are functions of it. `taken` is the gap between `take_invalidations`
under the mutex and the publication on the bus.

The data is reduced to what decides about staleness. The content of the list is a
`version`; a snapshot carries the version from which its queries can no longer
miss anything (the one at `ReadFence`, before the first query), so a page lacks at most
what came later. A change is in
transit until the Host observes it: by a forwarded update, by a mark, or by a collection that
notices it. Rows are counted in chunks with their position, and a batch has one time at which
its first row leaves the list; `Install` and `AppendTail` take any length and any such time.
`SNAPSHOT_TTL_MS` is `SnapshotExpires` at any moment. `invalidated` is a history: the
version at each invalidation, whose length is the epoch and the revision, which the code
advances together. `page` is a history too, the last page each client holds. A cursor is the record
that its signature covers; a forged one is refused before anything else. The
generation in a view's key is constant here, and `CollectFails` is its check after the collection.
Left out: ranking, the read marks' store, and the queries' inner order.

### CredentialStore, RemoteSessions

Every operation of `RemoteCredentialStore` works under its mutex on a copy, writes the copy to the
file and, if that succeeded, takes it over: `Persist`. `write_json_atomically` renames and then syncs,
so a save that failed may have changed the file (`disk' \in {disk, updated}`). `credentials` is the
map in memory, `disk` the file's content; a restart reads `disk`. A credential stands for its bearer; descriptors,
hashes and times are left out, and what only rewrites them (`lastSeenAt` in `validate_bearer`, `update_descriptor`)
is the rewriting of the file.

A session is admitted in three steps (`Arrive`, `Register`, `Revalidate`), on the LAN with a bearer
that is validated with a save, from the cloud with the credential looked up: `gateway_websocket`,
`gateway_rtc_offer` and `Cloud::accept`. `peer` and `stage` are the registration a session holds, from
which the registry's groups follow (`Group`), `cancelled` the mark of a group, `signalled` the message in a
session's broadcast receiver. Operators are the desktop's commands and a client's own
`DELETE`: their steps are the awaits of `revoke_credential` (`BeginRevoke`, `RevokeLists`, `Disconnects`, `Drains` or
`TimesOut`), of `delete_revoked_client` (`BeginDelete`, the same waits, `Deletes`) and of
`delete_current_credential` (`BeginForget`, `ForgetCancels`). `inner` is the runtime's async lock, which an
operation holds while it waits. `listener` goes from accepting (`starting`) to known to operations (`Install`),
taken out by the shutdown (`Take`), and its sessions told (`Shutdown`). `drained` and `ended` are histories: the
revoked credentials that an operation reported disconnected, and those whose sessions must end.
Left out: the session loop itself (`ChannelOwnership`), the cloud service's own list of clients, mDNS.

### Pairing

`pairing` is `PairingState`, one record under one mutex; each method of `RemoteAccessManager` is an
action, begun by the expiry it performs (`WindowExpired`, `RequestsExpired`). A deadline passes in the
background (`WindowDeadline`, `RequestDeadline`) and is noticed by the next operation that looks. A window is numbered;
whoever read its QR code (`published`) may exchange its secret (`CompletePairing`), or present a signed
request (`CreateInvitationRequest`), known by its `binding`. Requests without an invitation (`CreateRequest`)
are known by client and nonce. `Accept` and `Reject` may come from any dialog at any time.
Terminal records are kept for 15 minutes, 64 of each; here they may be forgotten at once, which allows more.
A restart forgets the pairings and keeps the credentials. `grants` is a history: how each credential was come by.

### EventJournal

A file is a sequence of lines, the last one possibly `torn`; a sidecar is an id, its rows, and whether its last
row is `whole`. The writer's thread is one program with a step per file operation (`writer`): `Take`, then
for a rotation `FlushIndex`, `RenameData`, `RenameIndex`, `Switch`, `PersistIndex`, `OpenFile`, and `AppendLine` or
`CutAppend`. Any of them but `Switch` may fail (`Fails`), and `Crash` may come between any two and inside an append
or a flush. Whether a rotation is due (a file's size, a new day) is left open. `Open` is `HistoryStore::open`
with `Segment::load` of every file; it is one step, and a failure of it is the journal's absence. `active`, `archives`
and `offsets` are the store's memory. `reader` pages through the history with `HistoryCursor`s or with `before`,
pins the segments under the lock and reads without it (`Pin`, `Read`); retired segments lose their files with
the last lease. `poller` asks for what came after a sequence. A page has one event. `acked` (the events whose append succeeded),
`pruned` (the last sequence that retention removed) and `damage` (which of three accidents that nothing
repairs have happened, see *Disagreements*) are histories.
A crash is that of the process: what was written is in the file.

### ProviderRuntime

`view` is `Activity.instances`, its methods functions of an entry (`TurnSeen`, `ApprovalSeen`,
`ConversationSeen`, `StatusSeen`, `Touched`, `MutationSeen`). A request of the Host is received (`Arrive`), takes the gate for
reading (`Admit`), a permit of its lane (`Dispatch`), is answered, recorded and over (`Answer`), or is cancelled with its
stream (`Cancel`), unless it is a turn's start, which runs on in a task of its own whose abort handle
is pushed later (`Register`). The release tries the gate for writing (`Release`), and holds it over every
stop and restart (`StopReplies`, `StartReplies`). `End` is the end of the serving loop. The adapter is external: its
turns move when they like, and it may publish at any time what is true now or was true before. The window of
idleness is counting or has elapsed. `announced`, `told` and `lost` are histories of what was said in which
generation of the instance. Left out: the transport and its budgets, `initialize`, the heartbeat, and the
grace in which the last tasks are waited for.

## 3. Runs

| Run | Checks | Shows |
|---|---|---|
| `plugin_lifecycle` | `TypeOK`, `NoInvisibleProcess`, `ActiveHasProcess`, `ShutdownLeavesNothing`, `NoResurrection`, `ShutdownCompletes` | the entry never loses sight of a child; after the gate nothing comes back; the shutdown ends and leaves no child, even when dropped in the middle of a stop |
| `plugin_lifecycle_abandoned` | `StartingIsDriven` (violated) | finding 1 |
| `channel_ownership` | `TypeOK`, `AtMostOneServes`, `FlagsFollowGroup`, `LeaseHasGroup`, `SnapshotSettles`, `CallsAreOwned`, `ClosedReleases`, `ServiceSpec` | one connection serves at a time, flags and presence settle on the group, a request reaches the handler only if its connection owned the group at both looks and has not retired, closing releases the group, refinement of `ChannelService` |
| `gateway_events` | `HandshakeCovers`, `UpdatesArrive`, `EventsArrive`, `FeedSpec` | snapshot and events leave no gap but what the Host gave up; every update and every event arrives or the subscription ends; refinement of `EventFeed` |
| `gateway_events_lost` | `HandshakeCoversAll` (violated) | finding 2 |
| `recent_feed` | `FenceCovers`, `RevisionIncludes`, `RowsContiguous` | no page goes stale without an announcement after its fence, made or on its way; a page has what its revision announces; the pages of a list are consecutive, though two requests may want the same tail |
| `recent_feed_live` | `FenceCovers`, `StaleIsAnnounced`, `EveryRequestEnds` | two views share a boundary and one permit: a stale page is announced in the end, and lock, permit and retries let every request end |
| `recent_feed_cursor` | `CursorKeepsList` (violated) | finding 3 |
| `remote_sessions` | `TypeOK`, `DiskNeverBehind`, `DisconnectIsTrue`, `EndedAreTold`, `LifeSpec`, `RevokedSessionsEnd` | a lost access is not brought back by a restart, whatever saves failed; a session reported gone is gone and none slips in after it; no served session of a credential that is over is overlooked, and told sessions end; refinement of `CredentialLife` |
| `pairing` | `OneGrantPerInvitation`, `OutcomeTruthful`, `AnswersAreGrants`, `InvitationSpec` | a secret gives one credential at most, over both routes, retries and dialogs; outcomes and answers are what happened; refinement of `InvitationLife` |
| `event_journal` | `HistoryHoldsEvents`, `PagesContinue`, `PollerMissesNothing` | acknowledged events survive rotations, failures and crashes until retention removes them; the pages of a walk neither repeat nor skip; a poll is continuous or says that it is not |
| `provider_runtime` | `EndedTurnsHoldNothing`, `IdleStopSparesWork`, `QuietInstancesAreReleased` | an ended turn never holds its instance again; a release meets no admitted request and no known work; an instance without work is released |

### Bounds and why they are enough

- `PluginLifecycle`, `MaxOperations = 2`: two operations give a restart over a process of
  an earlier start with both processes' tasks alive, a recovery dropped and then repeated, and
  a shutdown racing either. The safety theorems hold for every bound.
- `ChannelOwnership`, three connections, two switch ids, three commits, a queue and a task of one each: an old
  owner, a new owner and a third that sees both; a switch id repeated; ownership that
  returns; a request left in a queue or in a task over switches. `MaxPending = 2` bounds the requests under way in
  the group: one behind the other in a connection, or one each in the old owner and the new. Without that bound, and with two connections of two
  tasks each, the safety properties hold as well. The theorems hold for any set of connections and
  any capacities.
- `GatewayEvents`, one client, four changes, `Capacity = RingCapacity = 2`: twice the
  window and the queue, so that a cursor falls out of the window, a receiver lags, a sender waits
  for room, and a client disconnects and resumes. Clients share nothing but the bus, of which they
  are readers: with two clients and three changes the safety properties hold as well
  (2.1 million states, too long for every run), and the theorems hold for any set of them.

- `RecentFeed`: the first run has two clients of one view, three requests, page sizes of one and two
  chunks in a list of two, one change and one tick of the clock: a tail fetched by one client while the other
  wants it, a page over its end, a list invalidated, evicted or outlived during every await. The second has two
  views, for the boundary that they share, one permit, for the wait with a build lock in hand, and
  two attempts, for a retry; `MaxVersion = 0` there, since rows that leave make pages stale as changes
  do. One attempt in the first run: a retry starts over with nothing kept. The theorems hold for any bounds.

- `RemoteSessions`, two sessions (one of the LAN, one of the cloud), one client, one operator, two credentials of
  two, two sessions at a time, one restart: a session at each step of its admission while another serves and an
  operation waits for it, a client granted again between a list and a deletion, a session that registers after its
  group was cancelled and emptied, a failed save before a restart. Operations on the LAN listener exclude each other
  by the inner lock; what one of them leaves behind is met by the next. With two operators the safety properties
  hold as well (1.3 million states, where liveness takes too long), and the theorems hold for any bounds.
- `Pairing`, two windows, two requests of which one may wait, one client, one nonce, two bindings, two credentials:
  a window ended while the next one is open and a request of the old one is answered; a repeated request, a second
  binding of the same invitation, a request refused at the limit, an issue that failed and is repeated. The theorems hold for any bounds.
- `EventJournal`, four events, four segments, two retained, a live tail of one, rows flushed in twos: a segment
  with rows that are flushed and rows that are not, a rotation interrupted by each of two crashes, an archive retired under a
  reader. One failure: what two of them may do together (a stale sidecar) is described under *Disagreements*. The theorems hold
  for any bounds and any number of failures and crashes.
- `ProviderRuntime`, one instance, one turn, two requests, one permit and one reset of the instance: a request
  waiting for the gate, one for the permit, an answer of an older generation, an unknown send. Instances meet in the release's list only
  (see *Disagreements*). The safety theorems hold for any instances, turns, requests and bounds.

`CHECK_DEADLOCK FALSE` stands where the system really stops: the operations, switches or
changes run out and the Host has shut down or every connection has gone.

### Fairness

- `PluginLifecycle`: the runtime polls ready tasks; RPCs and graceful stops have deadlines
  (`PluginProcess::shutdown`, the RPC timeouts), so a step that ends the wait comes; a killed
  child is reaped. Not assumed: that an operation or the shutdown begins, that a child dies, that a request is dropped.
- `ChannelOwnership`: an activation that holds the mutex (`ActivateCommits`) and the cleanup of a closed connection
  (`CleanUp`), which has a deadline (`CONNECTION_CLOSE_TIMEOUT`), run to their end. `LeaseLeaves` takes an operating-system mutex that is
  held for a few instructions; strong fairness says that it is not starved of it for ever. Not assumed: that a client sends, switches or closes.
- `GatewayEvents`: a sender waiting for the queue (Tokio's `mpsc` is first in, first out)
  gets its turn, the forwarding task takes updates and broadcasts what it published, and a
  subscription's task asks for the next event. Not assumed: that a client connects, stays, or that
  forwarding succeeds.
- `RecentFeed`: the forwarding task ticks every 250 ms (`TakeInvalidations`, `PublishTaken`), a change reaches
  the Host (that it may be lost on the way is `GatewayEvents`' finding 2), and a request goes on:
  queries have deadlines, and Tokio's mutex and semaphore are first in, first out, for which
  weak fairness of each request's next step is enough here, since whoever holds either leaves
  them and a run has as many requests as `MaxBegun`. Not assumed: that a client asks, stays
  or goes, that time passes or that a snapshot is evicted.

- `RemoteSessions`: a cancelled session's loop selects on the cancellation at every await (`Obey`), and an operation that
  has begun runs in a command or a handler that nothing drops (`Continues`). That the runtime's lock is granted
  (`Disconnects`) is not assumed, nor that clients come or go, that the listener is installed or stopped.
- `ProviderRuntime`: time passes (`Elapse`), the monitor's clock ticks (`Release`), and an adapter answers a stop or a
  start. The last is an assumption about the adapter: `maintain_idle` awaits it without a time limit.

### Findings

1. **A dropped recovery leaves the plugin Starting.** A history request of a remote client
   recovers a stopped or crashed plugin inside the request's future. If the session ends
   while `start_plugin` awaits `provider.initialize` or `provider.describe`, the future is
   dropped (`remote/channels/session.rs:848-853`): the mutex is released, the entry stays `Starting` with a
   live process, nobody reads the answer, and no exit watcher was started. Later history
   reads are refused with `provider_plugin_starting` until somebody restarts the plugin. The
   runtime's document says that failure leaves no Connecting state of the Host's own
   making. The process is still in the entry, so a stop or the shutdown finds it
   (`NoInvisibleProcess` holds).
2. **An update whose forwarding fails is lost to clients that connected before.** The comment
   in `protocol_handshake` promises that any concurrent update is in the snapshot or replayable. A failure
   of `forward_host_update` before it publishes is only printed, and a sender dropped while it waits
   for room takes its update with it. `HandshakeCovers` is the promise that does hold.

3. **A cursor may be answered with the first page of another list.** A request with a cursor looks at the
   snapshot, takes the build lock, looks again, and then awaits a permit
   (`gateway/recent.rs:174`). If the snapshot is invalidated or evicted in that wait, `pending_tail`
   answers `Ok(None)` although a cursor was given (`recent_conversations.rs:222`); the request
   builds a new list and returns its first page (`gateway/recent.rs:254`), which the client appends to its old rows. The
   design document says that an expired cursor is refused with `recent_cursor_expired` and that an old cursor is not
   joined to a new revision. What does hold is that the returned page is consistent in itself
   (`FenceCovers`, `RowsContiguous`).

### Disagreements without a run of their own

Met while modelling, and confirmed by TLC with the property or the bound in question widened. The listed properties are
stated so that they say what holds beside these.

- **Requests are not called in the order of the ownerships.** "Queue admission is checked again immediately before
  dispatch" (`remote/channels/session.rs:833`) is a look at a flag, not a fence: a task past it (834) may call the handler (854) after
  another connection took over and its requests were called, and a request that waits while ownership goes to
  another connection and returns is accepted in the new ownership, after that connection's requests. `src/protocol/channel/control/v1/README.md:37`
  promises no more than the two looks ("Host checks ownership at both request admission and dispatch") and lets accepted work go on;
  it is the client that has to drain its calls before a switch (39). `CallsAreOwned` states that promise.
- **A session admitted while the listener starts survives its revocation.** `retry` starts the listener
  (`remote_access.rs:415`), awaits the discovery, and installs it at 496. `revoke_credential` in between finds none (724), reports 0 sessions
  and does not cancel those that serve. `src/knowledge/10-architecture/remote-access-tauri-runtime.md:67` promises that the whole
  group is cancelled. `RevokedSessionsEnd` therefore speaks of the credentials in `ended`.
- **A revocation may cut a session that it did not revoke.** It lists the client's records again after the
  revocation (712): one granted in between is live and its session is cancelled.
- **`start_pairing` may leave a window open.** Its last `?` (`remote_access.rs:564`) does not cancel the pairing as
  the earlier errors do; the window then stays active until it expires and a new one is refused.
- **A ghost line in the journal.** An append that fails after all of its line but the newline was written
  leaves a record with sequence n in the file while the next event takes n too (`history.rs:166`, `event_journal.rs:177`). After a restart that scans
  both, the earlier line wins: an acknowledged event is gone from the history, or a sequence comes twice. The
  module's comment calls the index disposable (`history.rs:1`); here the index decides which event is
  kept. `HistoryHoldsEvents` and `PagesContinue` except journals whose `damage` has a `"ghost"`.
- **A stale sidecar is inherited after two failures.** "Never inherit an old sidecar if its rename
  failed" (`history.rs:149`): if the rename fails and writing the new index fails as well, the next start reads the
  old rows with the new file. It takes `MaxFaults = 2`. No property but the types says anything of such a journal (`"stale"`).
- **A hollow segment is taken to be the oldest.** A file with no whole record (bytes of a cut append only, completed by
  `open_writer`) is sealed like any other when a rotation is due (`event_journal.rs:181`). The next start sorts segments by
  their last sequence (`history.rs:92`), where one without a record counts as 0: it may sit behind older ones, and with as many of them
  as are retained the sequences begin anew. `PagesContinue` and `PollerMissesNothing` except `"hollow"`;
  `HistoryHoldsEvents` holds all the same.
- **A release stops instances that were idle when it began.** `maintain_idle` lists the idle instances once (`idle.rs:23`) and
  awaits the stop of each; an adapter's own turn in a later one is not seen, though `activity.rs:39` says that the
  release rechecks activity before the stop. Requests cannot slip in, since the gate is held.
- **An answer of an older generation revives a turn.** `Activity::response` and `turn` do not compare the generation as
  `mutation_response` does: the answer of a start from before a restart of the instance marks a turn active
  whose end was already said, and the instance is then never idle.
- **A detached start may outlive the shutdown.** Its abort handle is pushed after its task was spawned
  (`mux.rs:147-151`); between the two drains and the push the abort misses it. The test of the shutdown asserts that
  outstanding detached starts are aborted.

## 4. Proofs

Every proof is by an inductive invariant, `Init => IInv`, `IInv /\ [Next]_vars => IInv'`,
with one step per action, TLC having checked the invariant on the small instance first.

- **`PluginLifecycleProofs`.** Assumption: `MaxOperations \in Nat`. `NoInvisibleProcess` is
  not inductive alone: that a spawn meets no live child needs *the entry is empty only when no
  child lives*, and that a stop's unconditional `entry.process = None` loses nothing needs *the
  process a stop waits for is gone, and no other was started meanwhile unless it is in the
  entry*. `IInv` adds that processes referred to anywhere were spawned (`ReferredIsSpawned`), that
  the latest live child is the one held (`LatestIsHeld`), what a start (`StartIsSpawned`), a stop
  (`StopsHaveCallers`, `StopTargets`) and the shutdown (`ShutdownTargets`) know about the process
  they work on. Theorems: `TypeCorrect`, `NoInvisibleProcesses`, `ActivePluginsHaveProcesses`,
  `ShutdownIsThorough`, `NoResurrections`.
- **`ChannelOwnershipProofs`.** Assumptions: `None` is no connection and no switch id; the bounds
  are naturals. Mutual exclusion follows from the flags following the group
  (`FlagsFollowGroup`), and, while an activation holds the mutex, from all flags being down
  (`HeldMeansDown`). `CallsAreOwned` needs that a raised flag means the latest ownership in the history
  (`OwnerIsLatest`, lemma `ServingOwns`), that the history only grows (`OwnedStays`), and what it says itself of the requests
  on their way: in the queues (`QueuedAreOwned`) and in the tasks before the second look (`TasksAreOwned`). Theorems: `TypeCorrect`, `MutualExclusion`,
  `FlagsAgree`, `NoPanic`, `PresenceSettles`, `CallsOwned`, and `Refinement`: the flags
  implement `ChannelService`, step by step.
- **`GatewayEventsProofs`.** Assumptions: the capacities are positive, `Off` is not a number. The
  window is the newest events (`WindowIsNewest`), the broadcast follows the sequence by at most
  one (`BroadcastFollows`), and of every subscription, what is left of its replay and its
  receiver's position together cover the events after its last one (`SubscriptionsSeamless`). From
  that, `Refinement` to `EventFeed`; from the cursor being captured before the snapshot,
  `HandshakeIsCovered`.

- **`RecentFeedProofs`.** Assumptions: `None` is not a number, permits and attempts are positive, 1 is one of the
  page sizes. What a page holds was fixed steps before the page was given, so `IInv` says the same of
  every list in the feed (`ListsFresh`, `ListsInclude`) and of every collection under way
  (`BuildsFresh`, `BuildsInclude`), provided that nothing was invalidated since it read the epoch; with the
  fences never ahead of the bus (`FencesPast`), no epoch ahead (`EpochsPast`), the revisions' versions in
  the past (`HistoryPast`) and a request tracked before it looks (`Tracking`). `RowsContiguous` needs `RInv`: lists are in order,
  one request at a time builds in a view (`OneBuilder`), and therefore the tail it fetched is
  where the list still ends (`TailsMeet`). Theorems: `TypeCorrect`, `Covered`, `Included`, `InOrder`.

- **`RemoteAccessProofs`** has three parts. Assumptions: `None` is no credential, operator, client or task; `NoWindow` is no
  window, `NoBinding` is no binding; the limits are naturals.
  *The store.* `StoreIInv` is inductive and every step of the store goes `Forward`, so that no credential is live again,
  stored again or dropped unrevoked. `DiskNeverBehind` alone does not survive a restart: a save that was reported as failed may have
  reached the file. What is needed besides: the file keeps every live credential (`DiskKeepsLive`), has none that was
  deleted (`DiskForgetsGone`), what only the file has is live (`DiskOnlyIsLive`), and it is within the limit (`DiskFits`).
  *The sessions.* `DisconnectIsTrue` rests on what an operation knows when it reports: a credential whose
  group it saw drained is revoked (`DrainedDead`), and no session of it has been served since, because a session
  that registers later looks at the store again and finds it revoked (`DrainedUnserved`). The inner lock is held by the
  operation that works on the listener (`InnerHeld`), targets are credentials that were issued (`TargetsKnown`,
  `AdmittedKnows`), and `SlotsFinite` carries the session limit. `EndedAreTold`, the safe part of `RevokedSessionsEnd`,
  needs two facts more: what is over stays over (`EndedDead`), so that the second validation stops
  a session that registered after the cancellation; and the registry's shutdown told every session it dropped
  (`StoppedTold`), since a handler that cancels afterwards finds no group. Theorems: `TypeCorrect`, `FileNeverBehind`,
  `DisconnectsAreTrue`, `NoneOverlooked`, and `Refinement` to `CredentialLife`, whose steps are those of `Forward`.
  *The pairing* (`PairingIInv`). The step that turns a secret into
  a credential takes its window away; so an active window is unused and has no outcome (`FreshWhileActive`), and each
  window is used once (`UsedOnce`); outcomes (`Truthful`) and answers (`Answered`) are those of the grants.
  `Consistent` says this of any pairing state, so that an operation made of several changes (expire, look up, take,
  answer) is proved one change at a time. The number of requests that wait is proved apart (`TypesRest`): expiry,
  answers and restarts let none wait that did not, and a new one is added only below the limit.
  `PairingRefinement` maps the active window, the past ones, the outcomes and `GivenBy` (whose secret gave which credential) to
  `InvitationLife`: every operation leaves the window as it is, ends it once (`Passes`, `EndsWindow`), or opens the next;
  the step that gives a credential is the one that ends the window (`GiveImplements`), and the credential is new
  since no grant is ahead of the ids drawn (`GrantsPast`). A request made without the secret but in an open window may end it
  as successful with nothing given for the secret: `InvitationLife!Close` says so.
  Theorems: `OneGrant`, `OutcomesAreTrue`, `AnswersAreTrue`, `PairingRefinement`, `PairingFileNeverBehind`, `PairingTypeCorrect`.
- **`EventJournalFiles`, `EventJournalProofs`.** Assumptions: the bounds on events, failures and crashes are naturals, the others
  positive. The first module is about the writer's program and its files. `Shape`: which files exist at which step
  (`Phases`) and whose they are (`Segmented`). `Fit`: rows are a `Digest` of a file if they are records of it and leave out
  none before their last; then loading the rest finds everything (`LoadDigest`), whichever flushes were
  lost. Of each sidecar on disk this is needed between a rename of the log and that of its index too, where the sidecar of
  `events.jsonl` is that of a sealed file (`SidecarOfActive`), and the order of files (`FileOrder`) makes the first record of
  a sequence the one that counts. Theorems: `TypeCorrect`, `IndexesFit`. The second module adds one part for each property.
  `History`: every event above what was pruned is a line of a file (`Holding`), and what only a query still holds was pruned (`Retiring`);
  with `Fit` that is `EventsHeld`. `Sequenced`: no sequence that was given or seen is given again, since while the process
  is down a file still has one as great (`Marked`), and the live tail is the end of the sequence (`Fresh`); that is
  `NothingMissed`. `Pages`: without damage there is no hole above what was pruned (`Filled`), the archives are in
  order (`Ordered`), a start finds the same order and keeps no segment that had been pruned, because enough younger ones are
  there (`Ranks`), and a cursor leads to the same event under each name that its file has in turn (`Cursor`); that is
  `WalkContinues`. That a file that was pruned but is still on disk must never come back was not in the property: without `Ranks`
  it is not inductive, as a crash between a pruning and the last lease leaves that file to the next start.
- **`ProviderRuntimeProofs`.** Assumptions: there is an instance, and `"open"` is not the name of a turn. `Sound` ties an
  instance's view to the history of what was announced and told in its generation: a turn announced in it is known, one
  whose end was told in it is ended, has no pending approval and no conversation, and an unknown send has
  marked the view. `GateClosed`: from the first stop of a release to its last start no request is admitted. Theorems:
  `TypeCorrect`, `EndedHoldNothing`, `ReleaseSparesWork`.

Every invariant and every action property that a run checks is proved. Only model-checked: the liveness
properties `ShutdownCompletes`, `ClosedReleases`, `UpdatesArrive`, `EventsArrive`, `StaleIsAnnounced`, `EveryRequestEnds`,
`RevokedSessionsEnd` and `QuietInstancesAreReleased`, which rest on fairness and `ENABLED` and are out of the prover's
reach; and the three violations.

## 5. Not modelled, and why

Input and output (sockets, TLS, mDNS, the WebRTC library), parsing and the generated protocol,
user interface, the Provider plugins and task lineage (programs of their own). The mapping of an update to
protocol events is one event per update here; an update of a hidden plugin yields none and one
with many instances several, which changes the numbering and not the ordering. Cursors across
restarts of the Host are left open by the repository's documents.

## 6. Plan

Built: `PluginLifecycle`, `ChannelOwnership` (refines `ChannelService`), `GatewayEvents` (refines `EventFeed`),
`RecentFeed`, `CredentialStore` with `RemoteSessions` (refines `CredentialLife`) and `Pairing` (refines `InvitationLife`), `EventJournal`,
`ProviderRuntime`. Left, in order of importance:

1. `InstanceStart`: a start's response against instance events, restarts and stops; what the merge by
   comparison decides when the entry goes away and comes back.
2. `TurnSend`: the cache, retries, drops and evictions. Property: a retry within the cache's
   capacity does not send twice.
3. `ProviderSubscriptions`: hub, generations, slow subscribers, dropped callers.
4. `FrameLanes`: the budgets and reassembly of the framing.

Theorems worth proving next go with those modules: that a cached answer is the one that was sent (`TurnSend`), and that
frames of one message are never joined with another's (`FrameLanes`).
