----------------------------- MODULE RecentFeed -----------------------------
(***************************************************************************)
(* The list of recent conversations of one Provider                        *)
(* (codepet-host/src/gateway/recent.rs and recent_conversations.rs).  The  *)
(* Host collects the list by many awaited queries, keeps it per reader (a  *)
(* view), hands it out page by page, throws it away when something it      *)
(* depends on changes, and then announces that on the event bus.  A page   *)
(* carries a fence, the bus cursor after which its reader will hear of     *)
(* every change that the page lacks.                                       *)
(*                                                                         *)
(* The content of the list is a version number: a change comes from the    *)
(* Provider or a read mark, and the Host observes it some time later.      *)
(* Rows are counted in chunks.  A row may also leave the list at a time of *)
(* its own (fourteen days after its update).  Every lock is held for one   *)
(* action; between two actions a request is at an await or between two     *)
(* locks.                                                                  *)
(***************************************************************************)
EXTENDS Naturals, Sequences, FiniteSets

CONSTANTS
  Requests,    \* conversation.recent calls in flight, each of its own client
  Views,       \* the ViewKeys: reader scopes of the Provider
  Limits,      \* the page sizes that clients ask for, in chunks
  None,        \* no snapshot, page, cursor or tail
  Permits,     \* recent_concurrency: 4
  MaxAttempts, \* how often a build is tried: 3
  MaxChunks,   \* Bounds the length of a list.
  MaxVersion,  \* Bounds the changes.
  MaxTime,     \* Bounds the clock.
  MaxBegun     \* Bounds the requests begun.

ASSUME NoneAssumption  == None \notin Nat
ASSUME BoundAssumption == /\ Permits \in Nat \ {0} /\ MaxAttempts \in Nat \ {0}
                          /\ {MaxChunks, MaxVersion, MaxTime, MaxBegun} \subseteq Nat
                          /\ 1 \in Limits /\ Limits \subseteq Nat \ {0}

VARIABLES
  version,   \* the content of the list
  inTransit, \* changes that the Host has not observed yet
  now,       \* the clock
  tracked,   \* is_tracked: some reader has asked for the list
  feed,      \* the Provider's part of RecentSnapshots, under its mutex
  taken,     \* take_invalidations returned a revision that is not published yet
  announced, \* how many recentChanged events are on the bus: its cursor
  built,     \* how many snapshots were installed: the nonce of the last
  begun,     \* how many requests have begun
  req,       \* the requests
  page       \* history: the last page each client was given

vars == <<version, inTransit, now, tracked, feed, taken, announced, built, begun, req, page>>

-----------------------------------------------------------------------------
Never     == MaxTime + 1
Max0(n)   == IF n > 0 THEN n ELSE 0
Least(a, b) == IF a < b THEN a ELSE b

\* A snapshot: the version of its oldest row, its revision, its chunks, the time its
\* first row leaves, the time its cutoff is counted from, and where its tail goes on
\* (None when the list is complete).
Snapshots == [nonce : Nat, ver : Nat, rev : Nat, rows : Seq(Nat), expiry : Nat,
              started : Nat, tail : Nat \cup {None}]

\* A cursor binds the snapshot, where to go on, and the fence of its first page.
Cursors == [nonce : Nat, offset : Nat, fence : Nat]

\* ProviderVersion and the snapshots of its views.  "invalidated" is a history: the
\* version at each invalidation; its length is both the epoch and the revision.
Feeds == [invalidated : Seq(Nat), pending : BOOLEAN, boundary : Nat,
          snaps : [Views -> Snapshots \cup {None}]]

Pages == [view : Views, nonce : Nat, ver : Nat, rev : Nat,
          expiry : Nat, fence : Nat, rows : Seq(Nat), end : Nat, more : BOOLEAN]

Stages == {"idle", "lookup", "lock", "acquire", "tailEpoch", "tail", "epoch", "fence",
           "collect"}

\* A request: its view, cursor and limit, and its local variables.
Calls == [pc : Stages, view : Views, cursor : Cursors \cup {None}, limit : Limits,
          attempt : 1 .. MaxAttempts, epoch : Nat, fence : Nat, ver : Nat,
          started : Nat, tail : Nat, needed : Nat]

TypeOK ==
  /\ version \in 0 .. MaxVersion /\ inTransit \subseteq 1 .. version
  /\ now \in 0 .. MaxTime
  /\ tracked \in BOOLEAN
  /\ feed \in Feeds
  /\ taken \in BOOLEAN /\ announced \in Nat
  /\ built \in Nat /\ begun \in 0 .. MaxBegun
  /\ req \in [Requests -> Calls]
  /\ page \in [Requests -> Pages \cup {None}]

Idle(k) == [pc |-> "idle", view |-> k, cursor |-> None, limit |-> 1, attempt |-> 1,
            epoch |-> 0, fence |-> 0, ver |-> 0, started |-> 0, tail |-> 0, needed |-> 0]

Init ==
  /\ version = 0 /\ inTransit = {}
  /\ now = 0
  /\ tracked = FALSE
  /\ feed = [invalidated |-> <<>>, pending |-> FALSE, boundary |-> Never,
             snaps |-> [k \in Views |-> None]]
  /\ taken = FALSE /\ announced = 0
  /\ built = 0 /\ begun = 0
  /\ \E k \in Views : req = [r \in Requests |-> Idle(k)]
  /\ page = [r \in Requests |-> None]

-----------------------------------------------------------------------------
\* RecentSnapshots: its methods as functions of the feed.

Epoch(f) == Len(f.invalidated)

Invalidated(f) ==
  [invalidated |-> Append(f.invalidated, version), pending |-> TRUE, boundary |-> Never,
   snaps |-> [k \in Views |-> None]]

\* What a look at the feed does first: a passed boundary invalidates it.
Refreshed(f) == IF now >= f.boundary THEN Invalidated(f) ELSE f

Offset(c) == IF c.cursor = None THEN 0 ELSE c.cursor.offset

\* The snapshot that page_with_fence and pending_tail consult is gone or another one.
Expired(f, c) ==
  LET s == f.snaps[c.view] IN c.cursor # None /\ (s # None => s.nonce # c.cursor.nonce)

\* page_with_fence refuses the cursor.
Refused(f, c) ==
  Expired(f, c) \/ (f.snaps[c.view] # None /\ Offset(c) > Len(f.snaps[c.view].rows))

\* The rows that the request wants are not all there: the answer is Ok(None).
Missing(f, c) ==
  LET s == f.snaps[c.view]
  IN  s # None => s.tail # None /\ Offset(c) + c.limit > Len(s.rows)

\* The page of a call; its fence is the cursor's, or the one given for a first page.
PageOf(f, c, fence) ==
  LET s   == f.snaps[c.view]
      end == Least(Offset(c) + c.limit, Len(s.rows))
  IN  [view |-> c.view, nonce |-> s.nonce, ver |-> s.ver, rev |-> s.rev,
       expiry |-> s.expiry, fence |-> IF c.cursor = None THEN fence ELSE c.cursor.fence,
       rows |-> SubSeq(s.rows, Offset(c) + 1, end), end |-> end,
       more |-> end < Len(s.rows) \/ s.tail # None]

\* Mutant of Armed: the latest list's boundary replaces the others'.
ArmedLast(f, leaves) == leaves

\* The boundary with rows that leave at "leaves": the earliest of all the views' rows.
Armed(f, leaves) == Least(f.boundary, leaves)

\* Mutant of Current: what was collected is installed whatever happened meanwhile.
CurrentAlways(f, c) == TRUE

\* Nothing has been invalidated since the call read the epoch.
Current(f, c) == Epoch(f) = c.epoch

Chunks(from, n) == [i \in 1 .. n |-> from + i]

-----------------------------------------------------------------------------
\* The world: the Provider, the readers' marks, the clock.

Change ==
  /\ version < MaxVersion
  /\ version' = version + 1
  /\ inTransit' = inTransit \cup {version + 1}
  /\ UNCHANGED <<now, tracked, feed, taken, announced, built, begun, req, page>>

TimePasses ==
  /\ now < MaxTime
  /\ now' = now + 1
  /\ UNCHANGED <<version, inTransit, tracked, feed, taken, announced, built, begun, req, page>>

\* Mutant of SnapshotExpires: the boundary goes with the snapshot.
SnapshotExpiresWhole(k) ==
  /\ feed.snaps[k] # None
  /\ feed' = [feed EXCEPT !.snaps[k] = None, !.boundary = Never]
  /\ UNCHANGED <<version, inTransit, now, tracked, taken, announced, built, begun, req, page>>

\* A snapshot's five minutes are over.  Who looks next drops it.
SnapshotExpires(k) ==
  /\ feed.snaps[k] # None
  /\ feed' = [feed EXCEPT !.snaps[k] = None]
  /\ UNCHANGED <<version, inTransit, now, tracked, taken, announced, built, begun, req, page>>

-----------------------------------------------------------------------------
\* The Host hears of changes and announces them.

\* An update is forwarded, a message sent, a read mark set, or a collection notices it.
Observe(v) ==
  /\ v \in inTransit
  /\ inTransit' = inTransit \ {v}
  /\ feed' = IF tracked THEN Invalidated(feed) ELSE feed
  /\ UNCHANGED <<version, now, tracked, taken, announced, built, begun, req, page>>

\* Mutant of TakeInvalidations: the tick does not look at the boundary.
TakePendingOnly ==
  /\ ~taken /\ feed.pending
  /\ feed' = [feed EXCEPT !.pending = FALSE]
  /\ taken' = TRUE
  /\ UNCHANGED <<version, inTransit, now, tracked, announced, built, begun, req, page>>

\* Every 250 ms the forwarding task takes what is pending, and then publishes it.
TakeInvalidations ==
  LET f == Refreshed(feed)
  IN  /\ ~taken /\ f.pending
      /\ feed' = [f EXCEPT !.pending = FALSE]
      /\ taken' = TRUE
      /\ UNCHANGED <<version, inTransit, now, tracked, announced, built, begun, req, page>>

PublishTaken ==
  /\ taken
  /\ announced' = announced + 1
  /\ taken' = FALSE
  /\ UNCHANGED <<version, inTransit, now, tracked, feed, built, begun, req, page>>

-----------------------------------------------------------------------------
\* A request (conversation_recent_for_scope).

At(r, stage)   == req[r].pc = stage
Goes(r, stage) == req' = [req EXCEPT ![r].pc = stage]
Fails(r)       == req' = [req EXCEPT ![r] = Idle(@.view)] /\ UNCHANGED page

Answers(r, p) ==
  /\ req' = [req EXCEPT ![r] = Idle(@.view)]
  /\ page' = [page EXCEPT ![r] = p]

Begin(r) ==
  /\ At(r, "idle") /\ begun < MaxBegun
  /\ begun' = begun + 1
  /\ tracked' = TRUE
  /\ \/ \E k \in Views, n \in Limits :
          req' = [req EXCEPT ![r] = [Idle(k) EXCEPT !.pc = "lookup", !.limit = n]]
     \/ /\ page[r] # None /\ page[r].more
        /\ LET p == page[r] IN
           req' = [req EXCEPT ![r] = [Idle(p.view) EXCEPT !.pc = "lookup",
                     !.cursor = [nonce |-> p.nonce, offset |-> p.end, fence |-> p.fence]]]
  /\ UNCHANGED <<version, inTransit, now, feed, taken, announced, built, page>>

\* page_with_fence, with the bus cursor of this moment as a first page's fence.  A miss
\* goes on to the next stage.
LookUp(r, next) ==
  LET f == Refreshed(feed)
      c == req[r]
  IN  /\ feed' = f
      /\ \/ Refused(f, c) /\ Fails(r)
         \/ ~Refused(f, c) /\ Missing(f, c) /\ Goes(r, next) /\ UNCHANGED page
         \/ ~Refused(f, c) /\ ~Missing(f, c) /\ Answers(r, PageOf(f, c, announced))
      /\ UNCHANGED <<version, inTransit, now, tracked, taken, announced, built, begun>>

Lookup(r) == At(r, "lookup") /\ LookUp(r, "lock")

\* Mutant of Permitted: a request with the build lock takes a permit, and awaits another.
PermittedTwice == {"acquire", "tailEpoch", "tail", "epoch", "fence", "collect"}

\* Who has the build lock of a view, and who a permit.
Permitted == {"tailEpoch", "tail", "epoch", "fence", "collect"}
Building  == {"acquire"} \cup Permitted

\* Mutant of Recheck: the views are built without a lock.
RecheckUnlocked(r) == At(r, "lock") /\ LookUp(r, "acquire")

\* With the build lock the request looks again.
Recheck(r) ==
  /\ At(r, "lock")
  /\ \A q \in Requests : req[q].view = req[r].view => req[q].pc \notin Building
  /\ LookUp(r, "acquire")

\* With a permit, pending_tail: go on with the list that is there, or build a new one.
PendingTail(r) ==
  LET c == req[r]
      s == feed.snaps[c.view]
  IN  /\ At(r, "acquire")
      /\ Cardinality({q \in Requests : req[q].pc \in Permitted}) < Permits
      /\ \/ s # None /\ Expired(feed, c) /\ Fails(r)
         \/ /\ s # None => ~Expired(feed, c) /\ s.tail = None
            /\ Goes(r, "epoch") /\ UNCHANGED page
         \/ /\ s # None /\ ~Expired(feed, c) /\ s.tail # None
            /\ req' = [req EXCEPT ![r].pc = "tailEpoch", ![r].tail = s.tail,
                                  ![r].started = s.started,
                                  ![r].needed = Max0(Offset(c) + c.limit - Len(s.rows))]
            /\ UNCHANGED page
      /\ UNCHANGED <<version, inTransit, now, tracked, feed, taken, announced, built, begun>>

TailEpoch(r) ==
  /\ At(r, "tailEpoch")
  /\ req' = [req EXCEPT ![r].pc = "tail", ![r].epoch = Epoch(feed)]
  /\ UNCHANGED <<version, inTransit, now, tracked, feed, taken, announced, built, begun, page>>

\* The next rows have come: n chunks that leave at x, the last of the list or not.  They
\* are appended unless the list has changed or one of them has left already.
AppendTail(r, n, more, x) ==
  LET c        == req[r]
      s        == feed.snaps[c.view]
      leaves   == IF n = 0 THEN Never ELSE x
      accepted == Current(feed, c) /\ s # None /\ now < leaves
      f        == Refreshed([feed EXCEPT
                    !.boundary = Armed(feed, leaves),
                    !.snaps[c.view] = [s EXCEPT !.rows = @ \o Chunks(c.tail, n),
                      !.expiry = Least(@, leaves),
                      !.tail = IF more THEN c.tail + n ELSE None]])
  IN  /\ At(r, "tail")
      /\ c.tail + n <= MaxChunks /\ (n < c.needed => ~more) /\ x > c.started
      /\ \/ ~accepted /\ Fails(r) /\ UNCHANGED feed
         \/ /\ accepted /\ feed' = f
            /\ \/ (Refused(f, c) \/ Missing(f, c)) /\ Fails(r)
               \/ /\ ~Refused(f, c) /\ ~Missing(f, c)
                  /\ Answers(r, PageOf(f, c, announced))
      /\ UNCHANGED <<version, inTransit, now, tracked, taken, announced, built, begun>>

\* The Provider refuses its cursor (the list is invalidated), or the query fails.
TailFails(r) ==
  /\ At(r, "tail")
  /\ feed' \in {Invalidated(feed), feed}
  /\ Fails(r)
  /\ UNCHANGED <<version, inTransit, now, tracked, taken, announced, built, begun>>

\* One attempt of a build: the epoch, the fence, the collection.
ReadEpoch(r) ==
  /\ At(r, "epoch")
  /\ req' = [req EXCEPT ![r].pc = "fence", ![r].epoch = Epoch(feed), ![r].started = now]
  /\ UNCHANGED <<version, inTransit, now, tracked, feed, taken, announced, built, begun, page>>

\* What happens from here on may be missing in what the queries return.
ReadFence(r) ==
  /\ At(r, "fence")
  /\ req' = [req EXCEPT ![r].pc = "collect", ![r].fence = announced, ![r].ver = version]
  /\ UNCHANGED <<version, inTransit, now, tracked, feed, taken, announced, built, begun, page>>

Retries(r) ==
  /\ req[r].attempt < MaxAttempts
  /\ req' = [req EXCEPT ![r].pc = "epoch", ![r].attempt = @ + 1]
  /\ UNCHANGED page

\* The queries disagree (retried), a query fails, or the generation has changed.
CollectFails(r) ==
  /\ At(r, "collect")
  /\ feed' = IF Current(feed, req[r]) THEN Invalidated(feed) ELSE feed
  /\ Retries(r) \/ Fails(r)
  /\ UNCHANGED <<version, inTransit, now, tracked, taken, announced, built, begun>>

\* The list is collected: n chunks that leave at x, the whole list or not.
Install(r, n, more, x) ==
  LET c        == req[r]
      first    == [c EXCEPT !.cursor = None]
      leaves   == IF n = 0 THEN Never ELSE x
      accepted == Current(feed, c) /\ now < leaves
      f        == Refreshed([feed EXCEPT
                    !.boundary = Armed(feed, leaves),
                    !.snaps[c.view] = [nonce |-> built + 1, ver |-> c.ver, rev |-> Epoch(feed),
                      rows |-> Chunks(0, n), expiry |-> leaves, started |-> c.started,
                      tail |-> IF more THEN n ELSE None]])
  IN  /\ At(r, "collect")
      /\ (n < c.limit => ~more) /\ x > c.started
      /\ \/ ~accepted /\ Retries(r) /\ UNCHANGED <<feed, built>>
         \/ ~accepted /\ c.attempt = MaxAttempts /\ Fails(r) /\ UNCHANGED <<feed, built>>
         \/ /\ accepted /\ feed' = f /\ built' = built + 1
            /\ \/ Missing(f, first) /\ Fails(r)
               \/ ~Missing(f, first) /\ Answers(r, PageOf(f, first, c.fence))
      /\ UNCHANGED <<version, inTransit, now, tracked, taken, announced, begun>>

\* The client goes away while the request awaits something, or a step outside the
\* collection fails (ensure_client, gateway_providers).
Drop(r) ==
  /\ req[r].pc \in {"lock", "acquire", "tail", "collect"}
  /\ Fails(r)
  /\ UNCHANGED <<version, inTransit, now, tracked, feed, taken, announced, built, begun>>

-----------------------------------------------------------------------------
Answering(r) ==
  \/ Lookup(r) \/ Recheck(r) \/ PendingTail(r)
  \/ TailEpoch(r) \/ TailFails(r) \/ ReadEpoch(r) \/ ReadFence(r) \/ CollectFails(r)
  \/ \E n \in 0 .. MaxChunks, more \in BOOLEAN, x \in 1 .. Never :
       AppendTail(r, n, more, x) \/ Install(r, n, more, x)

Next ==
  \/ Change \/ TimePasses \/ TakeInvalidations \/ PublishTaken
  \/ \E k \in Views : SnapshotExpires(k)
  \/ \E v \in 1 .. MaxVersion : Observe(v)
  \/ \E r \in Requests : Begin(r) \/ Answering(r) \/ Drop(r)

\* Changes are delivered, the forwarding task ticks, and queries end: the tasks run, the
\* locks and the semaphore are first come, first served.
Fairness ==
  /\ WF_vars(TakeInvalidations) /\ WF_vars(PublishTaken)
  /\ \A v \in 1 .. MaxVersion : WF_vars(Observe(v))
  /\ \A r \in Requests : WF_vars(Answering(r))

Spec     == Init /\ [][Next]_vars
FairSpec == Spec /\ Fairness

-----------------------------------------------------------------------------
\* An announcement comes after the page's fence, or is on its way.
Announced(p) == announced > p.fence
Warned(p)    == Announced(p) \/ taken \/ feed.pending

\* No page goes stale silently: when the list has changed since its oldest row was
\* collected, or one of its rows has left, an event after the page's fence tells its
\* reader, or will: it is pending, or the change is still on its way to the Host, or the
\* boundary that the next tick finds passed is armed (recent.rs:197-203, 242-254,
\* recent_conversations.rs:141-175, 195-202; the doc: nothing older is installed after
\* an event).
FenceCovers ==
  \A r \in Requests : page[r] # None =>
    LET p == page[r]
    IN  /\ Warned(p) \/ (p.ver + 1) .. version \subseteq inTransit
        /\ Warned(p) \/ now < p.expiry \/ now >= feed.boundary

\* A page has all that its revision announces: no change that the Host had observed, or
\* could have, when the revision began is missing in it.  A reader may drop a page whose
\* revision is older than one announced (recent_conversations.rs:186-213).
RevisionIncludes ==
  \A r \in Requests : page[r] # None /\ page[r].rev > 0 =>
    /\ page[r].rev <= Epoch(feed)
    /\ feed.invalidated[page[r].rev] <= page[r].ver

\* The pages of a list are consecutive parts of it, whoever else pages through it: none
\* of its rows comes twice and none is skipped (recent.rs:144-156, 179-192).
RowsContiguous ==
  \A r \in Requests : page[r] # None =>
    LET p == page[r]
    IN  \A i \in 1 .. Len(p.rows) : p.rows[i] = p.end - Len(p.rows) + i

\* A cursor never goes on in another list than its own: the request returns a page of
\* that list or an error (the doc: an old cursor is not joined to a new revision, and an
\* expired one is refused).
CursorKeepsList ==
  [][\A r \in Requests : req[r].cursor # None /\ page'[r] # page[r] =>
       page'[r].nonce = req[r].cursor.nonce]_vars

\* A stale page is announced after its fence in the end, or its reader has a fresh one.
Stale(r) ==
  /\ page[r] # None
  /\ page[r].ver < version \/ page[r].expiry <= now
  /\ ~Announced(page[r])

StaleIsAnnounced == \A r \in Requests : Stale(r) ~> ~Stale(r)

\* Every request ends: build lock, permits and retries let no request wait for ever
\* (recent.rs:144-178, 196-262).
EveryRequestEnds == \A r \in Requests : ~At(r, "idle") ~> At(r, "idle")
=============================================================================
