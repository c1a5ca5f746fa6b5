-------------------------- MODULE RecentFeedProofs --------------------------
(***************************************************************************)
(* The safety properties of RecentFeed, proved for any number of requests, *)
(* readers and permits and for any bounds.                                 *)
(*                                                                         *)
(* FenceCovers and RevisionIncludes speak of pages only, but what a page   *)
(* holds was fixed steps before: IInv says the same of every list in the   *)
(* feed and of every collection under way, as long as nothing has been     *)
(* invalidated since its epoch was read.  RowsContiguous needs RInv, which *)
(* adds to the order of the lists that one request at a time builds in a   *)
(* view, and that the tail it fetched is where the list still ends.        *)
(***************************************************************************)
EXTENDS RecentFeed, SequenceTheorems, TLAPS

-----------------------------------------------------------------------------
\* Types of what the operators of the feed return.

LEMMA IdleType == ASSUME NEW k \in Views PROVE Idle(k) \in Calls
BY BoundAssumption DEF Idle, Calls, Stages

LEMMA InvalidatedType ==
  ASSUME NEW f \in Feeds, version \in Nat PROVE Invalidated(f) \in Feeds
BY BoundAssumption DEF Invalidated, Feeds, Never

LEMMA RefreshedType ==
  ASSUME NEW f \in Feeds, version \in Nat PROVE Refreshed(f) \in Feeds
BY InvalidatedType DEF Refreshed

LEMMA ChunksType ==
  ASSUME NEW from \in Nat, NEW n \in Nat
  PROVE  Chunks(from, n) \in Seq(Nat) /\ Len(Chunks(from, n)) = n
BY DEF Chunks

LEMMA PageType ==
  ASSUME NEW f \in Feeds, NEW c \in Calls, NEW fence \in Nat, f.snaps[c.view] # None
  PROVE  PageOf(f, c, fence) \in Pages
<1> DEFINE s   == f.snaps[c.view]
           end == Least(Offset(c) + c.limit, Len(s.rows))
<1>1. s \in Snapshots
  BY DEF Feeds, Calls
<1>2. Offset(c) \in Nat /\ c.limit \in Nat \ {0} /\ c.view \in Views
  BY BoundAssumption DEF Calls, Offset, Cursors
<1>3. Len(s.rows) \in Nat /\ s.rows \in Seq(Nat)
  BY <1>1 DEF Snapshots
<1>4. end \in Nat /\ end <= Len(s.rows)
  BY <1>2, <1>3 DEF Least
<1>5. SubSeq(s.rows, Offset(c) + 1, end) \in Seq(Nat)
  <2>1. \A i \in Offset(c) + 1 .. end : s.rows[i] \in Nat
    <3> TAKE i \in Offset(c) + 1 .. end
    <3> HIDE DEF s, end
    <3>1. i \in 1 .. Len(s.rows)
      BY <1>2, <1>3, <1>4
    <3> QED
      BY <3>1, <1>3
  <2> QED
    BY <2>1, <1>2, <1>4, SubSeqProperties
<1>6. (IF c.cursor = None THEN fence ELSE c.cursor.fence) \in Nat
  BY DEF Calls, Cursors
<1>7. s.nonce \in Nat /\ s.ver \in Nat /\ s.rev \in Nat /\ s.expiry \in Nat
  BY <1>1 DEF Snapshots
<1>8. (end < Len(s.rows) \/ s.tail # None) \in BOOLEAN
  OBVIOUS
<1> QED
  BY <1>2, <1>4, <1>5, <1>6, <1>7, <1>8 DEF PageOf, Pages

-----------------------------------------------------------------------------
\* Type correctness.

LEMMA TypeInit == Init => TypeOK
<1> SUFFICES ASSUME Init PROVE TypeOK
  OBVIOUS
<1>1. feed \in Feeds
  BY BoundAssumption DEF Init, Feeds, Never
<1>2. req \in [Requests -> Calls]
  BY IdleType DEF Init
<1>3. inTransit \subseteq 1 .. version /\ version \in 0 .. MaxVersion /\ now \in 0 .. MaxTime
  BY BoundAssumption DEF Init
<1>4. begun \in 0 .. MaxBegun /\ built \in Nat /\ announced \in Nat
  BY BoundAssumption DEF Init
<1>5. tracked \in BOOLEAN /\ taken \in BOOLEAN
  BY DEF Init
<1>6. page \in [Requests -> Pages \cup {None}]
  BY DEF Init
<1> QED
  BY <1>1, <1>2, <1>3, <1>4, <1>5, <1>6 DEF TypeOK

\* The steps of the world and of the Host's tasks.
World ==
  \/ Change \/ TimePasses \/ TakeInvalidations \/ PublishTaken
  \/ \E k \in Views : SnapshotExpires(k)
  \/ \E v \in 1 .. MaxVersion : Observe(v)

LEMMA WorldType == ASSUME TypeOK, World PROVE TypeOK'
<1> USE BoundAssumption DEF TypeOK
<1>1. CASE Change
  BY <1>1 DEF Change
<1>2. CASE TimePasses
  BY <1>2 DEF TimePasses
<1>3. CASE TakeInvalidations
  <2>1. Refreshed(feed) \in Feeds
    BY RefreshedType
  <2>2. feed' \in Feeds
    BY <1>3, <2>1 DEF TakeInvalidations, Feeds
  <2> QED
    BY <1>3, <2>2 DEF TakeInvalidations
<1>4. CASE PublishTaken
  <2>1. announced' \in Nat
    BY <1>4 DEF PublishTaken
  <2>2. taken' \in BOOLEAN
    BY <1>4 DEF PublishTaken
  <2> QED
    BY <1>4, <2>1, <2>2 DEF PublishTaken
<1>5. ASSUME NEW k \in Views, SnapshotExpires(k) PROVE TypeOK'
  <2>1. feed' \in Feeds
    BY <1>5 DEF SnapshotExpires, Feeds
  <2> QED
    BY <1>5, <2>1 DEF SnapshotExpires
<1>6. ASSUME NEW v \in 1 .. MaxVersion, Observe(v) PROVE TypeOK'
  <2>1. feed' \in Feeds
    BY <1>6, InvalidatedType DEF Observe
  <2> QED
    BY <1>6, <2>1 DEF Observe
<1> QED
  BY <1>1, <1>2, <1>3, <1>4, <1>5, <1>6 DEF World

\* A request moves on: its record stays a call, and its page is a page.
LEMMA GoesType ==
  ASSUME TypeOK, NEW r \in Requests, NEW next \in Stages, Goes(r, next)
  PROVE  req' \in [Requests -> Calls]
BY DEF TypeOK, Goes, Calls

LEMMA FailsType ==
  ASSUME TypeOK, NEW r \in Requests, Fails(r)
  PROVE  req' \in [Requests -> Calls] /\ page' \in [Requests -> Pages \cup {None}]
<1>1. Idle(req[r].view) \in Calls
  BY IdleType DEF TypeOK, Calls
<1> QED
  BY <1>1 DEF TypeOK, Fails

LEMMA AnswersType ==
  ASSUME TypeOK, NEW r \in Requests, NEW p \in Pages, Answers(r, p)
  PROVE  req' \in [Requests -> Calls] /\ page' \in [Requests -> Pages \cup {None}]
<1>1. Idle(req[r].view) \in Calls
  BY IdleType DEF TypeOK, Calls
<1> QED
  BY <1>1 DEF TypeOK, Answers

LEMMA LookUpType ==
  ASSUME TypeOK, NEW r \in Requests, NEW next \in Stages, LookUp(r, next)
  PROVE  TypeOK'
<1> DEFINE f == Refreshed(feed)
           c == req[r]
<1>1. f \in Feeds /\ c \in Calls /\ announced \in Nat
  BY RefreshedType DEF TypeOK
<1>2. feed' = f
  BY DEF LookUp
<1>3. CASE Fails(r)
  BY <1>1, <1>2, <1>3, FailsType DEF LookUp, TypeOK
<1>4. CASE Goes(r, next) /\ UNCHANGED page
  BY <1>1, <1>2, <1>4, GoesType DEF LookUp, TypeOK
<1>5. CASE ~Missing(f, c) /\ Answers(r, PageOf(f, c, announced))
  <2>1. PageOf(f, c, announced) \in Pages
    BY <1>1, <1>5, PageType DEF Missing
  <2>2. /\ req' \in [Requests -> Calls]
        /\ page' \in [Requests -> Pages \cup {None}]
    BY <1>5, <2>1, AnswersType
  <2> QED
    BY <1>1, <1>2, <2>2 DEF LookUp, TypeOK
<1> QED
  BY <1>3, <1>4, <1>5 DEF LookUp

LEMMA FirstPageType ==
  ASSUME NEW i \in Calls, NEW n \in Limits
  PROVE  [i EXCEPT !.pc = "lookup", !.limit = n] \in Calls
BY DEF Calls, Stages

LEMMA NextPageType ==
  ASSUME NEW i \in Calls, NEW x \in Cursors
  PROVE  [i EXCEPT !.pc = "lookup", !.cursor = x] \in Calls
BY DEF Calls, Stages

LEMMA BeginType == ASSUME TypeOK, NEW r \in Requests, Begin(r) PROVE TypeOK'
<1>1. req' \in [Requests -> Calls]
  <2>1. ASSUME NEW k \in Views, NEW n \in Limits,
               req' = [req EXCEPT ![r] = [Idle(k) EXCEPT !.pc = "lookup", !.limit = n]]
        PROVE  req' \in [Requests -> Calls]
    <3>1. [Idle(k) EXCEPT !.pc = "lookup", !.limit = n] \in Calls
      BY IdleType, FirstPageType
    <3> QED
      BY <2>1, <3>1 DEF TypeOK
  <2>2. ASSUME page[r] # None,
               req' = [req EXCEPT ![r] = [Idle(page[r].view) EXCEPT !.pc = "lookup",
                         !.cursor = [nonce |-> page[r].nonce, offset |-> page[r].end,
                                     fence |-> page[r].fence]]]
        PROVE  req' \in [Requests -> Calls]
    <3>1. page[r] \in Pages
      BY <2>2 DEF TypeOK
    <3>2. [nonce |-> page[r].nonce, offset |-> page[r].end, fence |-> page[r].fence] \in Cursors
      BY <3>1 DEF Pages, Cursors
    <3>3. [Idle(page[r].view) EXCEPT !.pc = "lookup",
             !.cursor = [nonce |-> page[r].nonce, offset |-> page[r].end,
                         fence |-> page[r].fence]] \in Calls
      <4>1. Idle(page[r].view) \in Calls
        BY <3>1, IdleType DEF Pages
      <4> QED
        BY <4>1, <3>2, NextPageType
    <3> QED
      BY <2>2, <3>3 DEF TypeOK
  <2> QED
    BY <2>1, <2>2 DEF Begin
<1>2. tracked' \in BOOLEAN
  BY DEF Begin
<1>3. begun' \in 0 .. MaxBegun
  <2>1. begun < MaxBegun /\ begun' = begun + 1 /\ begun \in 0 .. MaxBegun
    BY DEF Begin, TypeOK
  <2> QED
    BY <2>1, BoundAssumption
<1> QED
  BY <1>1, <1>2, <1>3 DEF Begin, TypeOK

LEMMA PendingTailType == ASSUME TypeOK, NEW r \in Requests, PendingTail(r) PROVE TypeOK'
<1> DEFINE c == req[r]
           s == feed.snaps[c.view]
<1>1. c \in Calls /\ s \in Snapshots \cup {None}
  BY DEF TypeOK, Feeds, Calls
<1>2. CASE Fails(r)
  BY <1>2, FailsType DEF PendingTail, TypeOK
<1>3. CASE Goes(r, "epoch") /\ UNCHANGED page
  BY <1>3, GoesType DEF PendingTail, TypeOK, Stages
<1>4. CASE /\ s # None /\ ~Expired(feed, c) /\ s.tail # None
           /\ req' = [req EXCEPT ![r].pc = "tailEpoch", ![r].tail = s.tail,
                                 ![r].started = s.started,
                                 ![r].needed = Max0(Offset(c) + c.limit - Len(s.rows))]
           /\ UNCHANGED page
  <2> HIDE DEF s, c
  <2>1. s \in Snapshots /\ s.tail \in Nat /\ s.started \in Nat /\ Len(s.rows) \in Nat
    BY <1>1, <1>4 DEF Snapshots
  <2>2. Offset(c) \in Nat /\ c.limit \in Nat
    BY <1>1, BoundAssumption DEF Calls, Cursors, Offset
  <2>3. Max0(Offset(c) + c.limit - Len(s.rows)) \in Nat
    BY <2>1, <2>2 DEF Max0
  <2>4. req' \in [Requests -> Calls]
    BY <1>1, <1>4, <2>1, <2>3 DEF TypeOK, Calls, Stages, c
  <2> QED
    BY <1>4, <2>4 DEF PendingTail, TypeOK
<1> QED
  BY <1>2, <1>3, <1>4 DEF PendingTail

\* The boundary with new rows, and the feed with a new or longer list, are well typed.
LEMMA ArmedType ==
  ASSUME NEW f \in Feeds, NEW leaves \in Nat
  PROVE  Armed(f, leaves) \in Nat /\ Armed(f, leaves) <= f.boundary /\ Armed(f, leaves) <= leaves
BY DEF Armed, Least, Feeds

LEMMA ArmedFeedType ==
  ASSUME NEW f \in Feeds, NEW k \in Views, NEW s \in Snapshots, NEW leaves \in Nat
  PROVE  [f EXCEPT !.boundary = Armed(f, leaves), !.snaps[k] = s] \in Feeds
BY ArmedType DEF Feeds

\* The arguments of AppendTail and Install.
Shapes(n, x) == n \in 0 .. MaxChunks /\ x \in 1 .. Never

LEMMA LeavesType ==
  ASSUME NEW n, NEW x, Shapes(n, x)
  PROVE  /\ n \in Nat /\ x \in Nat
         /\ (IF n = 0 THEN Never ELSE x) \in Nat /\ (IF n = 0 THEN Never ELSE x) <= Never
BY BoundAssumption DEF Shapes, Never

\* A list with more rows is a list, and so is a new one.
LEMMA LongerType ==
  ASSUME NEW s \in Snapshots, NEW t \in Nat, NEW n \in Nat, NEW leaves \in Nat,
         NEW more \in BOOLEAN
  PROVE  [s EXCEPT !.rows = @ \o Chunks(t, n), !.expiry = Least(@, leaves),
                   !.tail = IF more THEN t + n ELSE None] \in Snapshots
<1>1. s.rows \o Chunks(t, n) \in Seq(Nat)
  BY ChunksType DEF Snapshots
<1>2. Least(s.expiry, leaves) \in Nat
  BY DEF Least, Snapshots
<1>3. (IF more THEN t + n ELSE None) \in Nat \cup {None}
  OBVIOUS
<1> QED
  BY <1>1, <1>2, <1>3 DEF Snapshots

LEMMA NewType ==
  ASSUME NEW c \in Calls, NEW nonce \in Nat, NEW rev \in Nat, NEW n \in Nat,
         NEW leaves \in Nat, NEW more \in BOOLEAN
  PROVE  [nonce |-> nonce, ver |-> c.ver, rev |-> rev, rows |-> Chunks(0, n),
          expiry |-> leaves, started |-> c.started,
          tail |-> IF more THEN n ELSE None] \in Snapshots
<1>1. Chunks(0, n) \in Seq(Nat)
  BY ChunksType
<1> QED
  BY <1>1 DEF Snapshots, Calls

LEMMA AppendTailType ==
  ASSUME TypeOK, NEW r \in Requests, NEW n, NEW more \in BOOLEAN, NEW x, Shapes(n, x),
         AppendTail(r, n, more, x)
  PROVE  TypeOK'
<1> DEFINE c      == req[r]
           s      == feed.snaps[c.view]
           leaves == IF n = 0 THEN Never ELSE x
           new    == [s EXCEPT !.rows = @ \o Chunks(c.tail, n), !.expiry = Least(@, leaves),
                               !.tail = IF more THEN c.tail + n ELSE None]
           g      == [feed EXCEPT !.boundary = Armed(feed, leaves), !.snaps[c.view] = new]
           f      == Refreshed(g)
<1>1. c \in Calls /\ c.view \in Views /\ c.tail \in Nat /\ announced \in Nat /\ feed \in Feeds
  BY DEF TypeOK, Calls
<1>2. CASE Fails(r) /\ UNCHANGED feed
  BY <1>2, FailsType DEF AppendTail, TypeOK
<1>3. CASE s # None /\ feed' = f /\ (Fails(r) \/ (~Missing(f, c) /\ Answers(r, PageOf(f, c, announced))))
  <2>1. s \in Snapshots
    BY <1>1, <1>3 DEF Feeds
  <2>2. new \in Snapshots
    BY <1>1, <2>1, LeavesType, LongerType
  <2>3. g \in Feeds
    BY <1>1, <2>2, LeavesType, ArmedFeedType
  <2>4. f \in Feeds
    BY <2>3, RefreshedType DEF TypeOK
  <2>5. /\ req' \in [Requests -> Calls]
        /\ page' \in [Requests -> Pages \cup {None}]
    <3>1. CASE Fails(r)
      BY <3>1, FailsType
    <3>2. CASE ~Missing(f, c) /\ Answers(r, PageOf(f, c, announced))
      <4> HIDE DEF f
      <4>1. f.snaps[c.view] # None
        BY <3>2 DEF Missing
      <4>2. PageOf(f, c, announced) \in Pages
        BY <1>1, <2>4, <4>1, PageType
      <4> QED
        BY <3>2, <4>2, AnswersType
    <3> QED
      BY <1>3, <3>1, <3>2
  <2> HIDE DEF f
  <2> QED
    BY <1>3, <2>4, <2>5 DEF AppendTail, TypeOK
<1> QED
  BY <1>2, <1>3 DEF AppendTail

LEMMA InstallType ==
  ASSUME TypeOK, NEW r \in Requests, NEW n, NEW more \in BOOLEAN, NEW x, Shapes(n, x),
         Install(r, n, more, x)
  PROVE  TypeOK'
<1> DEFINE c      == req[r]
           first  == [c EXCEPT !.cursor = None]
           leaves == IF n = 0 THEN Never ELSE x
           new    == [nonce |-> built + 1, ver |-> c.ver, rev |-> Epoch(feed),
                      rows |-> Chunks(0, n), expiry |-> leaves, started |-> c.started,
                      tail |-> IF more THEN n ELSE None]
           g      == [feed EXCEPT !.boundary = Armed(feed, leaves), !.snaps[c.view] = new]
           f      == Refreshed(g)
<1>1. c \in Calls /\ c.view \in Views /\ c.fence \in Nat /\ feed \in Feeds /\ built \in Nat
  BY DEF TypeOK, Calls
<1>2. CASE Fails(r) /\ UNCHANGED <<feed, built>>
  BY <1>2, FailsType DEF Install, TypeOK
<1>3. CASE Retries(r) /\ UNCHANGED <<feed, built>>
  <2>1. req' \in [Requests -> Calls] /\ page' = page
    BY <1>1, <1>3, BoundAssumption DEF Retries, TypeOK, Calls, Stages
  <2> QED
    BY <1>3, <2>1 DEF Install, TypeOK
<1>4. CASE /\ feed' = f /\ built' = built + 1
           /\ Fails(r) \/ (~Missing(f, first) /\ Answers(r, PageOf(f, first, c.fence)))
  <2>1. Epoch(feed) \in Nat
    BY <1>1 DEF Epoch, Feeds
  <2>2. new \in Snapshots
    BY <1>1, <2>1, LeavesType, NewType
  <2>3. g \in Feeds
    BY <1>1, <2>2, LeavesType, ArmedFeedType
  <2>4. f \in Feeds
    BY <2>3, RefreshedType DEF TypeOK
  <2>5. first \in Calls
    BY <1>1 DEF Calls
  <2>6. /\ req' \in [Requests -> Calls]
        /\ page' \in [Requests -> Pages \cup {None}]
    <3>1. CASE Fails(r)
      BY <3>1, FailsType
    <3>2. CASE ~Missing(f, first) /\ Answers(r, PageOf(f, first, c.fence))
      <4> HIDE DEF f, first
      <4>1. f.snaps[first.view] # None
        BY <3>2 DEF Missing
      <4>2. PageOf(f, first, c.fence) \in Pages
        BY <1>1, <2>4, <2>5, <4>1, PageType
      <4> QED
        BY <3>2, <4>2, AnswersType
    <3> QED
      BY <1>4, <3>1, <3>2
  <2> HIDE DEF f
  <2> QED
    BY <1>1, <1>4, <2>4, <2>6 DEF Install, TypeOK
<1> QED
  BY <1>2, <1>3, <1>4 DEF Install

\* The remaining steps of a request.
LEMMA OtherType ==
  ASSUME TypeOK, NEW r \in Requests,
         TailEpoch(r) \/ TailFails(r) \/ ReadEpoch(r) \/ ReadFence(r) \/ CollectFails(r) \/ Drop(r)
  PROVE  TypeOK'
<1>1. /\ req[r] \in Calls /\ Epoch(feed) \in Nat /\ feed \in Feeds /\ announced \in Nat
      /\ version \in Nat /\ now \in Nat /\ Invalidated(feed) \in Feeds
  BY BoundAssumption, InvalidatedType DEF TypeOK, Epoch, Feeds
<1>2. CASE TailEpoch(r)
  <2>1. req' \in [Requests -> Calls]
    BY <1>1, <1>2 DEF TailEpoch, TypeOK, Calls, Stages
  <2> QED
    BY <1>2, <2>1 DEF TailEpoch, TypeOK
<1>3. CASE TailFails(r)
  BY <1>1, <1>3, FailsType DEF TailFails, TypeOK
<1>4. CASE ReadEpoch(r)
  <2>1. req' \in [Requests -> Calls]
    BY <1>1, <1>4 DEF ReadEpoch, TypeOK, Calls, Stages
  <2> QED
    BY <1>4, <2>1 DEF ReadEpoch, TypeOK
<1>5. CASE ReadFence(r)
  <2>1. req' \in [Requests -> Calls]
    BY <1>1, <1>5 DEF ReadFence, TypeOK, Calls, Stages
  <2> QED
    BY <1>5, <2>1 DEF ReadFence, TypeOK
<1>6. CASE CollectFails(r)
  <2>1. feed' \in Feeds
    BY <1>1, <1>6 DEF CollectFails
  <2>2. /\ req' \in [Requests -> Calls]
        /\ page' \in [Requests -> Pages \cup {None}]
    <3>1. CASE Fails(r)
      BY <3>1, FailsType
    <3>2. CASE Retries(r)
      BY <1>1, <3>2, BoundAssumption DEF Retries, TypeOK, Calls, Stages
    <3> QED
      BY <1>6, <3>1, <3>2 DEF CollectFails
  <2> QED
    BY <1>6, <2>1, <2>2 DEF CollectFails, TypeOK
<1>7. CASE Drop(r)
  BY <1>7, FailsType DEF Drop, TypeOK
<1> QED
  BY <1>2, <1>3, <1>4, <1>5, <1>6, <1>7

\* The steps of a request, in the shape the proofs take them.
LEMMA Steps ==
  Next => \/ World
          \/ \E r \in Requests : Begin(r) \/ Lookup(r) \/ Recheck(r) \/ PendingTail(r)
          \/ \E r \in Requests : \/ TailEpoch(r) \/ TailFails(r) \/ ReadEpoch(r)
                                 \/ ReadFence(r) \/ CollectFails(r) \/ Drop(r)
          \/ \E r \in Requests : \E n, x : \E more \in BOOLEAN :
               Shapes(n, x) /\ (AppendTail(r, n, more, x) \/ Install(r, n, more, x))
BY DEF Next, World, Answering, Shapes

LEMMA NextType == ASSUME TypeOK, [Next]_vars PROVE TypeOK'
<1>1. CASE World
  BY <1>1, WorldType
<1>2. ASSUME NEW r \in Requests, Begin(r) \/ Lookup(r) \/ Recheck(r) \/ PendingTail(r)
      PROVE  TypeOK'
  BY <1>2, BeginType, LookUpType, PendingTailType DEF Lookup, Recheck, Stages
<1>3. ASSUME NEW r \in Requests, \/ TailEpoch(r) \/ TailFails(r) \/ ReadEpoch(r)
                                 \/ ReadFence(r) \/ CollectFails(r) \/ Drop(r)
      PROVE  TypeOK'
  BY <1>3, OtherType
<1>4. ASSUME NEW r \in Requests, NEW n, NEW x, NEW more \in BOOLEAN, Shapes(n, x),
             AppendTail(r, n, more, x) \/ Install(r, n, more, x)
      PROVE  TypeOK'
  BY <1>4, AppendTailType, InstallType
<1>5. CASE UNCHANGED vars
  BY <1>5 DEF vars, TypeOK
<1> QED
  BY <1>1, <1>2, <1>3, <1>4, <1>5, Steps

\* Type correctness of every behaviour.
THEOREM TypeCorrect == Spec => []TypeOK
<1>1. Init => TypeOK
  BY TypeInit
<1>2. TypeOK /\ [Next]_vars => TypeOK'
  BY NextType
<1> QED
  BY <1>1, <1>2, PTL DEF Spec

-----------------------------------------------------------------------------
\* What a step does to the lists, the pages and the warnings.

\* Every change that a list of version v lacks is still on its way to the Host, before a
\* step and after it.
Fresh(v)      == v + 1 .. version \subseteq inTransit
FreshAfter(v) == v + 1 .. version' \subseteq inTransit'

\* The reader of a page with fence x has been told, or will be.
Warn(x)      == announced > x \/ taken \/ feed.pending
WarnAfter(x) == announced' > x \/ taken' \/ feed'.pending

\* A list is what it was, or gone; or it has grown, or is new, and its boundary is armed.
GrownList(k) ==
  /\ feed.snaps[k] # None
  /\ feed'.snaps[k].ver = feed.snaps[k].ver /\ feed'.snaps[k].rev = feed.snaps[k].rev
  /\ feed.boundary <= feed.snaps[k].expiry => feed'.boundary <= feed'.snaps[k].expiry

NewList(k) ==
  \E r \in Requests : /\ req[r].pc = "collect" /\ Current(feed, req[r])
                      /\ feed'.snaps[k].ver = req[r].ver /\ feed'.snaps[k].rev = req[r].epoch
                      /\ feed'.boundary <= feed'.snaps[k].expiry

KeptList(k) ==
  \/ feed'.snaps[k] \in {feed.snaps[k], None}
  \/ GrownList(k) \/ NewList(k)

\* A page is what it was, or one of a list that is there.
KeptPage(r) ==
  \/ page'[r] = page[r]
  \/ \E k \in Views : /\ feed'.snaps[k] # None
                      /\ page'[r].ver = feed'.snaps[k].ver
                      /\ page'[r].rev = feed'.snaps[k].rev
                      /\ page'[r].expiry = feed'.snaps[k].expiry

\* A collection goes on or begins now.
KeptBuild(r) ==
  req'[r].pc = "collect" =>
    \/ req'[r] = req[r]
    \/ req'[r].ver = version /\ version' = version /\ req'[r].epoch = req[r].epoch

\* The lists are invalidated.
Throws ==
  /\ feed'.invalidated = Append(feed.invalidated, version) /\ version' = version
  /\ feed'.pending \/ taken'
  /\ \A k \in Views : feed'.snaps[k] = None
  /\ page' = page
  /\ \A r \in Requests : req'[r].pc = "collect" => req'[r] = req[r]

\* They are not.
Keeps ==
  /\ feed'.invalidated = feed.invalidated /\ version' >= version
  /\ \A x \in Nat : x <= announced /\ Warn(x) => WarnAfter(x)
  /\ \A v \in Nat : Fresh(v) => FreshAfter(v)
  /\ feed'.boundary <= feed.boundary
  /\ \A k \in Views : KeptList(k)
  /\ \A r \in Requests : KeptPage(r) /\ KeptBuild(r)

\* A change that the Host hears of before anybody has asked for the list.
Unheard ==
  /\ ~tracked /\ UNCHANGED <<version, tracked, feed, taken, announced, req, page>>
  /\ inTransit' \subseteq inTransit

Kinds == Throws \/ Keeps \/ Unheard

\* Invalidating any feed with the same history throws the lists away.
LEMMA Throwing ==
  ASSUME TypeOK, NEW g \in Feeds, g.invalidated = feed.invalidated, feed' = Invalidated(g),
         UNCHANGED <<version, page>>,
         \A r \in Requests : req'[r].pc = "collect" => req'[r] = req[r]
  PROVE  Throws
BY DEF Throws, Invalidated, Feeds

LEMMA WorldKinds == ASSUME TypeOK, World PROVE Kinds
<1>0. /\ version \in Nat /\ announced \in Nat /\ feed \in Feeds /\ feed.boundary \in Nat
      /\ inTransit \subseteq 1 .. version
  BY BoundAssumption DEF TypeOK, Feeds
<1>1. CASE Change
  <2>1. \A v \in Nat : Fresh(v) => FreshAfter(v)
    BY <1>0, <1>1 DEF Change, Fresh, FreshAfter
  <2> QED
    BY <1>0, <1>1, <2>1 DEF Change, Kinds, Keeps, Warn, WarnAfter, KeptList, KeptPage, KeptBuild
<1>2. CASE TimePasses
  BY <1>0, <1>2 DEF TimePasses, Kinds, Keeps, Warn, WarnAfter, Fresh, FreshAfter, KeptList, KeptPage, KeptBuild
<1>3. CASE TakeInvalidations
  <2>1. CASE now >= feed.boundary
    <3>1. feed' = [Invalidated(feed) EXCEPT !.pending = FALSE] /\ taken'
      BY <1>3, <2>1 DEF TakeInvalidations, Refreshed
    <3>2. Throws
      BY <1>0, <1>3, <3>1 DEF TakeInvalidations, Throws, Invalidated
    <3> QED
      BY <3>2 DEF Kinds
  <2>2. CASE ~(now >= feed.boundary)
    <3>1. feed' = [feed EXCEPT !.pending = FALSE] /\ taken'
      BY <1>3, <2>2 DEF TakeInvalidations, Refreshed
    <3>2. Keeps
      BY <1>0, <1>3, <3>1
      DEF TakeInvalidations, Keeps, Warn, WarnAfter, Fresh, FreshAfter, KeptList, KeptPage, KeptBuild, Feeds
    <3> QED
      BY <3>2 DEF Kinds
  <2> QED
    BY <2>1, <2>2
<1>4. CASE PublishTaken
  <2>1. \A x \in Nat : x <= announced /\ Warn(x) => WarnAfter(x)
    BY <1>0, <1>4 DEF PublishTaken, Warn, WarnAfter
  <2> QED
    BY <1>0, <1>4, <2>1 DEF PublishTaken, Kinds, Keeps, Fresh, FreshAfter, KeptList, KeptPage, KeptBuild
<1>5. ASSUME NEW k \in Views, SnapshotExpires(k) PROVE Kinds
  <2>1. feed' = [feed EXCEPT !.snaps[k] = None]
    BY <1>5 DEF SnapshotExpires
  <2>2. \A j \in Views : feed'.snaps[j] \in {feed.snaps[j], None}
    BY <1>0, <2>1 DEF Feeds
  <2>3. /\ feed'.invalidated = feed.invalidated /\ feed'.boundary = feed.boundary
        /\ feed'.pending = feed.pending
    BY <1>0, <2>1 DEF Feeds
  <2> QED
    BY <1>0, <1>5, <2>2, <2>3
    DEF SnapshotExpires, Kinds, Keeps, Warn, WarnAfter, Fresh, FreshAfter, KeptList, KeptPage, KeptBuild
<1>6. ASSUME NEW v \in 1 .. MaxVersion, Observe(v) PROVE Kinds
  <2>1. CASE tracked
    <3>1. Throws
      BY <1>0, <1>6, <2>1, Throwing DEF Observe
    <3> QED
      BY <3>1 DEF Kinds
  <2>2. CASE ~tracked
    BY <1>6, <2>2 DEF Observe, Kinds, Unheard
  <2> QED
    BY <2>1, <2>2
<1> QED
  BY <1>1, <1>2, <1>3, <1>4, <1>5, <1>6 DEF World

\* The steps of a request that leave the feed alone.
LEMMA Quiet ==
  ASSUME TypeOK, UNCHANGED <<version, inTransit, feed, taken, announced, page>>,
         \A r \in Requests : KeptBuild(r)
  PROVE  Kinds
<1>1. version \in Nat /\ feed.boundary \in Nat
  BY BoundAssumption DEF TypeOK, Feeds
<1> QED
  BY <1>1 DEF Kinds, Keeps, Warn, WarnAfter, Fresh, FreshAfter, KeptList, KeptPage

\* A request that ends or looks further is not collecting.
LEMMA EndsBuild ==
  ASSUME TypeOK, NEW r \in Requests,
         Fails(r) \/ (\E p : Answers(r, p)) \/ Goes(r, "lock") \/ Goes(r, "acquire")
         \/ Goes(r, "epoch") \/ Retries(r)
  PROVE  \A q \in Requests : req'[q].pc = "collect" => req'[q] = req[q]
<1> SUFFICES ASSUME NEW q \in Requests, req'[q].pc = "collect" PROVE req'[q] = req[q]
  OBVIOUS
<1>1. req[r] \in Calls /\ req \in [Requests -> Calls]
  BY DEF TypeOK
<1>2. CASE q # r
  BY <1>1, <1>2 DEF Fails, Answers, Goes, Retries
<1>3. CASE q = r
  <2>1. req'[r].pc # "collect"
    BY <1>1 DEF Fails, Answers, Goes, Retries, Idle, Calls
  <2> QED
    BY <1>3, <2>1
<1> QED
  BY <1>2, <1>3

LEMMA LookUpKinds ==
  ASSUME TypeOK, NEW r \in Requests, NEW next \in {"lock", "acquire"}, LookUp(r, next)
  PROVE  Kinds
<1> DEFINE c == req[r]
<1>0. /\ version \in Nat /\ announced \in Nat /\ feed \in Feeds /\ feed.boundary \in Nat
      /\ c \in Calls /\ c.view \in Views
  BY BoundAssumption DEF TypeOK, Feeds, Calls
<1>1. \A q \in Requests : req'[q].pc = "collect" => req'[q] = req[q]
  BY EndsBuild DEF LookUp
<1>2. \A q \in Requests : KeptBuild(q)
  BY <1>1 DEF KeptBuild
<1>3. CASE now >= feed.boundary
  <2>1. feed' = Invalidated(feed)
    BY <1>3 DEF LookUp, Refreshed
  <2>2. feed'.snaps[c.view] = None
    BY <1>0, <2>1 DEF Invalidated
  <2>3. page' = page
    BY <2>2 DEF LookUp, Missing, Fails
  <2>4. Throws
    BY <1>0, <1>1, <2>1, <2>3, Throwing DEF LookUp
  <2> QED
    BY <2>4 DEF Kinds
<1>4. CASE ~(now >= feed.boundary)
  <2>1. Refreshed(feed) = feed /\ UNCHANGED <<version, inTransit, feed, taken, announced>>
    BY <1>4 DEF LookUp, Refreshed
  <2>2. CASE page' = page
    BY <1>2, <2>1, <2>2, Quiet
  <2>3. CASE ~Missing(feed, c) /\ Answers(r, PageOf(feed, c, announced))
    <3>1. \A q \in Requests : KeptPage(q)
      <4> SUFFICES ASSUME NEW q \in Requests PROVE KeptPage(q)
        OBVIOUS
      <4>1. CASE q # r
        BY <2>3, <4>1 DEF Answers, TypeOK, KeptPage
      <4>2. CASE q = r
        <5>1. page'[r] = PageOf(feed, c, announced)
          BY <2>3 DEF Answers, TypeOK
        <5>2. feed'.snaps[c.view] # None /\ feed' = feed
          BY <2>1, <2>3 DEF Missing
        <5> QED
          BY <1>0, <4>2, <5>1, <5>2 DEF PageOf, KeptPage
      <4> QED
        BY <4>1, <4>2
    <3> QED
      BY <1>0, <1>2, <2>1, <3>1 DEF Kinds, Keeps, Warn, WarnAfter, Fresh, FreshAfter, KeptList
  <2> QED
    BY <2>1, <2>2, <2>3 DEF LookUp, Fails
<1> QED
  BY <1>3, <1>4

LEMMA CallKinds ==
  ASSUME TypeOK, NEW r \in Requests, Begin(r) \/ Lookup(r) \/ Recheck(r) \/ PendingTail(r)
  PROVE  Kinds
<1>0. req \in [Requests -> Calls]
  BY DEF TypeOK
<1>1. CASE Begin(r)
  <2>1. \A q \in Requests : q # r => req'[q] = req[q]
    BY <1>0, <1>1 DEF Begin
  <2>2. req'[r].pc = "lookup"
    <3>1. \A k, n : [Idle(k) EXCEPT !.pc = "lookup", !.limit = n].pc = "lookup"
      BY DEF Idle
    <3>2. \A k, x : [Idle(k) EXCEPT !.pc = "lookup", !.cursor = x].pc = "lookup"
      BY DEF Idle
    <3>3. ASSUME NEW k \in Views, NEW n \in Limits,
                 req' = [req EXCEPT ![r] = [Idle(k) EXCEPT !.pc = "lookup", !.limit = n]]
          PROVE  req'[r].pc = "lookup"
      BY <1>0, <3>1, <3>3
    <3>4. ASSUME NEW k, NEW i,
                 req' = [req EXCEPT ![r] = [Idle(k) EXCEPT !.pc = "lookup", !.cursor = i]]
          PROVE  req'[r].pc = "lookup"
      BY <1>0, <3>2, <3>4
    <3> QED
      BY <1>1, <3>3, <3>4 DEF Begin
  <2> QED
    BY <1>1, <2>1, <2>2, Quiet DEF Begin, KeptBuild
<1>2. CASE Lookup(r) \/ Recheck(r)
  BY <1>2, LookUpKinds DEF Lookup, Recheck
<1>3. CASE PendingTail(r)
  <2>1. \A q \in Requests : q # r => req'[q] = req[q]
    BY <1>0, <1>3 DEF PendingTail, Fails, Goes
  <2>2. req'[r].pc # "collect"
    BY <1>0, <1>3 DEF PendingTail, Fails, Goes, Idle, Calls
  <2>3. page' = page
    BY <1>3 DEF PendingTail, Fails
  <2> QED
    BY <1>3, <2>1, <2>2, <2>3, Quiet DEF PendingTail, KeptBuild
<1> QED
  BY <1>1, <1>2, <1>3

LEMMA OtherKinds ==
  ASSUME TypeOK, NEW r \in Requests,
         TailEpoch(r) \/ TailFails(r) \/ ReadEpoch(r) \/ ReadFence(r) \/ CollectFails(r) \/ Drop(r)
  PROVE  Kinds
<1>0. req \in [Requests -> Calls] /\ feed \in Feeds
  BY DEF TypeOK
<1>1. CASE TailEpoch(r)
  BY <1>0, <1>1, Quiet DEF TailEpoch, KeptBuild, Calls
<1>2. CASE ReadEpoch(r)
  BY <1>0, <1>2, Quiet DEF ReadEpoch, KeptBuild, Calls
<1>3. CASE ReadFence(r)
  <2>1. req'[r].ver = version /\ version' = version /\ req'[r].epoch = req[r].epoch
    BY <1>0, <1>3 DEF ReadFence, Calls
  <2>2. \A q \in Requests : q # r => req'[q] = req[q]
    BY <1>0, <1>3 DEF ReadFence
  <2> QED
    BY <1>3, <2>1, <2>2, Quiet DEF ReadFence, KeptBuild
<1>4. CASE Drop(r)
  BY <1>4, EndsBuild, Quiet DEF Drop, Fails, KeptBuild
<1>5. CASE TailFails(r) \/ CollectFails(r)
  <2>1. Fails(r) \/ Retries(r)
    BY <1>5 DEF TailFails, CollectFails
  <2>2. \A q \in Requests : req'[q].pc = "collect" => req'[q] = req[q]
    BY <2>1, EndsBuild
  <2>3. page' = page
    BY <2>1 DEF Fails, Retries
  <2>4. CASE feed' = feed
    BY <1>5, <2>2, <2>3, <2>4, Quiet DEF TailFails, CollectFails, KeptBuild
  <2>5. CASE feed' = Invalidated(feed)
    <3>1. Throws
      BY <1>0, <1>5, <2>2, <2>3, <2>5, Throwing DEF TailFails, CollectFails
    <3> QED
      BY <3>1 DEF Kinds
  <2> QED
    BY <1>5, <2>4, <2>5 DEF TailFails, CollectFails
<1> QED
  BY <1>1, <1>2, <1>3, <1>4, <1>5

LEMMA InstallKinds ==
  ASSUME TypeOK, NEW r \in Requests, NEW n, NEW more \in BOOLEAN, NEW x, Shapes(n, x),
         Install(r, n, more, x)
  PROVE  Kinds
<1> DEFINE c      == req[r]
           first  == [c EXCEPT !.cursor = None]
           leaves == IF n = 0 THEN Never ELSE x
           new    == [nonce |-> built + 1, ver |-> c.ver, rev |-> Epoch(feed),
                      rows |-> Chunks(0, n), expiry |-> leaves, started |-> c.started,
                      tail |-> IF more THEN n ELSE None]
           g      == [feed EXCEPT !.boundary = Armed(feed, leaves), !.snaps[c.view] = new]
           f      == Refreshed(g)
<1>0. /\ version \in Nat /\ announced \in Nat /\ feed \in Feeds /\ feed.boundary \in Nat
      /\ c \in Calls /\ c.view \in Views /\ built \in Nat /\ Epoch(feed) \in Nat
      /\ first.view = c.view
  <2>1. c \in Calls /\ feed \in Feeds
    BY DEF TypeOK
  <2>2. first.view = c.view
    BY <2>1 DEF Calls
  <2>3. version \in Nat /\ announced \in Nat /\ built \in Nat
    BY BoundAssumption DEF TypeOK
  <2>4. feed.boundary \in Nat /\ Epoch(feed) \in Nat
    BY <2>1 DEF Feeds, Epoch
  <2>5. c.view \in Views
    BY <2>1 DEF Calls
  <2> QED
    BY <2>1, <2>2, <2>3, <2>4, <2>5
<1>1. \A q \in Requests : req'[q].pc = "collect" => req'[q] = req[q]
  <2>1. Fails(r) \/ Retries(r) \/ \E p : Answers(r, p)
    BY DEF Install
  <2> QED
    BY <2>1, EndsBuild
<1>2. CASE UNCHANGED feed /\ (Fails(r) \/ Retries(r))
  BY <1>1, <1>2, Quiet DEF Install, Fails, Retries, KeptBuild
<1>3. CASE /\ Current(feed, c) /\ feed' = f
           /\ \/ Missing(f, first) /\ Fails(r)
              \/ ~Missing(f, first) /\ Answers(r, PageOf(f, first, c.fence))
  <2>1. new \in Snapshots
    BY <1>0, LeavesType, NewType
  <2>2. g \in Feeds /\ Armed(feed, leaves) <= feed.boundary /\ Armed(feed, leaves) <= leaves
    BY <1>0, <2>1, LeavesType, ArmedType, ArmedFeedType
  <2>3. g.invalidated = feed.invalidated /\ g.boundary = Armed(feed, leaves)
        /\ g.pending = feed.pending /\ g.snaps = [feed.snaps EXCEPT ![c.view] = new]
    BY <1>0 DEF Feeds
  <2> HIDE DEF g
  <2>4. CASE now >= g.boundary
    <3>1. feed' = Invalidated(g)
      BY <1>3, <2>4 DEF Refreshed
    <3>2. f.snaps[c.view] = None
      BY <1>0, <1>3, <3>1 DEF Invalidated
    <3>3. page' = page
      BY <1>0, <1>3, <3>2 DEF Missing, Fails
    <3>4. Throws
      BY <1>1, <2>2, <2>3, <3>1, <3>3, Throwing DEF Install
    <3> QED
      BY <3>4 DEF Kinds
  <2>5. CASE ~(now >= g.boundary)
    <3>1. f = g /\ feed' = g
      BY <1>3, <2>5 DEF Refreshed
    <3>2. new.ver = c.ver /\ new.rev = c.epoch /\ new.expiry = leaves
      BY <1>0, <1>3 DEF Current
    <3> HIDE DEF new, f
    <3>3. g.snaps[c.view] = new /\ \A k \in Views : k # c.view => g.snaps[k] = feed.snaps[k]
      BY <1>0, <2>3 DEF Feeds
    <3>4. c.pc = "collect"
      BY DEF Install, At
    <3>5. NewList(c.view)
      BY <1>0, <1>3, <2>2, <2>3, <3>1, <3>2, <3>3, <3>4 DEF NewList
    <3>6. \A k \in Views : KeptList(k)
      BY <3>1, <3>3, <3>5 DEF KeptList
    <3>7. \A q \in Requests : KeptPage(q)
      <4> SUFFICES ASSUME NEW q \in Requests PROVE KeptPage(q)
        OBVIOUS
      <4>1. CASE page'[q] = page[q]
        BY <4>1 DEF KeptPage
      <4>2. CASE page'[q] # page[q]
        <5>1. q = r /\ ~Missing(f, first) /\ page'[r] = PageOf(f, first, c.fence)
          BY <1>3, <4>2 DEF Answers, Fails, TypeOK
        <5>2. feed'.snaps[c.view] # None
          BY <1>0, <3>1, <5>1 DEF Missing
        <5> QED
          BY <1>0, <3>1, <5>1, <5>2 DEF PageOf, KeptPage
      <4> QED
        BY <4>1, <4>2
    <3>8. \A q \in Requests : KeptBuild(q)
      BY <1>1 DEF KeptBuild
    <3> QED
      BY <1>0, <2>2, <2>3, <3>1, <3>6, <3>7, <3>8 DEF Install, Kinds, Keeps, Warn, WarnAfter, Fresh, FreshAfter
  <2> QED
    BY <2>4, <2>5
<1> QED
  BY <1>2, <1>3 DEF Install

LEMMA AppendTailKinds ==
  ASSUME TypeOK, NEW r \in Requests, NEW n, NEW more \in BOOLEAN, NEW x, Shapes(n, x),
         AppendTail(r, n, more, x)
  PROVE  Kinds
<1> DEFINE c      == req[r]
           s      == feed.snaps[c.view]
           leaves == IF n = 0 THEN Never ELSE x
           new    == [s EXCEPT !.rows = @ \o Chunks(c.tail, n), !.expiry = Least(@, leaves),
                               !.tail = IF more THEN c.tail + n ELSE None]
           g      == [feed EXCEPT !.boundary = Armed(feed, leaves), !.snaps[c.view] = new]
           f      == Refreshed(g)
<1>0. /\ version \in Nat /\ announced \in Nat /\ feed \in Feeds /\ feed.boundary \in Nat
      /\ c \in Calls /\ c.view \in Views /\ c.tail \in Nat
  BY BoundAssumption DEF TypeOK, Feeds, Calls
<1>1. \A q \in Requests : req'[q].pc = "collect" => req'[q] = req[q]
  <2>1. Fails(r) \/ \E p : Answers(r, p)
    BY DEF AppendTail
  <2> QED
    BY <2>1, EndsBuild
<1>2. CASE UNCHANGED feed /\ Fails(r)
  BY <1>1, <1>2, Quiet DEF AppendTail, Fails, KeptBuild
<1>3. CASE /\ s # None /\ feed' = f
           /\ \/ Fails(r)
              \/ ~Missing(f, c) /\ Answers(r, PageOf(f, c, announced))
  <2>1. s \in Snapshots
    BY <1>0, <1>3 DEF Feeds
  <2>2. new \in Snapshots
    BY <1>0, <2>1, LeavesType, LongerType
  <2>3. g \in Feeds /\ Armed(feed, leaves) <= feed.boundary /\ Armed(feed, leaves) <= leaves
    BY <1>0, <2>2, LeavesType, ArmedType, ArmedFeedType
  <2>4. g.invalidated = feed.invalidated /\ g.boundary = Armed(feed, leaves)
        /\ g.pending = feed.pending /\ g.snaps = [feed.snaps EXCEPT ![c.view] = new]
    BY <1>0 DEF Feeds
  <2> HIDE DEF g
  <2>5. CASE now >= g.boundary
    <3>1. feed' = Invalidated(g)
      BY <1>3, <2>5 DEF Refreshed
    <3>2. f.snaps[c.view] = None
      BY <1>0, <1>3, <3>1 DEF Invalidated
    <3>3. page' = page
      BY <1>0, <1>3, <3>2 DEF Missing, Fails
    <3>4. Throws
      BY <1>1, <2>3, <2>4, <3>1, <3>3, Throwing DEF AppendTail
    <3> QED
      BY <3>4 DEF Kinds
  <2>6. CASE ~(now >= g.boundary)
    <3>1. f = g /\ feed' = g
      BY <1>3, <2>6 DEF Refreshed
    <3>2. /\ new.ver = s.ver /\ new.rev = s.rev
          /\ new.expiry = Least(s.expiry, leaves)
      BY <2>1 DEF Snapshots
    <3> HIDE DEF new, f
    <3>3. g.snaps[c.view] = new /\ \A k \in Views : k # c.view => g.snaps[k] = feed.snaps[k]
      BY <1>0, <2>4 DEF Feeds
    <3>4. GrownList(c.view)
      <4>1. s.expiry \in Nat /\ leaves \in Nat
        BY <2>1, LeavesType DEF Snapshots
      <4>2. g.boundary \in Nat /\ g.boundary <= feed.boundary /\ g.boundary <= leaves
        BY <1>0, <2>3, <2>4 DEF Feeds
      <4> HIDE DEF leaves, s
      <4>3. feed.boundary <= s.expiry => g.boundary <= new.expiry
        BY <1>0, <3>2, <4>1, <4>2 DEF Least
      <4> QED
        BY <1>0, <1>3, <3>1, <3>2, <3>3, <4>3 DEF GrownList, s
    <3>5. \A k \in Views : KeptList(k)
      BY <3>1, <3>3, <3>4 DEF KeptList
    <3>6. \A q \in Requests : KeptPage(q)
      <4> SUFFICES ASSUME NEW q \in Requests PROVE KeptPage(q)
        OBVIOUS
      <4>1. CASE page'[q] = page[q]
        BY <4>1 DEF KeptPage
      <4>2. CASE page'[q] # page[q]
        <5>1. q = r /\ ~Missing(f, c) /\ page'[r] = PageOf(f, c, announced)
          BY <1>3, <4>2 DEF Answers, Fails, TypeOK
        <5>2. feed'.snaps[c.view] # None
          BY <1>0, <3>1, <5>1 DEF Missing
        <5> QED
          BY <1>0, <3>1, <5>1, <5>2 DEF PageOf, KeptPage
      <4> QED
        BY <4>1, <4>2
    <3>7. \A q \in Requests : KeptBuild(q)
      BY <1>1 DEF KeptBuild
    <3> QED
      BY <1>0, <2>3, <2>4, <3>1, <3>5, <3>6, <3>7 DEF AppendTail, Kinds, Keeps, Warn, WarnAfter, Fresh, FreshAfter
  <2> QED
    BY <2>5, <2>6
<1> QED
  BY <1>2, <1>3 DEF AppendTail

LEMMA NextKinds == ASSUME TypeOK, Next PROVE Kinds
<1>1. CASE World
  BY <1>1, WorldKinds
<1>2. ASSUME NEW r \in Requests, Begin(r) \/ Lookup(r) \/ Recheck(r) \/ PendingTail(r)
      PROVE  Kinds
  BY <1>2, CallKinds
<1>3. ASSUME NEW r \in Requests, \/ TailEpoch(r) \/ TailFails(r) \/ ReadEpoch(r)
                                 \/ ReadFence(r) \/ CollectFails(r) \/ Drop(r)
      PROVE  Kinds
  BY <1>3, OtherKinds
<1>4. ASSUME NEW r \in Requests, NEW n, NEW x, NEW more \in BOOLEAN, Shapes(n, x),
             AppendTail(r, n, more, x) \/ Install(r, n, more, x)
      PROVE  Kinds
  BY <1>4, AppendTailKinds, InstallKinds
<1> QED
  BY <1>1, <1>2, <1>3, <1>4, Steps

-----------------------------------------------------------------------------
\* The inductive invariant.

\* Before the first request there is no list, no page, and no request.
Tracking ==
  tracked \/ /\ \A k \in Views : feed.snaps[k] = None
             /\ \A r \in Requests : req[r].pc = "idle" /\ page[r] = None

\* No fence is ahead of the bus.
FencesPast ==
  \A r \in Requests :
    /\ req[r].fence <= announced
    /\ req[r].cursor # None => req[r].cursor.fence <= announced
    /\ page[r] # None => page[r].fence <= announced

\* No request has an epoch that was not reached, no invalidation a version.
EpochsPast == \A r \in Requests : req[r].epoch <= Epoch(feed)

HistoryPast == \A i \in 1 .. Epoch(feed) : feed.invalidated[i] <= version

\* A list that is there lacks only changes in transit, and its boundary is armed.
ListsFresh ==
  \A k \in Views : feed.snaps[k] # None =>
    Fresh(feed.snaps[k].ver) /\ feed.boundary <= feed.snaps[k].expiry

\* What is being collected lacks only changes in transit, or will be refused.
BuildsFresh ==
  \A r \in Requests : req[r].pc = "collect" /\ Current(feed, req[r]) => Fresh(req[r].ver)

\* A page that lacks more than that has been warned of.
PagesCovered ==
  \A r \in Requests : page[r] # None =>
    \/ Warn(page[r].fence)
    \/ Fresh(page[r].ver) /\ feed.boundary <= page[r].expiry

\* Version "ver" has all that revision "rev" announces.
Includes(rev, ver) ==
  rev <= Epoch(feed) /\ (rev > 0 => feed.invalidated[rev] <= ver)

ListsInclude ==
  \A k \in Views : feed.snaps[k] # None => Includes(feed.snaps[k].rev, feed.snaps[k].ver)

BuildsInclude ==
  \A r \in Requests : req[r].pc = "collect" => Includes(req[r].epoch, req[r].ver)

PagesInclude ==
  \A r \in Requests : page[r] # None => Includes(page[r].rev, page[r].ver)

IInv ==
  /\ TypeOK
  /\ Tracking /\ FencesPast /\ EpochsPast /\ HistoryPast
  /\ ListsFresh /\ BuildsFresh /\ PagesCovered
  /\ ListsInclude /\ BuildsInclude /\ PagesInclude

LEMMA InitIInv == Init => IInv
<1> SUFFICES ASSUME Init PROVE IInv
  OBVIOUS
<1>1. TypeOK
  BY TypeInit
<1>2. \A r \in Requests : /\ req[r].pc = "idle" /\ req[r].cursor = None
                          /\ req[r].fence = 0 /\ req[r].epoch = 0
  BY DEF Init, Idle
<1>3. /\ \A k \in Views : feed.snaps[k] = None
      /\ \A r \in Requests : page[r] = None
      /\ feed.invalidated = <<>> /\ announced = 0
  BY DEF Init
<1>4. Epoch(feed) = 0
  BY <1>3 DEF Epoch
<1> QED
  BY <1>1, <1>2, <1>3, <1>4
  DEF IInv, Tracking, FencesPast, EpochsPast, HistoryPast, ListsFresh, BuildsFresh,
      PagesCovered, ListsInclude, BuildsInclude, PagesInclude

-----------------------------------------------------------------------------
\* The history only grows.

LEMMA HistoryGrows ==
  ASSUME TypeOK, Kinds
  PROVE  /\ Epoch(feed) \in Nat /\ Epoch(feed') \in Nat
         /\ Throws => Epoch(feed') = Epoch(feed) + 1
                      /\ feed'.invalidated[Epoch(feed) + 1] = version
         /\ ~Throws => Epoch(feed') = Epoch(feed)
         /\ Epoch(feed) <= Epoch(feed')
         /\ \A i \in 1 .. Epoch(feed) : feed'.invalidated[i] = feed.invalidated[i]
<1>1. feed.invalidated \in Seq(Nat) /\ version \in Nat
  BY BoundAssumption DEF TypeOK, Feeds
<1>2. CASE Throws
  <2>1. feed'.invalidated = Append(feed.invalidated, version)
    BY <1>2 DEF Throws
  <2> QED
    BY <1>1, <1>2, <2>1 DEF Epoch
<1>3. CASE ~Throws
  <2>1. feed'.invalidated = feed.invalidated
    BY <1>3 DEF Kinds, Keeps, Unheard
  <2> QED
    BY <1>1, <1>3, <2>1 DEF Epoch
<1> QED
  BY <1>2, <1>3

LEMMA IncludesStays ==
  ASSUME TypeOK, Kinds, NEW rev \in Nat, NEW ver \in Nat, Includes(rev, ver)
  PROVE  rev <= Epoch(feed') /\ (rev > 0 => feed'.invalidated[rev] <= ver)
BY HistoryGrows DEF Includes

LEMMA NextHistory ==
  ASSUME TypeOK, TypeOK', Kinds, HistoryPast
  PROVE  HistoryPast'
<1> SUFFICES ASSUME NEW i \in 1 .. Epoch(feed') PROVE feed'.invalidated[i] <= version'
  BY DEF HistoryPast, Epoch
<1>1. version \in Nat /\ version' \in Nat /\ version <= version'
  BY BoundAssumption DEF TypeOK, Kinds, Throws, Keeps, Unheard
<1>2. feed.invalidated \in Seq(Nat)
  BY DEF TypeOK, Feeds
<1>3. CASE i \in 1 .. Epoch(feed)
  <2>1. feed'.invalidated[i] = feed.invalidated[i] /\ feed.invalidated[i] \in Nat
    BY <1>2, <1>3, HistoryGrows DEF Epoch
  <2> QED
    BY <1>1, <1>3, <2>1 DEF HistoryPast
<1>4. CASE i \notin 1 .. Epoch(feed)
  <2>1. Throws /\ i = Epoch(feed) + 1
    BY <1>4, HistoryGrows
  <2>2. feed'.invalidated[i] = version
    BY <2>1, HistoryGrows
  <2> QED
    BY <1>1, <2>2
<1> QED
  BY <1>3, <1>4

-----------------------------------------------------------------------------
\* What a step does to a request's fence, cursor and epoch, and to its page's fence.

Moves(q) ==
  /\ req'[q].fence \in {req[q].fence, 0, announced}
  /\ req'[q].cursor # None =>
       \/ req'[q].cursor = req[q].cursor
       \/ page[q] # None /\ req'[q].cursor.fence = page[q].fence
  /\ req'[q].epoch \in {req[q].epoch, 0, Epoch(feed)}
  /\ \/ page'[q] = page[q]
     \/ page'[q].fence \in {announced, req[q].fence}
     \/ req[q].cursor # None /\ page'[q].fence = req[q].cursor.fence

\* A request that ends, goes on or is tried again moves so.
LEMMA EndMoves ==
  ASSUME TypeOK, NEW r \in Requests,
         \/ Fails(r) \/ (\E next : Goes(r, next) /\ UNCHANGED page) \/ Retries(r)
         \/ \E p : Answers(r, p) /\ \/ p.fence \in {announced, req[r].fence}
                                    \/ req[r].cursor # None /\ p.fence = req[r].cursor.fence
  PROVE  \A q \in Requests : Moves(q)
<1>1. req \in [Requests -> Calls] /\ page \in [Requests -> Pages \cup {None}]
  BY DEF TypeOK
<1>2. CASE Fails(r)
  BY <1>1, <1>2 DEF Fails, Moves, Idle
<1>3. ASSUME NEW next, Goes(r, next), UNCHANGED page PROVE \A q \in Requests : Moves(q)
  BY <1>1, <1>3 DEF Goes, Moves, Calls
<1>4. CASE Retries(r)
  BY <1>1, <1>4 DEF Retries, Moves, Calls
<1>5. ASSUME NEW p, Answers(r, p),
             \/ p.fence \in {announced, req[r].fence}
             \/ req[r].cursor # None /\ p.fence = req[r].cursor.fence
      PROVE  \A q \in Requests : Moves(q)
  BY <1>1, <1>5 DEF Answers, Moves, Idle
<1> QED
  BY <1>2, <1>3, <1>4, <1>5

LEMMA PageFence ==
  ASSUME NEW f, NEW c, NEW fence
  PROVE  PageOf(f, c, fence).fence = IF c.cursor = None THEN fence ELSE c.cursor.fence
BY DEF PageOf

LEMMA NextMoves == ASSUME TypeOK, Next PROVE \A q \in Requests : Moves(q)
<1>0. req \in [Requests -> Calls] /\ page \in [Requests -> Pages \cup {None}]
  BY DEF TypeOK
<1>1. CASE World
  BY <1>1 DEF World, Change, TimePasses, TakeInvalidations, PublishTaken, SnapshotExpires,
             Observe, Moves
<1>2. ASSUME NEW r \in Requests, Begin(r) PROVE \A q \in Requests : Moves(q)
  <2>1. \A q \in Requests : q # r => req'[q] = req[q]
    BY <1>0, <1>2 DEF Begin
  <2>2. ASSUME NEW k \in Views, NEW n \in Limits,
               req' = [req EXCEPT ![r] = [Idle(k) EXCEPT !.pc = "lookup", !.limit = n]]
        PROVE  Moves(r)
    <3>1. req'[r] = [Idle(k) EXCEPT !.pc = "lookup", !.limit = n]
      BY <1>0, <2>2
    <3>2. req'[r].fence = 0 /\ req'[r].cursor = None /\ req'[r].epoch = 0
      BY <3>1 DEF Idle
    <3> QED
      BY <1>2, <3>2 DEF Begin, Moves
  <2>3. ASSUME page[r] # None,
               req' = [req EXCEPT ![r] = [Idle(page[r].view) EXCEPT !.pc = "lookup",
                         !.cursor = [nonce |-> page[r].nonce, offset |-> page[r].end,
                                     fence |-> page[r].fence]]]
        PROVE  Moves(r)
    <3>1. req'[r] = [Idle(page[r].view) EXCEPT !.pc = "lookup",
                       !.cursor = [nonce |-> page[r].nonce, offset |-> page[r].end,
                                   fence |-> page[r].fence]]
      BY <1>0, <2>3
    <3>2. req'[r].fence = 0 /\ req'[r].cursor.fence = page[r].fence /\ req'[r].epoch = 0
      BY <3>1 DEF Idle
    <3> QED
      BY <1>2, <2>3, <3>2 DEF Begin, Moves
  <2>4. Moves(r)
    BY <1>2, <2>2, <2>3 DEF Begin
  <2> QED
    BY <1>2, <2>1, <2>4 DEF Begin, Moves
<1>3. ASSUME NEW r \in Requests, NEW next, LookUp(r, next) PROVE \A q \in Requests : Moves(q)
  BY <1>3, EndMoves, PageFence DEF LookUp
<1>4. ASSUME NEW r \in Requests, PendingTail(r) PROVE \A q \in Requests : Moves(q)
  <2>1. CASE Fails(r) \/ (Goes(r, "epoch") /\ UNCHANGED page)
    BY <2>1, EndMoves
  <2>2. ASSUME NEW t, NEW u, NEW v,
               req' = [req EXCEPT ![r].pc = "tailEpoch", ![r].tail = t, ![r].started = u,
                                  ![r].needed = v],
               UNCHANGED page
        PROVE  \A q \in Requests : Moves(q)
    BY <1>0, <2>2 DEF Moves, Calls
  <2> QED
    BY <1>4, <2>1, <2>2 DEF PendingTail
<1>5. ASSUME NEW r \in Requests, TailEpoch(r) \/ ReadEpoch(r) \/ ReadFence(r)
      PROVE  \A q \in Requests : Moves(q)
  BY <1>0, <1>5 DEF TailEpoch, ReadEpoch, ReadFence, Moves, Calls
<1>6. ASSUME NEW r \in Requests, TailFails(r) \/ CollectFails(r) \/ Drop(r)
      PROVE  \A q \in Requests : Moves(q)
  BY <1>6, EndMoves DEF TailFails, CollectFails, Drop
<1>7. ASSUME NEW r \in Requests, NEW n, NEW x, NEW more, AppendTail(r, n, more, x)
      PROVE  \A q \in Requests : Moves(q)
  <2>1. Fails(r) \/ \E f : Answers(r, PageOf(f, req[r], announced))
    BY <1>7 DEF AppendTail
  <2> QED
    BY <2>1, EndMoves, PageFence
<1>8. ASSUME NEW r \in Requests, NEW n, NEW x, NEW more, Install(r, n, more, x)
      PROVE  \A q \in Requests : Moves(q)
  <2>1. \/ Fails(r) \/ Retries(r)
        \/ \E f : Answers(r, PageOf(f, [req[r] EXCEPT !.cursor = None], req[r].fence))
    BY <1>8 DEF Install
  <2>2. [req[r] EXCEPT !.cursor = None].cursor = None
    BY <1>0 DEF Calls
  <2>3. ASSUME NEW f, Answers(r, PageOf(f, [req[r] EXCEPT !.cursor = None], req[r].fence))
        PROVE  \A q \in Requests : Moves(q)
    <3> DEFINE c == [req[r] EXCEPT !.cursor = None]
    <3>1. PageOf(f, c, req[r].fence).fence = req[r].fence
      <4>1. c.cursor = None
        BY <2>2
      <4> HIDE DEF c
      <4> QED
        BY <4>1, PageFence
    <3> QED
      BY <2>3, <3>1, EndMoves
  <2> QED
    BY <2>1, <2>3, EndMoves
<1> QED
  BY <1>1, <1>2, <1>3, <1>4, <1>5, <1>6, <1>7, <1>8, Steps DEF Lookup, Recheck

\* The bus only grows, and who is tracked stays so.
LEMMA NextGrows ==
  ASSUME Next PROVE announced' \in {announced, announced + 1} /\ (tracked => tracked')
<1>1. CASE World
  BY <1>1 DEF World, Change, TimePasses, TakeInvalidations, PublishTaken, SnapshotExpires,
             Observe
<1>2. ASSUME NEW r \in Requests, Begin(r) \/ Lookup(r) \/ Recheck(r) \/ PendingTail(r)
      PROVE  announced' = announced /\ (tracked => tracked')
  <2>1. CASE Begin(r)
    BY <2>1 DEF Begin
  <2>2. ASSUME NEW next, LookUp(r, next) PROVE announced' = announced /\ tracked' = tracked
    BY <2>2 DEF LookUp
  <2>3. CASE PendingTail(r)
    BY <2>3 DEF PendingTail
  <2> QED
    BY <1>2, <2>1, <2>2, <2>3 DEF Lookup, Recheck
<1>3. ASSUME NEW r \in Requests, \/ TailEpoch(r) \/ TailFails(r) \/ ReadEpoch(r)
                                 \/ ReadFence(r) \/ CollectFails(r) \/ Drop(r)
      PROVE  announced' = announced /\ tracked' = tracked
  BY <1>3 DEF TailEpoch, TailFails, ReadEpoch, ReadFence, CollectFails, Drop
<1>4. ASSUME NEW r \in Requests, NEW n, NEW x, NEW more,
             AppendTail(r, n, more, x) \/ Install(r, n, more, x)
      PROVE  announced' = announced /\ tracked' = tracked
  BY <1>4 DEF AppendTail, Install
<1> QED
  BY <1>1, <1>2, <1>3, <1>4, Steps

LEMMA NextFences ==
  ASSUME TypeOK, TypeOK', Next, FencesPast, EpochsPast
  PROVE  FencesPast' /\ EpochsPast'
<1>1. announced \in Nat /\ announced' \in Nat /\ announced <= announced'
  BY NextGrows DEF TypeOK
<1>2. Epoch(feed) \in Nat /\ Epoch(feed') \in Nat /\ Epoch(feed) <= Epoch(feed')
  BY NextKinds, HistoryGrows
<1> SUFFICES ASSUME NEW q \in Requests
             PROVE  /\ req'[q].fence <= announced'
                    /\ req'[q].cursor # None => req'[q].cursor.fence <= announced'
                    /\ page'[q] # None => page'[q].fence <= announced'
                    /\ req'[q].epoch <= Epoch(feed')
  BY DEF FencesPast, EpochsPast, Epoch
<1>3. Moves(q)
  BY NextMoves
<1>4. req[q] \in Calls /\ req'[q] \in Calls /\ page[q] \in Pages \cup {None}
      /\ page'[q] \in Pages \cup {None}
  BY DEF TypeOK
<1>5. req[q].fence \in Nat /\ req[q].fence <= announced /\ req[q].epoch \in Nat
      /\ req[q].epoch <= Epoch(feed)
  BY <1>4 DEF Calls, FencesPast, EpochsPast
<1>6. req'[q].fence <= announced'
  BY <1>1, <1>3, <1>5 DEF Moves
<1>7. req'[q].epoch <= Epoch(feed')
  BY <1>2, <1>3, <1>5 DEF Moves
<1>8. page[q] # None => page[q].fence \in Nat /\ page[q].fence <= announced
  BY <1>4 DEF Pages, FencesPast
<1>9. req[q].cursor # None => req[q].cursor.fence \in Nat /\ req[q].cursor.fence <= announced
  BY <1>4 DEF Calls, Cursors, FencesPast
<1>10. req'[q].cursor # None => req'[q].cursor.fence <= announced'
  BY <1>1, <1>3, <1>8, <1>9 DEF Moves
<1>11. page'[q] # None => page'[q].fence <= announced'
  BY <1>1, <1>3, <1>5, <1>8, <1>9 DEF Moves
<1> QED
  BY <1>6, <1>7, <1>10, <1>11

LEMMA NextTracking == ASSUME TypeOK, Next, Tracking PROVE Tracking'
<1>1. CASE tracked
  <2>1. tracked'
    BY <1>1, NextGrows
  <2> QED
    BY <2>1 DEF Tracking
<1>2. CASE ~tracked
  <2>1. /\ \A k \in Views : feed.snaps[k] = None
        /\ \A r \in Requests : req[r].pc = "idle" /\ page[r] = None
    BY <1>2 DEF Tracking
  <2>2. World \/ \E r \in Requests : Begin(r)
    <3>1. ASSUME NEW r \in Requests, Lookup(r) \/ Recheck(r) \/ PendingTail(r) PROVE FALSE
      BY <2>1, <3>1 DEF Lookup, Recheck, PendingTail, At
    <3>2. ASSUME NEW r \in Requests, \/ TailEpoch(r) \/ TailFails(r) \/ ReadEpoch(r)
                                     \/ ReadFence(r) \/ CollectFails(r) \/ Drop(r)
          PROVE  FALSE
      BY <2>1, <3>2 DEF TailEpoch, TailFails, ReadEpoch, ReadFence, CollectFails, Drop, At
    <3>3. ASSUME NEW r \in Requests, NEW n, NEW x, NEW more,
                 AppendTail(r, n, more, x) \/ Install(r, n, more, x)
          PROVE  FALSE
      BY <2>1, <3>3 DEF AppendTail, Install, At
    <3> QED
      BY <3>1, <3>2, <3>3, Steps
  <2>3. CASE World
    <3>1. \A k \in Views : feed'.snaps[k] = None
      BY <2>1, <2>3, WorldKinds DEF Kinds, Throws, Keeps, Unheard, KeptList, GrownList,
         NewList
    <3>2. req' = req /\ page' = page
      BY <2>3 DEF World, Change, TimePasses, TakeInvalidations, PublishTaken,
         SnapshotExpires, Observe
    <3> QED
      BY <2>1, <3>1, <3>2 DEF Tracking
  <2>4. ASSUME NEW r \in Requests, Begin(r) PROVE Tracking'
    BY <2>4 DEF Begin, Tracking
  <2> QED
    BY <2>2, <2>3, <2>4
<1> QED
  BY <1>1, <1>2

-----------------------------------------------------------------------------
\* The invariant is inductive.

LEMMA NextLists ==
  ASSUME IInv, TypeOK', Kinds
  PROVE  ListsFresh' /\ ListsInclude'
<1>0. TypeOK /\ Tracking /\ EpochsPast /\ ListsFresh /\ ListsInclude /\ BuildsFresh /\ BuildsInclude
  BY DEF IInv
<1> SUFFICES ASSUME NEW k \in Views, feed'.snaps[k] # None
             PROVE  /\ FreshAfter(feed'.snaps[k].ver)
                    /\ feed'.boundary <= feed'.snaps[k].expiry
                    /\ feed'.snaps[k].rev <= Epoch(feed')
                    /\ feed'.snaps[k].rev > 0 =>
                         feed'.invalidated[feed'.snaps[k].rev] <= feed'.snaps[k].ver
  BY DEF ListsFresh, ListsInclude, Includes, Epoch, Fresh, FreshAfter
<1>1. CASE Throws
  BY <1>1 DEF Throws
<1>2. CASE Unheard
  BY <1>0, <1>2 DEF Unheard, Tracking
<1>3. CASE Keeps
  <2> DEFINE s == feed.snaps[k]
             t == feed'.snaps[k]
  <2>1. t \in Snapshots /\ s \in Snapshots \cup {None}
        /\ feed'.boundary \in Nat /\ feed.boundary \in Nat
    BY <1>0 DEF TypeOK, Feeds
  <2>2. t.ver \in Nat /\ t.rev \in Nat /\ t.expiry \in Nat
    BY <2>1 DEF Snapshots
  <2>3. feed'.boundary <= feed.boundary /\ \A v \in Nat : Fresh(v) => FreshAfter(v)
    BY <1>3 DEF Keeps
  <2>4. ASSUME s # None, t.ver = s.ver, t.rev = s.rev,
               feed.boundary <= s.expiry => feed'.boundary <= t.expiry
        PROVE  /\ FreshAfter(t.ver) /\ feed'.boundary <= t.expiry
               /\ t.rev <= Epoch(feed') /\ (t.rev > 0 => feed'.invalidated[t.rev] <= t.ver)
    <3>1. Fresh(s.ver) /\ feed.boundary <= s.expiry /\ Includes(s.rev, s.ver)
      BY <1>0, <2>4 DEF ListsFresh, ListsInclude
    <3> HIDE DEF s, t
    <3>2. FreshAfter(t.ver) /\ feed'.boundary <= t.expiry
      BY <2>2, <2>3, <2>4, <3>1
    <3>3. t.rev <= Epoch(feed') /\ (t.rev > 0 => feed'.invalidated[t.rev] <= t.ver)
      BY <1>0, <2>2, <2>4, <3>1, IncludesStays
    <3> QED
      BY <3>2, <3>3
  <2>5. CASE t = s
    <3>1. s.expiry \in Nat
      BY <2>2, <2>5
    <3> QED
      BY <2>1, <2>3, <2>4, <2>5, <3>1
  <2>6. CASE GrownList(k)
    BY <2>4, <2>6 DEF GrownList
  <2>7. CASE NewList(k)
    <3>1. PICK r \in Requests : /\ req[r].pc = "collect" /\ Current(feed, req[r])
                                /\ t.ver = req[r].ver /\ t.rev = req[r].epoch
                                /\ feed'.boundary <= t.expiry
      BY <2>7 DEF NewList
    <3>2. Fresh(req[r].ver) /\ Includes(req[r].epoch, req[r].ver)
      BY <1>0, <3>1 DEF BuildsFresh, BuildsInclude
    <3> HIDE DEF s, t
    <3>3. FreshAfter(t.ver)
      BY <2>2, <2>3, <3>1, <3>2
    <3>4. t.rev <= Epoch(feed') /\ (t.rev > 0 => feed'.invalidated[t.rev] <= t.ver)
      BY <1>0, <2>2, <3>1, <3>2, IncludesStays
    <3> QED
      BY <3>1, <3>3, <3>4 DEF t
  <2> QED
    BY <1>3, <2>5, <2>6, <2>7 DEF Keeps, KeptList
<1> QED
  BY <1>1, <1>2, <1>3 DEF Kinds

LEMMA NextBuilds ==
  ASSUME IInv, TypeOK', Kinds, EpochsPast'
  PROVE  BuildsFresh' /\ BuildsInclude'
<1>0. TypeOK /\ Tracking /\ EpochsPast /\ HistoryPast /\ BuildsFresh /\ BuildsInclude
  BY DEF IInv
<1> SUFFICES ASSUME NEW r \in Requests, req'[r].pc = "collect"
             PROVE  /\ Epoch(feed') = req'[r].epoch => FreshAfter(req'[r].ver)
                    /\ req'[r].epoch <= Epoch(feed')
                    /\ req'[r].epoch > 0 => feed'.invalidated[req'[r].epoch] <= req'[r].ver
  BY DEF BuildsFresh, BuildsInclude, Includes, Current, Epoch, Fresh, FreshAfter
<1>1. req'[r] \in Calls /\ req[r] \in Calls /\ version \in Nat
  BY <1>0, BoundAssumption DEF TypeOK
<1>2. req'[r].ver \in Nat /\ req'[r].epoch \in Nat /\ req[r].epoch \in Nat
  BY <1>1 DEF Calls
<1>3. req[r].epoch <= Epoch(feed)
  BY <1>0 DEF EpochsPast
<1>4. CASE Unheard
  BY <1>0, <1>4 DEF Unheard, Tracking
<1>5. CASE req'[r] = req[r] /\ (Throws \/ Keeps)
  <2>1. Includes(req[r].epoch, req[r].ver)
    BY <1>0, <1>5 DEF BuildsInclude
  <2>2. /\ req[r].epoch <= Epoch(feed')
        /\ req[r].epoch > 0 => feed'.invalidated[req[r].epoch] <= req[r].ver
    BY <1>0, <1>2, <1>5, <2>1, IncludesStays
  <2>3. CASE Throws
    <3>1. Epoch(feed') = Epoch(feed) + 1 /\ Epoch(feed) \in Nat
      BY <1>0, <2>3, HistoryGrows
    <3> QED
      BY <1>2, <1>3, <1>5, <2>2, <3>1
  <2>4. CASE Keeps
    <3>1. feed'.invalidated = feed.invalidated /\ \A v \in Nat : Fresh(v) => FreshAfter(v)
      BY <2>4 DEF Keeps
    <3>2. Epoch(feed') = req'[r].epoch => Current(feed, req[r])
      BY <1>5, <3>1 DEF Epoch, Current
    <3> QED
      BY <1>0, <1>2, <1>5, <2>2, <3>1, <3>2 DEF BuildsFresh
  <2> QED
    BY <1>5, <2>3, <2>4
<1>6. CASE Keeps /\ req'[r] # req[r]
  <2>1. req'[r].ver = version /\ version' = version /\ req'[r].epoch = req[r].epoch
    BY <1>6 DEF Keeps, KeptBuild
  <2>2. FreshAfter(req'[r].ver)
    BY <1>1, <2>1 DEF FreshAfter
  <2>3. Includes(req[r].epoch, version)
    BY <1>0, <1>2, <1>3, HistoryGrows DEF Includes, HistoryPast
  <2> QED
    BY <1>0, <1>1, <1>2, <2>1, <2>2, <2>3, IncludesStays
<1>7. CASE Throws /\ req'[r] # req[r]
  BY <1>7 DEF Throws
<1> QED
  BY <1>4, <1>5, <1>6, <1>7 DEF Kinds

LEMMA NextPages ==
  ASSUME IInv, TypeOK', Kinds, ListsFresh', ListsInclude'
  PROVE  PagesCovered' /\ PagesInclude'
<1>0. TypeOK /\ Tracking /\ FencesPast /\ PagesCovered /\ PagesInclude
  BY DEF IInv
<1> SUFFICES ASSUME NEW r \in Requests, page'[r] # None
             PROVE  /\ \/ WarnAfter(page'[r].fence)
                       \/ FreshAfter(page'[r].ver) /\ feed'.boundary <= page'[r].expiry
                    /\ page'[r].rev <= Epoch(feed')
                    /\ page'[r].rev > 0 => feed'.invalidated[page'[r].rev] <= page'[r].ver
  BY DEF PagesCovered, PagesInclude, Includes, Epoch, Fresh, FreshAfter, Warn, WarnAfter
<1>1. page'[r] \in Pages /\ feed'.boundary \in Nat /\ feed.boundary \in Nat
  BY <1>0 DEF TypeOK, Feeds
<1>2. page'[r].fence \in Nat /\ page'[r].ver \in Nat /\ page'[r].rev \in Nat
      /\ page'[r].expiry \in Nat
  BY <1>1 DEF Pages
<1>3. CASE Unheard
  BY <1>0, <1>3 DEF Unheard, Tracking
<1>4. CASE page'[r] = page[r] /\ (Throws \/ Keeps)
  <2>1. /\ page[r].fence <= announced
        /\ \/ Warn(page[r].fence)
           \/ Fresh(page[r].ver) /\ feed.boundary <= page[r].expiry
        /\ Includes(page[r].rev, page[r].ver)
    BY <1>0, <1>4 DEF FencesPast, PagesCovered, PagesInclude
  <2>2. page[r].rev <= Epoch(feed')
        /\ (page[r].rev > 0 => feed'.invalidated[page[r].rev] <= page[r].ver)
    BY <1>0, <1>2, <1>4, <2>1, IncludesStays
  <2>3. CASE Throws
    BY <1>4, <2>2, <2>3 DEF Throws, WarnAfter
  <2>4. CASE Keeps
    <3>1. /\ feed'.boundary <= feed.boundary
          /\ \A x \in Nat : x <= announced /\ Warn(x) => WarnAfter(x)
          /\ \A v \in Nat : Fresh(v) => FreshAfter(v)
      BY <2>4 DEF Keeps
    <3> QED
      BY <1>1, <1>2, <1>4, <2>1, <2>2, <3>1
  <2> QED
    BY <1>4, <2>3, <2>4
<1>5. CASE page'[r] # page[r] /\ (Throws \/ Keeps)
  <2>1. PICK k \in Views : /\ feed'.snaps[k] # None
                           /\ page'[r].ver = feed'.snaps[k].ver
                           /\ page'[r].rev = feed'.snaps[k].rev
                           /\ page'[r].expiry = feed'.snaps[k].expiry
    BY <1>5 DEF Throws, Keeps, KeptPage
  <2>2. FreshAfter(feed'.snaps[k].ver) /\ feed'.boundary <= feed'.snaps[k].expiry
    BY <2>1 DEF ListsFresh, Fresh, FreshAfter
  <2>3. /\ feed'.snaps[k].rev <= Epoch(feed')
        /\ feed'.snaps[k].rev > 0 =>
             feed'.invalidated[feed'.snaps[k].rev] <= feed'.snaps[k].ver
    BY <2>1 DEF ListsInclude, Includes, Epoch
  <2> QED
    BY <2>1, <2>2, <2>3
<1> QED
  BY <1>3, <1>4, <1>5 DEF Kinds

LEMMA NextIInv == ASSUME IInv, [Next]_vars PROVE IInv'
<1>1. TypeOK /\ TypeOK'
  BY NextType DEF IInv
<1>2. CASE Next
  <2>1. Kinds
    BY <1>1, <1>2, NextKinds
  <2>2. FencesPast' /\ EpochsPast' /\ Tracking' /\ HistoryPast'
    BY <1>1, <1>2, <2>1, NextFences, NextTracking, NextHistory DEF IInv
  <2>3. ListsFresh' /\ ListsInclude'
    BY <1>1, <2>1, NextLists
  <2>4. BuildsFresh' /\ BuildsInclude'
    BY <1>1, <2>1, <2>2, NextBuilds
  <2>5. PagesCovered' /\ PagesInclude'
    BY <1>1, <2>1, <2>3, NextPages
  <2> QED
    BY <1>1, <2>2, <2>3, <2>4, <2>5 DEF IInv
<1>3. CASE UNCHANGED vars
  BY <1>3 DEF vars, IInv, TypeOK, Tracking, FencesPast, EpochsPast, HistoryPast, ListsFresh,
     BuildsFresh, PagesCovered, ListsInclude, BuildsInclude, PagesInclude, Fresh, Warn,
     Includes, Epoch, Current
<1> QED
  BY <1>2, <1>3

LEMMA IInvHolds == Spec => []IInv
<1>1. Init => IInv
  BY InitIInv
<1>2. IInv /\ [Next]_vars => IInv'
  BY NextIInv
<1> QED
  BY <1>1, <1>2, PTL DEF Spec

-----------------------------------------------------------------------------
\* No page goes stale without an announcement after its fence, made or on its way: the
\* inductive invariant says so of every page, list and collection.
THEOREM Covered == Spec => []FenceCovers
<1>1. IInv => FenceCovers
  <2> SUFFICES ASSUME IInv, NEW r \in Requests, page[r] # None
               PROVE  /\ \/ Warned(page[r])
                         \/ (page[r].ver + 1) .. version \subseteq inTransit
                      /\ \/ Warned(page[r])
                         \/ now < page[r].expiry \/ now >= feed.boundary
    BY DEF FenceCovers
  <2>1. page[r] \in Pages /\ feed.boundary \in Nat /\ now \in Nat
    BY BoundAssumption DEF IInv, TypeOK, Feeds
  <2>2. page[r].expiry \in Nat
    BY <2>1 DEF Pages
  <2>3. \/ Warn(page[r].fence)
        \/ Fresh(page[r].ver) /\ feed.boundary <= page[r].expiry
    BY DEF IInv, PagesCovered
  <2> QED
    BY <2>1, <2>2, <2>3 DEF Warn, Warned, Announced, Fresh
<1> QED
  BY <1>1, IInvHolds, PTL

\* A page has all that its revision announces.
THEOREM Included == Spec => []RevisionIncludes
<1>1. IInv => RevisionIncludes
  BY DEF IInv, PagesInclude, Includes, RevisionIncludes
<1> QED
  BY <1>1, IInvHolds, PTL

-----------------------------------------------------------------------------
\* The rows of the lists and pages.

Tailing == {"tailEpoch", "tail"}

\* A list's rows are the first ones, in order, and its tail goes on right after them.
Ordered(s) ==
  /\ \A i \in 1 .. Len(s.rows) : s.rows[i] = i
  /\ s.tail # None => s.tail = Len(s.rows)

Consecutive(p) == \A i \in 1 .. Len(p.rows) : p.rows[i] = p.end - Len(p.rows) + i

ListsOrdered == \A k \in Views : feed.snaps[k] # None => Ordered(feed.snaps[k])

\* One request at a time builds the list of a view.
OneBuilder ==
  \A r, q \in Requests :
    req[r].pc \in Building /\ req[q].pc \in Building /\ req[r].view = req[q].view => r = q

\* What a request fetches goes on where its list ends.
TailsMeet ==
  \A r \in Requests : req[r].pc \in Tailing /\ feed.snaps[req[r].view] # None =>
    req[r].tail = Len(feed.snaps[req[r].view].rows)

RInv == TypeOK /\ ListsOrdered /\ OneBuilder /\ TailsMeet /\ RowsContiguous

LEMMA PageConsecutive ==
  ASSUME NEW f \in Feeds, NEW c \in Calls, NEW fence \in Nat, f.snaps[c.view] # None,
         Ordered(f.snaps[c.view])
  PROVE  Consecutive(PageOf(f, c, fence))
<1> DEFINE s   == f.snaps[c.view]
           o   == Offset(c)
           end == Least(o + c.limit, Len(s.rows))
           p   == PageOf(f, c, fence)
<1>1. s \in Snapshots /\ s.rows \in Seq(Nat) /\ Len(s.rows) \in Nat
  BY DEF Feeds, Calls, Snapshots
<1>2. o \in Nat /\ c.limit \in Nat \ {0}
  BY BoundAssumption DEF Calls, Offset, Cursors
<1>3. end \in Nat /\ end <= Len(s.rows)
  BY <1>1, <1>2 DEF Least
<1>4. p.rows = SubSeq(s.rows, o + 1, end) /\ p.end = end
  BY DEF PageOf
<1>5. \A i \in 1 .. Len(s.rows) : s.rows[i] = i
  BY DEF Ordered
<1> HIDE DEF s, o, end, p
<1>6. \A i \in o + 1 .. end : s.rows[i] \in Nat
  BY <1>1, <1>2, <1>3, <1>5
<1>7. /\ Len(p.rows) = IF o + 1 <= end THEN end - (o + 1) + 1 ELSE 0
      /\ \A i \in 1 .. end - (o + 1) + 1 : p.rows[i] = s.rows[o + 1 + i - 1]
  BY <1>2, <1>3, <1>4, <1>6, SubSeqProperties
<1>8. ASSUME NEW i \in 1 .. Len(p.rows) PROVE p.rows[i] = p.end - Len(p.rows) + i
  <2>1. o + 1 <= end /\ Len(p.rows) = end - o /\ i \in 1 .. end - o
    BY <1>2, <1>3, <1>7, <1>8
  <2>2. p.rows[i] = s.rows[o + i] /\ o + i \in 1 .. Len(s.rows)
    BY <1>1, <1>2, <1>3, <1>7, <2>1
  <2>3. p.rows[i] = o + i
    BY <1>5, <2>2
  <2>4. end - (end - o) + i = o + i
    BY <1>2, <1>3, <2>1
  <2> QED
    BY <1>4, <2>1, <2>3, <2>4
<1> QED
  BY <1>8 DEF Consecutive, p

\* Steps that bring no rows and give no page.
Follows(q) ==
  /\ req'[q].pc \in Building => req[q].pc \in Building /\ req'[q].view = req[q].view
  /\ req'[q].pc \in Tailing => req[q].pc \in Tailing /\ req'[q].tail = req[q].tail

LEMMA PagesInOrder ==
  ASSUME RInv, \A q \in Requests : page'[q] = page[q] \/ Consecutive(page'[q])
  PROVE  RowsContiguous'
BY DEF RInv, RowsContiguous, Consecutive

LEMMA QuietRows ==
  ASSUME RInv, TypeOK', \A q \in Requests : page'[q] = page[q] \/ Consecutive(page'[q]),
         \A k \in Views : feed'.snaps[k] \in {feed.snaps[k], None},
         \A q \in Requests : Follows(q)
  PROVE  RInv'
<1>1. ListsOrdered'
  BY DEF RInv, ListsOrdered, Ordered
<1>2. OneBuilder'
  BY DEF RInv, OneBuilder, Follows
<1>3. TailsMeet'
  <2> SUFFICES ASSUME NEW r \in Requests, req'[r].pc \in Tailing,
                      feed'.snaps[req'[r].view] # None
               PROVE  req'[r].tail = Len(feed'.snaps[req'[r].view].rows)
    BY DEF TailsMeet
  <2>1. /\ req[r].pc \in Tailing /\ req'[r].tail = req[r].tail
        /\ req'[r].view = req[r].view /\ req[r].view \in Views
    BY DEF Follows, Tailing, Building, Permitted, RInv, TypeOK, Calls
  <2> QED
    BY <2>1 DEF RInv, TailsMeet
<1>4. RowsContiguous'
  BY PagesInOrder
<1> QED
  BY <1>1, <1>2, <1>3, <1>4 DEF RInv

\* Invalidated lists are gone.
LEMMA GoneOrThere ==
  ASSUME NEW f, NEW k \in Views
  PROVE  /\ Invalidated(f).snaps[k] = None
         /\ Refreshed(f).snaps[k] \in {f.snaps[k], None}
BY DEF Invalidated, Refreshed

LEMMA WorldRows == ASSUME RInv, TypeOK', World PROVE RInv'
<1>0. TypeOK
  BY DEF RInv
<1>1. req' = req /\ page' = page
  BY DEF World, Change, TimePasses, TakeInvalidations, PublishTaken, SnapshotExpires, Observe
<1>2. ASSUME NEW k \in Views PROVE feed'.snaps[k] \in {feed.snaps[k], None}
  <2>1. CASE Change \/ TimePasses \/ PublishTaken
    BY <2>1 DEF Change, TimePasses, PublishTaken
  <2>2. CASE TakeInvalidations
    <3>1. feed' = [Refreshed(feed) EXCEPT !.pending = FALSE]
      BY <2>2 DEF TakeInvalidations
    <3>2. Refreshed(feed) \in Feeds
      BY <1>0, BoundAssumption, RefreshedType DEF TypeOK
    <3>3. feed'.snaps = Refreshed(feed).snaps
      BY <3>1, <3>2 DEF Feeds
    <3> QED
      BY <3>3, GoneOrThere
  <2>3. ASSUME NEW j \in Views, SnapshotExpires(j)
        PROVE  feed'.snaps[k] \in {feed.snaps[k], None}
    BY <1>0, <2>3 DEF SnapshotExpires, TypeOK, Feeds
  <2>4. ASSUME NEW v \in 1 .. MaxVersion, Observe(v)
        PROVE  feed'.snaps[k] \in {feed.snaps[k], None}
    BY <2>4, GoneOrThere DEF Observe
  <2> QED
    BY <2>1, <2>2, <2>3, <2>4 DEF World
<1>3. \A q \in Requests : Follows(q)
  BY <1>1 DEF Follows
<1> QED
  BY <1>1, <1>2, <1>3, QuietRows

\* A request that ends follows, and so do the others.
LEMMA EndFollows ==
  ASSUME TypeOK, NEW r \in Requests, Fails(r) \/ (\E p : Answers(r, p)) \/ Goes(r, "lock")
  PROVE  \A q \in Requests : Follows(q)
<1>0. req \in [Requests -> Calls]
  BY DEF TypeOK
<1>1. \A q \in Requests : q # r => req'[q] = req[q]
  BY <1>0 DEF Fails, Answers, Goes
<1>2. req'[r].pc \in {"idle", "lock"}
  BY <1>0 DEF Fails, Answers, Goes, Idle, Calls
<1> QED
  BY <1>1, <1>2 DEF Follows, Building, Permitted, Tailing

\* Who builds a list may replace it: no other request goes on with that list.
LEMMA BuilderRows ==
  ASSUME RInv, TypeOK', NEW r \in Requests, req[r].pc \in Building,
         req'[r].pc \notin Tailing,
         \A k \in Views : \/ feed'.snaps[k] \in {feed.snaps[k], None}
                          \/ k = req[r].view /\ Ordered(feed'.snaps[k]),
         \A q \in Requests : Follows(q),
         \A q \in Requests : page'[q] = page[q] \/ Consecutive(page'[q])
  PROVE  RInv'
<1>1. ListsOrdered'
  BY DEF RInv, ListsOrdered, Ordered
<1>2. OneBuilder'
  BY DEF RInv, OneBuilder, Follows
<1>3. TailsMeet'
  <2> SUFFICES ASSUME NEW q \in Requests, req'[q].pc \in Tailing,
                      feed'.snaps[req'[q].view] # None
               PROVE  req'[q].tail = Len(feed'.snaps[req'[q].view].rows)
    BY DEF TailsMeet
  <2>1. /\ req[q].pc \in Tailing /\ req'[q].tail = req[q].tail /\ req[q].pc \in Building
        /\ req'[q].view = req[q].view /\ req[q].view \in Views
    BY DEF Follows, Tailing, Building, Permitted, RInv, TypeOK, Calls
  <2>2. req[q].view # req[r].view
    BY <2>1 DEF RInv, OneBuilder
  <2>3. feed'.snaps[req[q].view] = feed.snaps[req[q].view]
    BY <2>1, <2>2
  <2> QED
    BY <2>1, <2>3 DEF RInv, TailsMeet
<1>4. RowsContiguous'
  BY PagesInOrder
<1> QED
  BY <1>1, <1>2, <1>3, <1>4 DEF RInv

\* A request that is answered with a page of an ordered list.
LEMMA AnswerRows ==
  ASSUME TypeOK, NEW r \in Requests, NEW f \in Feeds, NEW c \in Calls, NEW fence \in Nat,
         f.snaps[c.view] # None => Ordered(f.snaps[c.view]),
         ~Missing(f, c), Answers(r, PageOf(f, c, fence))
  PROVE  \A q \in Requests : page'[q] = page[q] \/ Consecutive(page'[q])
<1>1. Consecutive(PageOf(f, c, fence))
  BY PageConsecutive DEF Missing
<1>2. page' = [page EXCEPT ![r] = PageOf(f, c, fence)]
  BY DEF Answers
<1> QED
  BY <1>1, <1>2 DEF TypeOK

LEMMA LookUpPages ==
  ASSUME RInv, NEW r \in Requests, NEW next \in Stages, LookUp(r, next)
  PROVE  /\ \A k \in Views : feed'.snaps[k] \in {feed.snaps[k], None}
         /\ \A q \in Requests : page'[q] = page[q] \/ Consecutive(page'[q])
         /\ Fails(r) \/ Goes(r, next) \/ (\E p : Answers(r, p))
<1> DEFINE f == Refreshed(feed)
           c == req[r]
<1>0. TypeOK /\ ListsOrdered /\ f \in Feeds /\ c \in Calls /\ announced \in Nat
  BY RefreshedType DEF RInv, TypeOK
<1>1. feed' = f
  BY DEF LookUp
<1>2. \A k \in Views : f.snaps[k] \in {feed.snaps[k], None}
  BY GoneOrThere
<1>3. f.snaps[c.view] # None => Ordered(f.snaps[c.view])
  BY <1>0, <1>2 DEF ListsOrdered, Calls
<1>4. CASE page' = page /\ (Fails(r) \/ Goes(r, next))
  BY <1>1, <1>2, <1>4
<1>5. CASE ~Missing(f, c) /\ Answers(r, PageOf(f, c, announced))
  <2>1. \A q \in Requests : page'[q] = page[q] \/ Consecutive(page'[q])
    <3> HIDE DEF f, c
    <3> QED
      BY <1>0, <1>3, <1>5, AnswerRows
  <2> QED
    BY <1>1, <1>2, <1>5, <2>1
<1> QED
  BY <1>4, <1>5 DEF LookUp, Fails

LEMMA LookupRows == ASSUME RInv, TypeOK', NEW r \in Requests, Lookup(r) PROVE RInv'
<1>1. LookUp(r, "lock") /\ "lock" \in Stages
  BY DEF Lookup, Stages
<1>2. \A q \in Requests : Follows(q)
  BY <1>1, LookUpPages, EndFollows DEF RInv
<1> QED
  BY <1>1, <1>2, LookUpPages, QuietRows

LEMMA RecheckRows == ASSUME RInv, TypeOK', NEW r \in Requests, Recheck(r) PROVE RInv'
<1>1. LookUp(r, "acquire") /\ "acquire" \in Stages
  BY DEF Recheck, Stages
<1>2. CASE Fails(r) \/ (\E p : Answers(r, p))
  BY <1>1, <1>2, LookUpPages, EndFollows, QuietRows DEF RInv
<1>3. CASE Goes(r, "acquire")
  <2>1. req' = [req EXCEPT ![r].pc = "acquire"] /\ req \in [Requests -> Calls]
    BY <1>3 DEF Goes, RInv, TypeOK
  <2>2. \A q \in Requests : q # r => req'[q] = req[q]
    BY <2>1
  <2>3. req'[r].pc = "acquire" /\ req'[r].view = req[r].view
    BY <2>1 DEF Calls
  <2>4. OneBuilder'
    BY <2>2, <2>3 DEF OneBuilder, RInv, Recheck
  <2>5. TailsMeet'
    <3> SUFFICES ASSUME NEW q \in Requests, req'[q].pc \in Tailing,
                        feed'.snaps[req'[q].view] # None
                 PROVE  req'[q].tail = Len(feed'.snaps[req'[q].view].rows)
      BY DEF TailsMeet
    <3>1. q # r /\ req'[q] = req[q] /\ req[q].view \in Views
      BY <2>1, <2>2, <2>3 DEF Tailing, Calls
    <3>2. feed'.snaps[req[q].view] = feed.snaps[req[q].view]
      BY <1>1, <3>1, LookUpPages
    <3> QED
      BY <3>1, <3>2 DEF RInv, TailsMeet
  <2>6. ListsOrdered'
    BY <1>1, LookUpPages DEF RInv, ListsOrdered
  <2>7. RowsContiguous'
    BY <1>1, LookUpPages, PagesInOrder
  <2> QED
    BY <2>4, <2>5, <2>6, <2>7 DEF RInv
<1> QED
  BY <1>1, <1>2, <1>3, LookUpPages

\* A request that stays at work on its list, not on its tail.
LEMMA MovesFollow ==
  ASSUME TypeOK, NEW r \in Requests, NEW c \in Calls, req[r].pc \in Building,
         c.view = req[r].view, c.pc \notin Tailing, req' = [req EXCEPT ![r] = c]
  PROVE  \A q \in Requests : Follows(q)
<1>1. \A q \in Requests : q # r => req'[q] = req[q]
  BY DEF TypeOK
<1>2. req'[r] = c
  BY DEF TypeOK
<1> QED
  BY <1>1, <1>2 DEF Follows

LEMMA PendingTailRows == ASSUME RInv, TypeOK', NEW r \in Requests, PendingTail(r) PROVE RInv'
<1> DEFINE c == req[r]
           s == feed.snaps[c.view]
<1>0. TypeOK /\ feed' = feed /\ req \in [Requests -> Calls] /\ c.pc = "acquire"
  BY DEF RInv, TypeOK, PendingTail, At
<1>1. CASE Fails(r)
  BY <1>0, <1>1, EndFollows, QuietRows DEF Fails
<1>2. CASE Goes(r, "epoch") /\ UNCHANGED page
  <2>1. \A q \in Requests : Follows(q)
    BY <1>0, <1>2 DEF Goes, Follows, Building, Permitted, Tailing, Calls
  <2> QED
    BY <1>0, <1>2, <2>1, QuietRows
<1>3. CASE /\ s # None /\ s.tail # None
           /\ req' = [req EXCEPT ![r].pc = "tailEpoch", ![r].tail = s.tail,
                                 ![r].started = s.started,
                                 ![r].needed = Max0(Offset(c) + c.limit - Len(s.rows))]
           /\ UNCHANGED page
  <2>1. \A q \in Requests : q # r => req'[q] = req[q]
    BY <1>0, <1>3
  <2>2. req'[r].pc = "tailEpoch" /\ req'[r].tail = s.tail /\ req'[r].view = c.view
    BY <1>0, <1>3 DEF Calls
  <2>3. s.tail = Len(s.rows)
    BY <1>0, <1>3 DEF RInv, ListsOrdered, Ordered, Calls
  <2>4. OneBuilder'
    BY <1>0, <2>1, <2>2 DEF OneBuilder, RInv, Building, Permitted
  <2>5. TailsMeet'
    BY <1>0, <2>1, <2>2, <2>3 DEF TailsMeet, RInv
  <2>6. ListsOrdered' /\ RowsContiguous'
    BY <1>0, <1>3 DEF RInv, ListsOrdered, RowsContiguous
  <2> QED
    BY <2>4, <2>5, <2>6 DEF RInv
<1> QED
  BY <1>1, <1>2, <1>3 DEF PendingTail

\* A list that goes on right after its end, and a new one, have their rows in order.
LEMMA LongerOrdered ==
  ASSUME NEW s \in Snapshots, Ordered(s), NEW n \in Nat, NEW leaves, NEW more
  PROVE  Ordered([s EXCEPT !.rows = @ \o Chunks(Len(s.rows), n), !.expiry = leaves,
                           !.tail = IF more THEN Len(s.rows) + n ELSE None])
<1> DEFINE t == Len(s.rows)
           w == s.rows \o Chunks(t, n)
<1>1. s.rows \in Seq(Nat) /\ t \in Nat
  BY DEF Snapshots
<1>2. Chunks(t, n) \in Seq(Nat) /\ Len(Chunks(t, n)) = n
  BY <1>1, ChunksType
<1>3. /\ Len(w) = t + n
      /\ \A i \in 1 .. t + n : w[i] = IF i <= t THEN s.rows[i] ELSE Chunks(t, n)[i - t]
  <2> DEFINE u == s.rows
             v == Chunks(t, n)
  <2>1. u \in Seq(Nat) /\ v \in Seq(Nat) /\ Len(u) = t /\ Len(v) = n
    BY <1>1, <1>2
  <2> HIDE DEF u, v
  <2>2. /\ Len(u \o v) = Len(u) + Len(v)
        /\ \A i \in 1 .. Len(u) + Len(v) :
             (u \o v)[i] = IF i <= Len(u) THEN u[i] ELSE v[i - Len(u)]
    BY <2>1, ConcatProperties
  <2> QED
    BY <2>1, <2>2 DEF u, v
<1>4. \A i \in 1 .. n : Chunks(t, n)[i] = t + i
  BY DEF Chunks
<1>0. \A i \in 1 .. t : s.rows[i] = i
  BY DEF Ordered
<1> HIDE DEF w, t
<1>5. ASSUME NEW i \in 1 .. Len(w) PROVE w[i] = i
  <2>1. CASE i <= t
    <3>1. i \in 1 .. t
      BY <1>1, <1>3, <2>1
    <3> QED
      BY <1>0, <1>1, <1>2, <1>3, <2>1, <3>1
  <2>2. CASE ~(i <= t)
    <3>1. i - t \in 1 .. n /\ t + (i - t) = i
      BY <1>1, <1>3, <2>2
    <3> QED
      BY <1>1, <1>3, <1>4, <2>2, <3>1
  <2> QED
    BY <2>1, <2>2
<1> QED
  BY <1>3, <1>5 DEF Ordered, Snapshots, w, t

LEMMA AppendTailRows ==
  ASSUME RInv, TypeOK', NEW r \in Requests, NEW n, NEW more \in BOOLEAN, NEW x, Shapes(n, x),
         AppendTail(r, n, more, x)
  PROVE  RInv'
<1> DEFINE c      == req[r]
           s      == feed.snaps[c.view]
           leaves == IF n = 0 THEN Never ELSE x
           new    == [s EXCEPT !.rows = @ \o Chunks(c.tail, n), !.expiry = Least(@, leaves),
                               !.tail = IF more THEN c.tail + n ELSE None]
           g      == [feed EXCEPT !.boundary = Armed(feed, leaves), !.snaps[c.view] = new]
           f      == Refreshed(g)
<1>0. /\ TypeOK /\ c \in Calls /\ c.view \in Views /\ announced \in Nat /\ feed \in Feeds
      /\ c.pc = "tail"
  BY DEF RInv, TypeOK, Calls, AppendTail, At
<1>1. CASE Fails(r) /\ UNCHANGED feed
  BY <1>0, <1>1, EndFollows, QuietRows DEF Fails
<1>2. CASE s # None /\ feed' = f /\ (Fails(r) \/ (~Missing(f, c) /\ Answers(r, PageOf(f, c, announced))))
  <2>1. s \in Snapshots /\ Ordered(s) /\ c.tail = Len(s.rows) /\ n \in Nat
    BY <1>0, <1>2, LeavesType DEF Feeds, RInv, ListsOrdered, TailsMeet, Tailing
  <2>2. Ordered(new)
    BY <2>1, LongerOrdered
  <2>3. new \in Snapshots
    BY <1>0, <2>1, LeavesType, LongerType DEF Calls
  <2>4. g \in Feeds /\ g.snaps = [feed.snaps EXCEPT ![c.view] = new]
    <3>1. g \in Feeds
      BY <1>0, <2>3, LeavesType, ArmedFeedType
    <3> HIDE DEF new, s, c, leaves
    <3> QED
      BY <1>0, <3>1 DEF Feeds
  <2>5. f \in Feeds
    BY <2>4, <1>0, RefreshedType DEF TypeOK
  <2>6. \A k \in Views : f.snaps[k] \in {g.snaps[k], None}
    BY GoneOrThere
  <2>7. \A k \in Views : \/ f.snaps[k] \in {feed.snaps[k], None}
                         \/ k = c.view /\ Ordered(f.snaps[k])
    <3> HIDE DEF f, g, new, s, c
    <3> QED
      BY <1>0, <2>2, <2>4, <2>6 DEF Feeds
  <2>8. f.snaps[c.view] # None => Ordered(f.snaps[c.view])
    <3> HIDE DEF f, g, new, c
    <3> QED
      BY <1>0, <2>2, <2>4, <2>6 DEF Feeds
  <2> HIDE DEF f
  <2>9. \A q \in Requests : page'[q] = page[q] \/ Consecutive(page'[q])
    BY <1>0, <1>2, <2>5, <2>8, AnswerRows DEF Fails
  <2>10. \A q \in Requests : Follows(q)
    BY <1>0, <1>2, EndFollows
  <2>11. req'[r].pc \notin Tailing
    BY <1>0, <1>2 DEF Fails, Answers, Idle, Tailing, TypeOK
  <2>12. c.pc \in Building
    BY <1>0 DEF Building, Permitted
  <2> QED
    BY <1>2, <2>7, <2>9, <2>10, <2>11, <2>12, BuilderRows
<1> QED
  BY <1>1, <1>2 DEF AppendTail

LEMMA NewOrdered ==
  ASSUME NEW s, NEW n \in Nat, NEW more, s.rows = Chunks(0, n),
         s.tail = IF more THEN n ELSE None
  PROVE  Ordered(s)
<1>1. Len(Chunks(0, n)) = n
  BY ChunksType
<1>2. \A i \in 1 .. n : Chunks(0, n)[i] = i
  BY DEF Chunks
<1> QED
  BY <1>1, <1>2 DEF Ordered

LEMMA InstallRows ==
  ASSUME RInv, TypeOK', NEW r \in Requests, NEW n, NEW more \in BOOLEAN, NEW x, Shapes(n, x),
         Install(r, n, more, x)
  PROVE  RInv'
<1> DEFINE c      == req[r]
           first  == [c EXCEPT !.cursor = None]
           leaves == IF n = 0 THEN Never ELSE x
           new    == [nonce |-> built + 1, ver |-> c.ver, rev |-> Epoch(feed),
                      rows |-> Chunks(0, n), expiry |-> leaves, started |-> c.started,
                      tail |-> IF more THEN n ELSE None]
           g      == [feed EXCEPT !.boundary = Armed(feed, leaves), !.snaps[c.view] = new]
           f      == Refreshed(g)
<1>0. /\ TypeOK /\ c \in Calls /\ c.view \in Views /\ c.fence \in Nat /\ feed \in Feeds
      /\ c.pc = "collect" /\ built \in Nat /\ req \in [Requests -> Calls]
  BY DEF RInv, TypeOK, Calls, Install, At
<1>1. CASE Fails(r) /\ UNCHANGED feed
  BY <1>0, <1>1, EndFollows, QuietRows DEF Fails
<1>2. CASE Retries(r) /\ UNCHANGED feed
  <2>1. \A q \in Requests : Follows(q)
    BY <1>0, <1>2 DEF Retries, Follows, Building, Permitted, Tailing, Calls
  <2> QED
    BY <1>2, <2>1, QuietRows DEF Retries
<1>3. CASE feed' = f /\ (Fails(r) \/ (~Missing(f, first) /\ Answers(r, PageOf(f, first, c.fence))))
  <2>1. n \in Nat /\ Epoch(feed) \in Nat
    BY <1>0, LeavesType DEF Epoch, Feeds
  <2>2. Ordered(new)
    BY <2>1, NewOrdered
  <2>3. new \in Snapshots
    BY <1>0, <2>1, LeavesType, NewType
  <2>4. g \in Feeds /\ g.snaps = [feed.snaps EXCEPT ![c.view] = new]
    <3>1. g \in Feeds
      BY <1>0, <2>3, LeavesType, ArmedFeedType
    <3> HIDE DEF new, c, leaves
    <3> QED
      BY <1>0, <3>1 DEF Feeds
  <2>5. f \in Feeds
    BY <2>4, <1>0, RefreshedType DEF TypeOK
  <2>6. \A k \in Views : f.snaps[k] \in {g.snaps[k], None}
    BY GoneOrThere
  <2>7. /\ \A k \in Views : \/ f.snaps[k] \in {feed.snaps[k], None}
                            \/ k = c.view /\ Ordered(f.snaps[k])
        /\ f.snaps[c.view] # None => Ordered(f.snaps[c.view])
    <3> HIDE DEF f, g, new, c
    <3> QED
      BY <1>0, <2>2, <2>4, <2>6 DEF Feeds
  <2>8. first \in Calls /\ first.view = c.view
    BY <1>0 DEF Calls
  <2> HIDE DEF f, first
  <2>9. \A q \in Requests : page'[q] = page[q] \/ Consecutive(page'[q])
    BY <1>0, <1>3, <2>5, <2>7, <2>8, AnswerRows DEF Fails
  <2>10. \A q \in Requests : Follows(q)
    BY <1>0, <1>3, EndFollows
  <2>11. req'[r].pc \notin Tailing
    BY <1>0, <1>3 DEF Fails, Answers, Idle, Tailing
  <2>12. c.pc \in Building
    BY <1>0 DEF Building, Permitted
  <2> QED
    BY <1>3, <2>7, <2>9, <2>10, <2>11, <2>12, BuilderRows
<1> QED
  BY <1>1, <1>2, <1>3 DEF Install

LEMMA BeginRows == ASSUME RInv, TypeOK', NEW r \in Requests, Begin(r) PROVE RInv'
<1>0. req \in [Requests -> Calls] /\ feed' = feed /\ page' = page
  BY DEF RInv, TypeOK, Begin
<1>1. \A q \in Requests : q # r => req'[q] = req[q]
  BY <1>0 DEF Begin
<1>2. req'[r].pc = "lookup"
  <2>1. ASSUME NEW k, NEW n,
               req' = [req EXCEPT ![r] = [Idle(k) EXCEPT !.pc = "lookup", !.limit = n]]
        PROVE  req'[r].pc = "lookup"
    BY <1>0, <2>1 DEF Idle
  <2>2. ASSUME NEW k, NEW x,
               req' = [req EXCEPT ![r] = [Idle(k) EXCEPT !.pc = "lookup", !.cursor = x]]
        PROVE  req'[r].pc = "lookup"
    BY <1>0, <2>2 DEF Idle
  <2> QED
    BY <2>1, <2>2 DEF Begin
<1>3. \A q \in Requests : Follows(q)
  BY <1>1, <1>2 DEF Follows, Building, Permitted, Tailing
<1> QED
  BY <1>0, <1>3, QuietRows

LEMMA StepRows ==
  ASSUME RInv, TypeOK', NEW r \in Requests,
         \/ TailEpoch(r) \/ TailFails(r) \/ ReadEpoch(r) \/ ReadFence(r)
         \/ CollectFails(r) \/ Drop(r)
  PROVE  RInv'
<1>0. TypeOK /\ req \in [Requests -> Calls]
  BY DEF RInv, TypeOK
<1>1. \A k \in Views : feed'.snaps[k] \in {feed.snaps[k], None}
  BY GoneOrThere
     DEF TailEpoch, TailFails, ReadEpoch, ReadFence, CollectFails, Drop
<1>2. page' = page
  BY DEF TailEpoch, TailFails, ReadEpoch, ReadFence, CollectFails, Drop, Fails, Retries
<1>3. \A q \in Requests : Follows(q)
  <2>1. CASE Fails(r)
    BY <1>0, <2>1, EndFollows
  <2>2. CASE TailEpoch(r)
    BY <1>0, <2>2 DEF TailEpoch, At, Follows, Building, Permitted, Tailing, Calls
  <2>3. CASE ReadEpoch(r)
    BY <1>0, <2>3 DEF ReadEpoch, At, Follows, Building, Permitted, Tailing, Calls
  <2>4. CASE ReadFence(r)
    BY <1>0, <2>4 DEF ReadFence, At, Follows, Building, Permitted, Tailing, Calls
  <2>5. CASE At(r, "collect") /\ Retries(r)
    BY <1>0, <2>5 DEF Retries, At, Follows, Building, Permitted, Tailing, Calls
  <2> QED
    BY <2>1, <2>2, <2>3, <2>4, <2>5 DEF TailFails, CollectFails, Drop
<1> QED
  BY <1>1, <1>2, <1>3, QuietRows

LEMMA RInvHolds == Spec => []RInv
<1>1. Init => RInv
  <2> SUFFICES ASSUME Init PROVE RInv
    OBVIOUS
  <2>1. TypeOK
    BY TypeInit
  <2>2. ListsOrdered /\ RowsContiguous
    BY DEF Init, ListsOrdered, RowsContiguous
  <2>3. OneBuilder /\ TailsMeet
    BY DEF Init, OneBuilder, TailsMeet, Idle, Building, Permitted, Tailing
  <2> QED
    BY <2>1, <2>2, <2>3 DEF RInv
<1>2. TypeOK' /\ RInv /\ [Next]_vars => RInv'
  <2> SUFFICES ASSUME TypeOK', RInv, [Next]_vars PROVE RInv'
    OBVIOUS
  <2>1. CASE World
    BY <2>1, WorldRows
  <2>2. ASSUME NEW r \in Requests, Begin(r) PROVE RInv'
    BY <2>2, BeginRows
  <2>3. ASSUME NEW r \in Requests, Answering(r) PROVE RInv'
    <3>1. ASSUME NEW n \in 0 .. MaxChunks, NEW more \in BOOLEAN, NEW x \in 1 .. Never,
                 AppendTail(r, n, more, x) \/ Install(r, n, more, x)
          PROVE  RInv'
      BY <3>1, AppendTailRows, InstallRows DEF Shapes
    <3> QED
      BY <2>3, <3>1, LookupRows, RecheckRows, PendingTailRows, StepRows DEF Answering
  <2>4. ASSUME NEW r \in Requests, Drop(r) PROVE RInv'
    BY <2>4, StepRows
  <2>5. CASE UNCHANGED vars
    BY <2>5 DEF vars, RInv, ListsOrdered, Ordered, OneBuilder, TailsMeet, RowsContiguous
  <2> QED
    BY <2>1, <2>2, <2>3, <2>4, <2>5 DEF Next, World
<1> QED
  BY <1>1, <1>2, TypeCorrect, PTL DEF Spec

\* The pages of a list are consecutive parts of it: a request that goes on with a list's
\* tail has the list's build lock, so the tail it fetched is still where the list ends.
THEOREM InOrder == Spec => []RowsContiguous
<1>1. RInv => RowsContiguous
  BY DEF RInv
<1> QED
  BY <1>1, RInvHolds, PTL
=============================================================================
