------------------------- MODULE GatewayEventsProofs -------------------------
(***************************************************************************)
(* The safety properties of GatewayEvents, proved for any number of        *)
(* clients and changes and any capacities.                                 *)
(*                                                                         *)
(* That a subscription leaves nothing out rests on three facts which IInv  *)
(* adds: the window holds exactly the newest events, without a hole; what  *)
(* is left of a replay is the run of events after the last delivered; and  *)
(* the receiver is never ahead of that run, so that replay and broadcast   *)
(* meet or overlap.                                                        *)
(***************************************************************************)
EXTENDS GatewayEvents, TLAPS

\* At most one event is published and not yet broadcast.
BroadcastFollows == sent <= sequence /\ sequence <= sent + 1

\* The window is the newest events, as many as fit.
WindowIsNewest == window = {n \in 1 .. sequence : n + Capacity > sequence}

\* No client is ahead of the bus.
ClientsFollow ==
  \A c \in Clients :
    cursor[c] <= sequence /\ after[c] <= sequence /\ last[c] <= sequence /\ next[c] <= sent + 1

\* What a subscription has in hand begins right after the last event it delivered.
Seamless(c) ==
  IF replay[c] = {} THEN next[c] <= last[c] + 1
  ELSE \E k \in 1 .. sequence : next[c] <= k + 1 /\ last[c] < k /\ replay[c] = last[c] + 1 .. k

SubscriptionsSeamless == \A c \in Clients : pc[c] = "streaming" => Seamless(c)

IInv ==
  /\ TypeOK
  /\ BroadcastFollows /\ WindowIsNewest /\ ClientsFollow /\ SubscriptionsSeamless
  /\ HandshakeCovers

-----------------------------------------------------------------------------
\* Without its head a queue is a queue, and what was queued is the head or still is.
LEMMA Dequeued ==
  ASSUME NEW S, NEW q \in Seq(S), q # <<>>
  PROVE  /\ Head(q) \in S /\ Tail(q) \in Seq(S) /\ Len(Tail(q)) = Len(q) - 1
         /\ \A i \in DOMAIN q : q[i] = Head(q) \/ \E j \in DOMAIN Tail(q) : Tail(q)[j] = q[i]
<1>1. Head(q) \in S /\ Tail(q) \in Seq(S) /\ Len(Tail(q)) = Len(q) - 1
  OBVIOUS
<1>2. ASSUME NEW i \in DOMAIN q
      PROVE  q[i] = Head(q) \/ \E j \in DOMAIN Tail(q) : Tail(q)[j] = q[i]
  <2>1. CASE i = 1
    BY <2>1
  <2>2. CASE i # 1
    <3>1. i - 1 \in DOMAIN Tail(q) /\ Tail(q)[i - 1] = q[i]
      BY <2>2
    <3> QED
      BY <3>1
  <2> QED
    BY <2>1, <2>2
<1> QED
  BY <1>1, <1>2

\* What was in a queue is in it after an append, and so is what was appended.
LEMMA Enqueued ==
  ASSUME NEW S, NEW q \in Seq(S), NEW e \in S
  PROVE  /\ Append(q, e) \in Seq(S) /\ Len(Append(q, e)) = Len(q) + 1
         /\ DOMAIN Append(q, e) = 1 .. Len(q) + 1
         /\ \A i \in DOMAIN q : i \in DOMAIN Append(q, e) /\ Append(q, e)[i] = q[i]
         /\ Append(q, e)[Len(q) + 1] = e
OBVIOUS

-----------------------------------------------------------------------------
LEMMA InitIInv == Init => IInv
<1> SUFFICES ASSUME Init PROVE IInv
  OBVIOUS
<1> USE CapacityAssumption, VersionAssumption DEF Init
<1>1. TypeOK
  BY DEF TypeOK, Versions, Stages
<1>2. BroadcastFollows /\ WindowIsNewest /\ ClientsFollow
  BY DEF BroadcastFollows, WindowIsNewest, ClientsFollow
<1>3. SubscriptionsSeamless /\ HandshakeCovers
  BY DEF SubscriptionsSeamless, HandshakeCovers
<1> QED
  BY <1>1, <1>2, <1>3 DEF IInv

\* Every step of the manager or the bus keeps the types.
LEMMA BusTypeOK ==
  ASSUME TypeOK,
         \/ Change \/ ForwardFails \/ Publish \/ Broadcast
         \/ \E v \in Versions : SendUpdate(v) \/ SendDropped(v)
  PROVE  TypeOK'
<1> USE CapacityAssumption, VersionAssumption DEF TypeOK, Versions, manager, bus, client
<1>1. CASE Change
  BY <1>1 DEF Change
<1>2. CASE ForwardFails
  <2>1. updates \in Seq(Versions) /\ updates # <<>>
    BY <1>2 DEF ForwardFails
  <2>2. /\ Head(updates) \in Versions /\ Tail(updates) \in Seq(Versions)
        /\ Len(Tail(updates)) = Len(updates) - 1
    BY <2>1, Dequeued, Zenon
  <2>3. updates' \in Seq(Versions) /\ Len(updates') <= Capacity
    BY <1>2, <2>2 DEF ForwardFails
  <2>4. lost' \subseteq Versions
    BY <1>2, <2>2 DEF ForwardFails
  <2> QED
    BY <1>2, <2>3, <2>4 DEF ForwardFails
<1>3. CASE Publish
  <2>1. updates' \in Seq(Versions) /\ Len(updates') <= Capacity
    BY <1>3, Dequeued DEF Publish
  <2>2. published' \in Seq(Versions) /\ Len(published') = sequence'
    BY <1>3, Dequeued, Enqueued DEF Publish
  <2>3. sequence' = sequence + 1 /\ sent' = sent
    BY <1>3 DEF Publish
  <2>4. window' \subseteq window \cup {sequence + 1}
    BY <1>3 DEF Publish, Newest
  <2>5. sequence' \in Nat /\ window' \subseteq 1 .. sequence' /\ sent' \in 0 .. sequence'
    BY <2>3, <2>4
  <2> QED
    BY <1>3, <2>1, <2>2, <2>5 DEF Publish
<1>4. CASE Broadcast
  BY <1>4 DEF Broadcast
<1>5. ASSUME NEW v \in Versions, SendUpdate(v) PROVE TypeOK'
  BY <1>5, Enqueued DEF SendUpdate
<1>6. ASSUME NEW v \in Versions, SendDropped(v) PROVE TypeOK'
  BY <1>6 DEF SendDropped
<1> QED
  BY <1>1, <1>2, <1>3, <1>4, <1>5, <1>6

\* Every step of a client keeps the types.
LEMMA ClientTypeOK ==
  ASSUME TypeOK, NEW c \in Clients,
         Handshake(c) \/ ReadSnapshot(c) \/ Subscribe(c) \/ NextEvent(c) \/ Disconnect(c)
  PROVE  TypeOK'
<1> USE CapacityAssumption, VersionAssumption DEF TypeOK, Stages, manager, bus
<1>1. CASE Handshake(c)
  BY <1>1 DEF Handshake
<1>2. CASE ReadSnapshot(c)
  BY <1>2 DEF ReadSnapshot
<1>3. ASSUME NEW from \in {cursor[c], last[c]}, SubscribeReceiver(c, from) PROVE TypeOK'
  BY <1>3 DEF SubscribeReceiver
<1>4. CASE ReplayRefused(c)
  BY <1>4 DEF ReplayRefused
<1>5. CASE ReplayTaken(c)
  <2> DEFINE R == {n \in window : n > after[c]}
  <2>1. \A n \in R : n \in Nat
    OBVIOUS
  <2>2. R \in SUBSET Nat
    BY <2>1, Zenon
  <2>3. replay' = [replay EXCEPT ![c] = R] /\ last' = [last EXCEPT ![c] = after[c]]
    BY <1>5, Zenon DEF ReplayTaken
  <2> HIDE DEF R
  <2>4. replay' \in [Clients -> SUBSET Nat] /\ last' \in [Clients -> Nat]
    BY <2>2, <2>3
  <2> QED
    BY <1>5, <2>4 DEF ReplayTaken
<1>6. CASE Replay(c)
  BY <1>6 DEF Replay, Delivered
<1>7. CASE Receive(c)
  BY <1>7 DEF Receive, Delivered
<1>8. CASE Lag(c)
  BY <1>8 DEF Lag, Ends
<1>9. CASE Disconnect(c)
  BY <1>9 DEF Disconnect, Ends
<1> QED
  BY <1>1, <1>2, <1>3, <1>4, <1>5, <1>6, <1>7, <1>8, <1>9 DEF Subscribe, NextEvent

\* The steps of a client leave the manager and the bus alone, and the reverse.
LEMMA Frames ==
  /\ \A c \in Clients :
       Handshake(c) \/ ReadSnapshot(c) \/ Subscribe(c) \/ NextEvent(c) \/ Disconnect(c)
         => UNCHANGED <<manager, bus>>
  /\ ( \/ Change \/ ForwardFails \/ Publish \/ Broadcast
       \/ \E v \in Versions : SendUpdate(v) \/ SendDropped(v) )
       => UNCHANGED client
BY DEF Handshake, ReadSnapshot, Subscribe, SubscribeReceiver, ReplayRefused, ReplayTaken,
       NextEvent, Replay, Receive, Lag, Disconnect, Change, ForwardFails, Publish,
       Broadcast, SendUpdate, SendDropped

LEMMA StepTypeOK == TypeOK /\ [Next]_vars => TypeOK'
<1> SUFFICES ASSUME TypeOK, [Next]_vars PROVE TypeOK'
  OBVIOUS
<1>1. CASE UNCHANGED vars
  BY <1>1 DEF vars, manager, bus, client, TypeOK
<1> QED
  BY <1>1, BusTypeOK, ClientTypeOK DEF Next

\* The bus stays in order: one event at a time, the window without a hole.
LEMMA StepBus ==
  ASSUME TypeOK, BroadcastFollows, WindowIsNewest, [Next]_vars
  PROVE  BroadcastFollows' /\ WindowIsNewest'
<1> USE CapacityAssumption DEF TypeOK, BroadcastFollows, WindowIsNewest
<1>1. CASE Publish
  <2>1. sequence' = sequence + 1 /\ sent' = sent /\ sent = sequence /\ window' = Newest(sequence + 1)
    BY <1>1 DEF Publish
  <2>2. Newest(sequence + 1) = {n \in 1 .. sequence + 1 : n + Capacity > sequence + 1}
    BY DEF Newest
  <2> QED
    BY <2>1, <2>2
<1>2. CASE Broadcast
  BY <1>2 DEF Broadcast
<1>3. CASE UNCHANGED bus
  BY <1>3 DEF bus
<1>4. Publish \/ Broadcast \/ UNCHANGED bus
  BY Frames DEF Next, vars, Change, ForwardFails, SendUpdate, SendDropped
<1> QED
  BY <1>1, <1>2, <1>3, <1>4

\* The bus only grows.
LEMMA BusGrows ==
  ASSUME TypeOK, [Next]_vars
  PROVE  sequence <= sequence' /\ sent <= sent'
<1> USE DEF TypeOK
<1>1. CASE Publish
  BY <1>1 DEF Publish
<1>2. CASE Broadcast
  BY <1>2 DEF Broadcast
<1>3. CASE UNCHANGED bus
  BY <1>3 DEF bus
<1>4. Publish \/ Broadcast \/ UNCHANGED bus
  BY Frames DEF Next, vars, Change, ForwardFails, SendUpdate, SendDropped
<1> QED
  BY <1>1, <1>2, <1>3, <1>4

\* What a replay is when it is taken: the run of events from the cursor to the newest.
LEMMA ReplayIsRun ==
  ASSUME TypeOK, WindowIsNewest, NEW from \in Nat, Available(from)
  PROVE  {n \in window : n > from} = from + 1 .. sequence
<1> USE CapacityAssumption DEF TypeOK, WindowIsNewest
<1>1. window = {} => sequence = 0
  <2>1. sequence # 0 => sequence \in window
    OBVIOUS
  <2> QED
    BY <2>1
<1>2. ASSUME NEW n \in from + 1 .. sequence PROVE n \in window /\ n > from
  BY <1>1 DEF Available
<1>3. ASSUME NEW n \in window, n > from PROVE n \in from + 1 .. sequence
  BY <1>3
<1> QED
  BY <1>2, <1>3, Zenon

\* The front of a replay in hand is the event after the last delivered.
LEMMA FrontIsNext ==
  ASSUME TypeOK, NEW c \in Clients, Seamless(c),
         NEW n \in replay[c], \A m \in replay[c] : n <= m
  PROVE  n = last[c] + 1
BY DEF TypeOK, Seamless

\* No client gets ahead of the bus.
LEMMA StepClientsFollow ==
  ASSUME TypeOK, BroadcastFollows, WindowIsNewest, ClientsFollow, SubscriptionsSeamless,
         [Next]_vars
  PROVE  ClientsFollow'
<1> USE DEF TypeOK, BroadcastFollows, ClientsFollow
<1>0. TypeOK' /\ sequence <= sequence' /\ sent <= sent'
  BY StepTypeOK, BusGrows
<1>1. CASE UNCHANGED client
  BY <1>0, <1>1 DEF client
<1>2. ASSUME NEW c \in Clients, Handshake(c) PROVE ClientsFollow'
  BY <1>0, <1>2 DEF Handshake, bus
<1>3. ASSUME NEW c \in Clients, ReadSnapshot(c) PROVE ClientsFollow'
  BY <1>0, <1>3 DEF ReadSnapshot, bus
<1>4. ASSUME NEW c \in Clients, NEW from \in {cursor[c], last[c]}, SubscribeReceiver(c, from)
      PROVE  ClientsFollow'
  BY <1>0, <1>4 DEF SubscribeReceiver, bus
<1>5. ASSUME NEW c \in Clients, ReplayRefused(c) PROVE ClientsFollow'
  BY <1>0, <1>5 DEF ReplayRefused, bus
<1>6. ASSUME NEW c \in Clients, ReplayTaken(c) PROVE ClientsFollow'
  BY <1>0, <1>6 DEF ReplayTaken, bus
<1>7. ASSUME NEW c \in Clients, Replay(c) PROVE ClientsFollow'
  <2>1. PICK n \in replay[c] : (\A m \in replay[c] : n <= m) /\ Delivered(c, n)
    BY <1>7 DEF Replay
  <2>2. n \in 1 .. sequence
    <3>1. PICK k \in 1 .. sequence : last[c] < k /\ replay[c] = last[c] + 1 .. k
      BY <1>7, <2>1 DEF Replay, SubscriptionsSeamless, Seamless
    <3> QED
      BY <2>1, <3>1
  <2> QED
    BY <1>0, <1>7, <2>1, <2>2 DEF Replay, Delivered, bus
<1>8. ASSUME NEW c \in Clients, Receive(c) PROVE ClientsFollow'
  <2>1. next[c] <= sent /\ next' = [next EXCEPT ![c] = @ + 1] /\ UNCHANGED <<bus, cursor, after>>
    BY <1>8 DEF Receive
  <2>2. last' = [last EXCEPT ![c] = IF next[c] > last[c] THEN next[c] ELSE last[c]]
    BY <1>8 DEF Receive, Delivered
  <2>3. last'[c] <= sequence /\ next'[c] <= sent + 1
    BY <2>1, <2>2
  <2>4. \A d \in Clients : d # c => last'[d] = last[d] /\ next'[d] = next[d]
    BY <2>1, <2>2
  <2> QED
    BY <2>1, <2>3, <2>4 DEF bus
<1>9. ASSUME NEW c \in Clients, Lag(c) PROVE ClientsFollow'
  BY <1>0, <1>9 DEF Lag, Ends, bus
<1>10. ASSUME NEW c \in Clients, Disconnect(c) PROVE ClientsFollow'
  BY <1>0, <1>10 DEF Disconnect, Ends, bus
<1> QED
  BY <1>1, <1>2, <1>3, <1>4, <1>5, <1>6, <1>7, <1>8, <1>9, <1>10, Frames
  DEF Next, vars, Subscribe, NextEvent

\* Replay and receiver keep joining without a seam.
LEMMA StepSeamless ==
  ASSUME TypeOK, BroadcastFollows, WindowIsNewest, ClientsFollow, SubscriptionsSeamless,
         [Next]_vars
  PROVE  SubscriptionsSeamless'
<1> USE DEF TypeOK, SubscriptionsSeamless
<1>0. TypeOK' /\ sequence <= sequence'
  BY StepTypeOK, BusGrows
<1>1. CASE UNCHANGED client
  BY <1>0, <1>1 DEF client, Seamless
<1>2. ASSUME NEW c \in Clients, Handshake(c) PROVE SubscriptionsSeamless'
  BY <1>2 DEF Handshake, Seamless, bus
<1>3. ASSUME NEW c \in Clients, ReadSnapshot(c) PROVE SubscriptionsSeamless'
  BY <1>3 DEF ReadSnapshot, Seamless, bus
<1>4. ASSUME NEW c \in Clients, NEW from \in {cursor[c], last[c]}, SubscribeReceiver(c, from)
      PROVE  SubscriptionsSeamless'
  BY <1>4 DEF SubscribeReceiver, Seamless, bus
<1>5. ASSUME NEW c \in Clients, ReplayRefused(c) PROVE SubscriptionsSeamless'
  BY <1>5 DEF ReplayRefused, Seamless, bus
<1>6. ASSUME NEW c \in Clients, ReplayTaken(c) PROVE SubscriptionsSeamless'
  <2>1. {n \in window : n > after[c]} = after[c] + 1 .. sequence
    BY <1>6, ReplayIsRun DEF ReplayTaken
  <2>2. /\ replay' = [replay EXCEPT ![c] = after[c] + 1 .. sequence]
        /\ last' = [last EXCEPT ![c] = after[c]]
        /\ next' = next /\ sequence' = sequence /\ pc' = [pc EXCEPT ![c] = "streaming"]
    BY <1>6, <2>1 DEF ReplayTaken, bus
  <2>3. after[c] <= sequence /\ next[c] <= sequence + 1
    BY DEF ClientsFollow, BroadcastFollows
  <2>4. Seamless(c)'
    <3>1. replay'[c] = after[c] + 1 .. sequence /\ last'[c] = after[c] /\ next'[c] = next[c]
      BY <2>2
    <3>2. CASE after[c] = sequence
      <4>1. replay'[c] = {}
        BY <3>1, <3>2
      <4> QED
        BY <2>3, <3>1, <3>2, <4>1 DEF Seamless
    <3>3. CASE after[c] < sequence
      <4>0. sequence \in after[c] + 1 .. sequence /\ sequence \in 1 .. sequence
        BY <3>3
      <4>1. sequence \in 1 .. sequence' /\ replay'[c] # {}
        BY <2>2, <3>1, <4>0
      <4> QED
        BY <2>3, <3>1, <3>3, <4>1 DEF Seamless
    <3> QED
      BY <2>3, <3>2, <3>3
  <2>5. ASSUME NEW d \in Clients, d # c, pc'[d] = "streaming" PROVE Seamless(d)'
    BY <2>2, <2>5 DEF Seamless
  <2> QED
    BY <2>4, <2>5
<1>7. ASSUME NEW c \in Clients, Replay(c) PROVE SubscriptionsSeamless'
  <2>1. PICK n \in replay[c] : /\ \A m \in replay[c] : n <= m
                               /\ replay' = [replay EXCEPT ![c] = @ \ {n}]
                               /\ Delivered(c, n)
    BY <1>7 DEF Replay
  <2>2. Seamless(c)
    BY <1>7 DEF Replay
  <2>3. n = last[c] + 1
    BY <2>1, <2>2, FrontIsNext
  <2>4. PICK k \in 1 .. sequence : next[c] <= k + 1 /\ last[c] < k /\ replay[c] = last[c] + 1 .. k
    BY <2>1, <2>2 DEF Seamless
  <2>5. last'[c] = last[c] + 1 /\ replay'[c] = last[c] + 2 .. k /\ next' = next /\ sequence' = sequence
    BY <1>7, <2>1, <2>3, <2>4 DEF Replay, Delivered, bus
  <2>6. Seamless(c)'
    <3>1. next'[c] = next[c] /\ last'[c] \in Nat
      BY <2>5
    <3>2. CASE k = last[c] + 1
      <4>1. replay'[c] = {}
        BY <2>5, <3>2
      <4> QED
        BY <2>4, <2>5, <3>1, <3>2, <4>1 DEF Seamless
    <3>3. CASE k # last[c] + 1
      <4>1. k \in 1 .. sequence' /\ last'[c] < k /\ replay'[c] = last'[c] + 1 .. k
        BY <2>4, <2>5, <3>3
      <4>2. k \in last'[c] + 1 .. k
        BY <3>1, <4>1
      <4> QED
        BY <2>4, <3>1, <4>1, <4>2 DEF Seamless
    <3> QED
      BY <3>2, <3>3
  <2>7. ASSUME NEW d \in Clients, d # c, pc'[d] = "streaming" PROVE Seamless(d)'
    BY <1>7, <2>1, <2>7 DEF Seamless, Replay, Delivered, bus
  <2> QED
    BY <2>6, <2>7
<1>8. ASSUME NEW c \in Clients, Receive(c) PROVE SubscriptionsSeamless'
  <2>1. /\ pc' = pc /\ replay' = replay /\ replay[c] = {} /\ pc[c] = "streaming"
        /\ next' = [next EXCEPT ![c] = @ + 1] /\ sequence' = sequence
    BY <1>8 DEF Receive, bus
  <2>2. last' = [last EXCEPT ![c] = IF next[c] > last[c] THEN next[c] ELSE last[c]]
    BY <1>8 DEF Receive, Delivered
  <2>3. next[c] <= last[c] + 1
    BY <2>1 DEF Seamless
  <2>4. Seamless(c)'
    <3>1. next'[c] = next[c] + 1
      BY <2>1
    <3>2. last'[c] = (IF next[c] > last[c] THEN next[c] ELSE last[c])
      BY <2>2
    <3>3. next'[c] <= last'[c] + 1
      BY <2>3, <3>1, <3>2
    <3> QED
      BY <2>1, <3>3 DEF Seamless
  <2>5. ASSUME NEW d \in Clients, d # c, pc'[d] = "streaming" PROVE Seamless(d)'
    BY <2>1, <2>2, <2>5 DEF Seamless
  <2> QED
    BY <2>4, <2>5
<1>9. ASSUME NEW c \in Clients, Lag(c) PROVE SubscriptionsSeamless'
  BY <1>9 DEF Lag, Ends, Seamless, bus
<1>10. ASSUME NEW c \in Clients, Disconnect(c) PROVE SubscriptionsSeamless'
  BY <1>10 DEF Disconnect, Ends, Seamless, bus
<1> QED
  BY <1>1, <1>2, <1>3, <1>4, <1>5, <1>6, <1>7, <1>8, <1>9, <1>10, Frames
  DEF Next, vars, Subscribe, NextEvent

-----------------------------------------------------------------------------
\* A change a client is owed: it is in the snapshot, on its way, published or lost.
Owed(c, v) == v <= snap[c] \/ InTransit(v) \/ PublishedAfter(cursor[c], v) \/ v \in lost

\* No step of the manager or the bus makes an update disappear.
LEMMA UpdatesMove ==
  ASSUME TypeOK, ClientsFollow, UNCHANGED client,
         \/ ForwardFails \/ Publish \/ Broadcast \/ Change
         \/ \E v \in Versions : SendUpdate(v) \/ SendDropped(v),
         NEW c \in Clients, NEW v \in 1 .. version, Owed(c, v)
  PROVE  Owed(c, v)'
<1> USE DEF TypeOK, Owed, client
<1>1. CASE v <= snap[c]
  BY <1>1
<1>2. CASE v \in lost
  BY <1>2 DEF ForwardFails, Publish, Broadcast, Change, SendUpdate, SendDropped, manager
<1>3. CASE PublishedAfter(cursor[c], v)
  <2>1. PICK i \in DOMAIN published : i > cursor[c] /\ published[i] = v
    BY <1>3 DEF PublishedAfter
  <2>2. i \in DOMAIN published' /\ published'[i] = v
    <3>1. CASE Publish
      <4>1. updates \in Seq(Versions) /\ updates # <<>> /\ published' = Append(published, Head(updates))
        BY <3>1 DEF Publish
      <4>2. Head(updates) \in Versions
        BY <4>1, Dequeued, Zenon
      <4> QED
        BY <2>1, <4>1, <4>2, Enqueued
    <3>2. CASE UNCHANGED published
      BY <2>1, <3>2
    <3> QED
      BY <3>1, <3>2 DEF ForwardFails, Broadcast, Change, SendUpdate, SendDropped, bus
  <2> QED
    BY <2>1, <2>2 DEF PublishedAfter
<1>4. CASE v \in unsent
  <2>1. ASSUME NEW w \in Versions, SendUpdate(w) PROVE Owed(c, v)'
    <3>1. /\ unsent' = unsent \ {w} /\ updates' = Append(updates, w)
      BY <2>1 DEF SendUpdate
    <3>2. w # v => v \in unsent'
      BY <1>4, <3>1
    <3>3. Len(updates) + 1 \in DOMAIN updates' /\ updates'[Len(updates) + 1] = w
      BY <3>1, Enqueued
    <3> QED
      BY <3>2, <3>3 DEF InTransit
  <2>2. ASSUME NEW w \in Versions, SendDropped(w) PROVE Owed(c, v)'
    BY <1>4, <2>2 DEF SendDropped, InTransit
  <2>3. CASE ForwardFails \/ Publish \/ Broadcast \/ Change
    BY <1>4, <2>3 DEF ForwardFails, Publish, Broadcast, Change, InTransit, manager
  <2> QED
    BY <2>1, <2>2, <2>3
<1>5. ASSUME NEW i \in DOMAIN updates, updates[i] = v PROVE Owed(c, v)'
  <2>1. CASE ForwardFails \/ Publish
    <3>1. updates \in Seq(Versions) /\ updates # <<>> /\ updates' = Tail(updates)
      BY <2>1 DEF ForwardFails, Publish
    <3>2. /\ Head(updates) \in Versions
          /\ updates[i] = Head(updates) \/ \E j \in DOMAIN Tail(updates) : Tail(updates)[j] = updates[i]
      BY <1>5, <3>1, Dequeued, Zenon
    <3>3. CASE \E j \in DOMAIN Tail(updates) : Tail(updates)[j] = updates[i]
      BY <1>5, <3>1, <3>3 DEF InTransit
    <3>4. CASE Head(updates) = v /\ ForwardFails
      BY <3>4 DEF ForwardFails
    <3>5. CASE Head(updates) = v /\ Publish
      <4>1. published' = Append(published, v)
        BY <3>5 DEF Publish
      <4>2. v \in Versions
        BY <3>2, <3>5
      <4>3. sequence + 1 \in DOMAIN published' /\ published'[sequence + 1] = v
        BY <4>1, <4>2, Enqueued
      <4>4. cursor[c] < sequence + 1
        BY DEF ClientsFollow
      <4> QED
        BY <4>3, <4>4 DEF PublishedAfter
    <3> QED
      BY <1>5, <2>1, <3>2, <3>3, <3>4, <3>5
  <2>2. ASSUME NEW w \in Versions, SendUpdate(w) PROVE Owed(c, v)'
    <3>1. updates' = Append(updates, w)
      BY <2>2 DEF SendUpdate
    <3>2. i \in DOMAIN updates' /\ updates'[i] = v
      BY <1>5, <3>1, Enqueued
    <3> QED
      BY <3>2 DEF InTransit
  <2>3. CASE UNCHANGED updates
    BY <1>5, <2>3 DEF InTransit
  <2> QED
    BY <2>1, <2>2, <2>3 DEF Broadcast, Change, SendDropped, manager
<1> QED
  BY <1>1, <1>2, <1>3, <1>4, <1>5 DEF InTransit

\* A step keeps every client covered.
LEMMA StepCovers ==
  ASSUME TypeOK, ClientsFollow, HandshakeCovers, [Next]_vars
  PROVE  HandshakeCovers'
<1> USE DEF TypeOK
<1>1. ASSUME NEW c \in Clients, pc'[c] \in {"ready", "receiver", "streaming"},
             NEW v \in 1 .. version'
      PROVE  Owed(c, v)'
  <2>1. CASE UNCHANGED vars
    BY <1>1, <2>1 DEF vars, manager, bus, client, HandshakeCovers, Owed, InTransit, PublishedAfter
  <2>2. CASE \/ Change \/ ForwardFails \/ Publish \/ Broadcast
             \/ \E w \in Versions : SendUpdate(w) \/ SendDropped(w)
    <3>1. UNCHANGED client
      BY <2>2, Frames
    <3>2. CASE v \in 1 .. version
      <4>1. Owed(c, v)
        BY <1>1, <3>1, <3>2 DEF HandshakeCovers, Owed, client
      <4> QED
        BY <2>2, <3>1, <3>2, <4>1, UpdatesMove, Zenon
    <3>3. CASE v \notin 1 .. version
      <4>1. Change /\ v = version + 1
        BY <1>1, <2>2, <3>3
        DEF Change, ForwardFails, Publish, Broadcast, SendUpdate, SendDropped, manager
      <4> QED
        BY <4>1 DEF Change, Owed, InTransit
    <3> QED
      BY <3>2, <3>3
  <2>3. ASSUME NEW d \in Clients,
               Handshake(d) \/ ReadSnapshot(d) \/ Subscribe(d) \/ NextEvent(d) \/ Disconnect(d)
        PROVE  Owed(c, v)'
    <3>1. UNCHANGED <<manager, bus>>
      BY <2>3, Frames
    <3>2. CASE d = c /\ ReadSnapshot(c)
      <4>1. snap'[c] = version /\ version' = version
        BY <3>2 DEF ReadSnapshot, manager
      <4> QED
        BY <4>1 DEF Owed
    <3>3. CASE ~(d = c /\ ReadSnapshot(c))
      <4>1. /\ pc[c] \in {"ready", "receiver", "streaming"}
            /\ cursor'[c] = cursor[c] /\ snap'[c] = snap[c]
        BY <1>1, <2>3, <3>3
        DEF Handshake, ReadSnapshot, Subscribe, SubscribeReceiver, ReplayRefused, ReplayTaken,
            NextEvent, Replay, Receive, Lag, Disconnect, Ends
      <4> QED
        BY <3>1, <4>1 DEF HandshakeCovers, Owed, InTransit, PublishedAfter, manager, bus
    <3> QED
      BY <3>2, <3>3
  <2> QED
    BY <2>1, <2>2, <2>3 DEF Next
<1> QED
  BY <1>1 DEF HandshakeCovers, Owed

LEMMA StepIInv == IInv /\ [Next]_vars => IInv'
<1> SUFFICES ASSUME IInv, [Next]_vars PROVE IInv'
  OBVIOUS
<1> QED
  BY StepTypeOK, StepBus, StepClientsFollow, StepSeamless, StepCovers DEF IInv

THEOREM Invariance == Spec => []IInv
<1>1. Init => IInv
  BY InitIInv
<1>2. IInv /\ [Next]_vars => IInv'
  BY StepIInv
<1> QED
  BY <1>1, <1>2, PTL DEF Spec

-----------------------------------------------------------------------------
\* The state keeps its types; in particular the update queue keeps its bound.
THEOREM TypeCorrect == Spec => []TypeOK
<1>1. IInv => TypeOK
  BY DEF IInv
<1> QED
  BY <1>1, Invariance, PTL

\* Between the snapshot of the handshake and the events after its cursor no change of the
\* manager falls through, however the steps of the two interleave.
THEOREM HandshakeIsCovered == Spec => []HandshakeCovers
<1>1. IInv => HandshakeCovers
  BY DEF IInv
<1> QED
  BY <1>1, Invariance, PTL

-----------------------------------------------------------------------------
(***************************************************************************)
(* The refinement: a subscription opens when its replay is taken, delivers *)
(* or skips, and ends with its socket.                                     *)
(***************************************************************************)
At == [c \in Clients |-> IF pc[c] = "streaming" THEN last[c] ELSE Off]

\* Of a step that concerns one client, only that client's subscription is seen.
LEMMA OneAt ==
  ASSUME TypeOK, NEW c \in Clients, NEW x,
         x = (IF pc'[c] = "streaming" THEN last'[c] ELSE Off),
         \A d \in Clients : d # c => pc'[d] = pc[d] /\ last'[d] = last[d]
  PROVE  At' = [At EXCEPT ![c] = x]
BY Zenon DEF At

\* A subscription opens at the cursor it was asked for.
LEMMA TakenOpens ==
  ASSUME IInv, NEW c \in Clients, ReplayTaken(c)
  PROVE  Feed!Open(c)
<1> USE OffAssumption DEF IInv, TypeOK
<1>1. /\ pc' = [pc EXCEPT ![c] = "streaming"] /\ last' = [last EXCEPT ![c] = after[c]]
      /\ sequence' = sequence /\ pc[c] = "receiver"
  BY DEF ReplayTaken, bus
<1>2. At' = [At EXCEPT ![c] = after[c]]
  BY <1>1, OneAt
<1>3. after[c] \in 0 .. sequence
  BY DEF ClientsFollow
<1> QED
  BY <1>1, <1>2, <1>3 DEF Feed!Open, At

\* next_event delivers the event after the last, or skips one already delivered.
LEMMA NextDelivers ==
  ASSUME IInv, NEW c \in Clients, Replay(c) \/ Receive(c)
  PROVE  Feed!Deliver(c) \/ UNCHANGED <<sequence, At>>
<1> USE OffAssumption DEF IInv, TypeOK
<1>1. pc[c] = "streaming" /\ pc' = pc /\ sequence' = sequence /\ Seamless(c)
  BY DEF Replay, Receive, bus, SubscriptionsSeamless
<1>2. PICK n \in Nat : n <= last[c] + 1 /\ n <= sequence /\ Delivered(c, n)
  <2>1. CASE Replay(c)
    <3>1. PICK n \in replay[c] : (\A m \in replay[c] : n <= m) /\ Delivered(c, n)
      BY <2>1 DEF Replay
    <3>2. n = last[c] + 1
      BY <1>1, <3>1, FrontIsNext
    <3>3. PICK k \in 1 .. sequence : last[c] < k
      BY <1>1, <3>1 DEF Seamless
    <3> QED
      BY <3>1, <3>2, <3>3
  <2>2. CASE Receive(c)
    <3>1. next[c] <= sent /\ next[c] \in Nat /\ next[c] <= last[c] + 1 /\ Delivered(c, next[c])
      BY <1>1, <2>2 DEF Receive, Seamless
    <3>2. next[c] <= sequence
      BY <3>1
    <3> QED
      BY <3>1, <3>2
  <2> QED
    BY <2>1, <2>2
<1>3. CASE n <= last[c]
  <2>1. last' = last
    BY <1>2, <1>3 DEF Delivered
  <2> QED
    BY <1>1, <2>1 DEF At
<1>4. CASE n = last[c] + 1
  <2>0. n > last[c]
    BY <1>4
  <2>1. last' = [last EXCEPT ![c] = n]
    BY <1>2, <2>0, Zenon DEF Delivered
  <2>2. At' = [At EXCEPT ![c] = n] /\ At[c] = last[c] /\ last[c] \in Nat
    BY <1>1, <2>1, OneAt DEF At
  <2>3. At' = [At EXCEPT ![c] = @ + 1]
    BY <1>4, <2>2
  <2> QED
    BY <1>1, <1>2, <1>4, <2>2, <2>3 DEF Feed!Deliver, At
<1> QED
  BY <1>2, <1>3, <1>4

\* With its socket a subscription ends.
LEMMA EndsEnd ==
  ASSUME IInv, NEW c \in Clients, Lag(c) \/ Disconnect(c)
  PROVE  Feed!End(c) \/ UNCHANGED <<sequence, At>>
<1> USE OffAssumption DEF IInv, TypeOK
<1>1. /\ pc' = [pc EXCEPT ![c] = "offline"] /\ sequence' = sequence
      /\ \A d \in Clients : d # c => last'[d] = last[d]
  BY DEF Lag, Disconnect, Ends, bus
<1>2. At' = [At EXCEPT ![c] = Off]
  BY <1>1, OneAt
<1>3. CASE pc[c] = "streaming"
  BY <1>1, <1>2, <1>3 DEF Feed!End, At
<1>4. CASE pc[c] # "streaming"
  <2>1. At' = At
    BY <1>2, <1>4 DEF At
  <2> QED
    BY <1>1, <2>1
<1> QED
  BY <1>3, <1>4

\* No other step is seen, but a publication.
LEMMA OthersStutter ==
  ASSUME IInv,
         \/ Change \/ ForwardFails \/ Publish \/ Broadcast
         \/ \E v \in Versions : SendUpdate(v) \/ SendDropped(v)
         \/ \E c \in Clients : \/ Handshake(c) \/ ReadSnapshot(c) \/ ReplayRefused(c)
                               \/ \E from \in {cursor[c], last[c]} : SubscribeReceiver(c, from)
  PROVE  Feed!Publish \/ UNCHANGED <<sequence, At>>
<1> USE DEF IInv, TypeOK, Stages
<1>1. CASE Publish
  BY <1>1 DEF Publish, client, Feed!Publish
<1>2. CASE \/ Change \/ ForwardFails \/ Broadcast
           \/ \E v \in Versions : SendUpdate(v) \/ SendDropped(v)
  BY <1>2 DEF Change, ForwardFails, Broadcast, SendUpdate, SendDropped, client, bus, At
<1>3. ASSUME NEW c \in Clients, \/ Handshake(c) \/ ReadSnapshot(c) \/ ReplayRefused(c)
                                \/ \E from \in {cursor[c], last[c]} : SubscribeReceiver(c, from)
      PROVE  UNCHANGED <<sequence, At>>
  <2>1. /\ pc[c] # "streaming" /\ pc'[c] # "streaming" /\ last' = last /\ sequence' = sequence
        /\ \A d \in Clients : d # c => pc'[d] = pc[d]
    BY <1>3 DEF Handshake, ReadSnapshot, ReplayRefused, SubscribeReceiver, bus
  <2>2. \A d \in Clients : At'[d] = At[d]
    BY <2>1 DEF At
  <2> QED
    BY <2>1, <2>2, Zenon DEF At
<1> QED
  BY <1>1, <1>2, <1>3

\* Window, receiver and cursors together implement the feed: after its cursor each
\* subscription delivers every event, in order and once, until it ends.
THEOREM Refinement == Spec => FeedSpec
<1>1. Init => Feed!Init
  BY DEF Init, Feed!Init
<1>2. IInv /\ [Next]_vars => [Feed!Next]_<<sequence, At>>
  <2> SUFFICES ASSUME IInv, [Next]_vars PROVE Feed!Next \/ UNCHANGED <<sequence, At>>
    OBVIOUS
  <2>1. CASE UNCHANGED vars
    BY <2>1 DEF vars, bus, client, At
  <2> QED
    BY <2>1, TakenOpens, NextDelivers, EndsEnd, OthersStutter
    DEF Next, Subscribe, NextEvent, Feed!Next
<1> QED
  BY <1>1, <1>2, Invariance, PTL DEF Spec, FeedSpec, Feed!Spec, At
=============================================================================
