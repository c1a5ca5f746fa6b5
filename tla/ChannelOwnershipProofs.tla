----------------------- MODULE ChannelOwnershipProofs -----------------------
(***************************************************************************)
(* The safety properties of ChannelOwnership, proved for any number of     *)
(* connections and switches.                                               *)
(*                                                                         *)
(* The flags alone are not inductive: that they exclude each other follows *)
(* from the group naming one owner, which holds only while the mutex is    *)
(* free; while it is held all flags are down.  IInv says so, with who      *)
(* holds the mutex, who is in the group, who is registered, that the owner *)
(* is the last that came to be one, and what ownerships the requests that  *)
(* are under way belong to.                                                *)
(***************************************************************************)
EXTENDS ChannelOwnership, TLAPS

\* The mutex is held across two steps by the connection that commits, and by no other.
MutexHolder ==
  /\ \A c \in Connections : pc[c] = "commit" <=> mutex = c
  /\ mutex # None => Len(owners) < MaxCommits

\* The group consists of the connections that hold a lease.
GroupIsLeases == \A c \in Connections : c \in members <=> Leased(c)

\* Registered are the connections past the handshake and not yet closing.
RegisteredAreOpen ==
  \A c \in Connections : c \in entries <=> pc[c] \in {"open", "commit", "refresh"}

OwnerIsMember == active # None => active \in members

\* While the mutex is held across the two steps, nobody serves.
HeldMeansDown == mutex # None => \A c \in Connections : ~flag[c]

\* The owner is the last connection that came to own the group.
OwnerIsLatest == active # None => Len(owners) > 0 /\ active = owners[Len(owners)]

\* The n-th ownership was the connection's.
Owned(c, n)      == n \in 1 .. Len(owners) /\ owners[n] = c
StillOwned(c, n) == n \in 1 .. Len(owners') /\ owners'[n] = c

\* A request in a queue or in a task was admitted in an ownership of its connection; one
\* that is accepted was accepted in such an ownership too, no earlier.
QueuedAreOwned ==
  \A c \in Connections : \A i \in 1 .. Len(queue[c]) : Owned(c, queue[c][i])

TaskIsOwned(c, task) ==
  /\ task.stage \in {"spawned", "accepted"} => Owned(c, task.admitted)
  /\ task.stage = "accepted" => /\ Owned(c, task.accepted)
                                /\ task.admitted <= task.accepted
                                /\ pc[c] \notin {"dropping", "gone"}

TasksAreOwned == \A c \in Connections, k \in Slots : TaskIsOwned(c, tasks[c][k])

GroupIInv ==
  /\ MutexHolder /\ GroupIsLeases /\ RegisteredAreOpen /\ OwnerIsMember
  /\ HeldMeansDown /\ FlagsFollowGroup /\ OwnerIsLatest
  /\ SnapshotSettles

IInv ==
  /\ TypeOK
  /\ GroupIInv
  /\ QueuedAreOwned /\ TasksAreOwned

-----------------------------------------------------------------------------
LEMMA InitIInv == Init => IInv
<1> SUFFICES ASSUME Init PROVE IInv
  OBVIOUS
<1> USE NoneAssumption, CapacityAssumption DEF Init
<1>1. TypeOK
  BY DEF TypeOK, Stages, Idle, Task
<1>2. QueuedAreOwned /\ TasksAreOwned
  BY DEF QueuedAreOwned, TasksAreOwned, TaskIsOwned, Idle
<1> QED
  BY <1>1, <1>2
  DEF IInv, GroupIInv, MutexHolder, GroupIsLeases, RegisteredAreOpen, OwnerIsMember, HeldMeansDown,
      FlagsFollowGroup, OwnerIsLatest, SnapshotSettles, Published, Leased, Stages

\* Every step keeps the types.
LEMMA StepTypeOK == TypeOK /\ MutexHolder /\ [Next]_vars => TypeOK'
<1> SUFFICES ASSUME TypeOK, MutexHolder, [Next]_vars PROVE TypeOK'
  OBVIOUS
<1> USE NoneAssumption, CapacityAssumption
    DEF TypeOK, Stages, Task, Idle, group, presence, requests
<1>1. ASSUME NEW c \in Connections, Prepare(c) PROVE TypeOK'
  BY <1>1 DEF Prepare
<1>2. ASSUME NEW c \in Connections, Handshake(c) PROVE TypeOK'
  BY <1>2 DEF Handshake, Published
<1>3. ASSUME NEW c \in Connections, NEW expected \in Connections \cup {None},
             NEW id \in SwitchIds, ActivateUnchanged(c, expected, id)
      PROVE  TypeOK'
  BY <1>3 DEF ActivateUnchanged
<1>4. ASSUME NEW c \in Connections, NEW expected \in Connections \cup {None},
             NEW id \in SwitchIds, ActivateFences(c, expected, id)
      PROVE  TypeOK'
  <2>1. flag' \in [Connections -> BOOLEAN]
    BY <1>4, Zenon DEF ActivateFences
  <2> QED
    BY <1>4, <2>1 DEF ActivateFences
<1>5. ASSUME NEW c \in Connections, ActivateCommits(c) PROVE TypeOK'
  BY <1>5 DEF ActivateCommits, MutexHolder
<1>6. ASSUME NEW c \in Connections, Refresh(c) PROVE TypeOK'
  BY <1>6 DEF Refresh, Published
<1>7. ASSUME NEW c \in Connections, Receive(c) PROVE TypeOK'
  BY <1>7 DEF Receive
<1>8. ASSUME NEW c \in Connections, NEW k \in Slots, Spawn(c, k) PROVE TypeOK'
  BY <1>8 DEF Spawn
<1>9. ASSUME NEW c \in Connections, NEW k \in Slots, Refuse(c, k) PROVE TypeOK'
  BY <1>9 DEF Refuse
<1>10. ASSUME NEW c \in Connections, NEW k \in Slots, Accept(c, k) PROVE TypeOK'
  <2>1. [stage |-> "accepted", admitted |-> tasks[c][k].admitted,
         accepted |-> Len(owners)] \in Task
    OBVIOUS
  <2>2. tasks' \in [Connections -> [Slots -> Task]]
    BY <1>10, <2>1 DEF Accept
  <2> QED
    BY <1>10, <2>2 DEF Accept
<1>11. ASSUME NEW c \in Connections, NEW k \in Slots, Call(c, k) PROVE TypeOK'
  BY <1>11 DEF Call
<1>12. ASSUME NEW c \in Connections, NEW k \in Slots, Stop(c, k) PROVE TypeOK'
  BY <1>12 DEF Stop
<1>13. ASSUME NEW c \in Connections, Close(c) PROVE TypeOK'
  BY <1>13 DEF Close, Published
<1>14. ASSUME NEW c \in Connections, LeaseFalls(c) PROVE TypeOK'
  BY <1>14 DEF LeaseFalls
<1>15. ASSUME NEW c \in Connections, LeaseLeaves(c) PROVE TypeOK'
  BY <1>15 DEF LeaseLeaves
<1>16. CASE UNCHANGED vars
  BY <1>16 DEF vars
<1> QED
  BY <1>1, <1>2, <1>3, <1>4, <1>5, <1>6, <1>7, <1>8, <1>9, <1>10, <1>11, <1>12, <1>13,
     <1>14, <1>15, <1>16
  DEF Next, Activate

\* Who serves owns the group.
LEMMA ServingOwns ==
  ASSUME IInv, NEW c \in Connections, flag[c]
  PROVE  Owned(c, Len(owners)) /\ active = c
BY NoneAssumption
DEF IInv, GroupIInv, TypeOK, HeldMeansDown, FlagsFollowGroup, OwnerIsLatest, Owned

\* An ownership, once had, stays in the history.
LEMMA OwnedStays ==
  ASSUME IInv, [Next]_vars, NEW c \in Connections, NEW n \in Nat, Owned(c, n)
  PROVE  StillOwned(c, n)
<1>1. CASE UNCHANGED owners
  BY <1>1 DEF Owned, StillOwned
<1>2. CASE \E d \in Connections : owners' = Append(owners, d)
  BY <1>2 DEF Owned, StillOwned, IInv, TypeOK
<1> QED
  BY <1>1, <1>2
  DEF Next, vars, Prepare, Handshake, Activate, ActivateUnchanged, ActivateFences,
      ActivateCommits, Refresh, Receive, Spawn, Refuse, Accept, Call, Stop, Close,
      LeaseFalls, LeaseLeaves

\* Every step keeps what is said of the group.
LEMMA StepGroup == IInv /\ [Next]_vars => GroupIInv'
<1> SUFFICES ASSUME IInv, [Next]_vars PROVE GroupIInv'
  OBVIOUS
<1> USE NoneAssumption, CapacityAssumption
    DEF IInv, GroupIInv, MutexHolder, GroupIsLeases, Leased, RegisteredAreOpen,
        OwnerIsMember, HeldMeansDown, FlagsFollowGroup, OwnerIsLatest, SnapshotSettles,
        Published, Stages, group, presence, requests
<1>0. TypeOK'
  BY StepTypeOK
<1>1. ASSUME NEW c \in Connections, Prepare(c) PROVE GroupIInv'
  BY <1>0, <1>1 DEF Prepare, TypeOK
<1>2. ASSUME NEW c \in Connections, Handshake(c) PROVE GroupIInv'
  BY <1>0, <1>2 DEF Handshake, TypeOK
<1>3. ASSUME NEW c \in Connections, NEW expected \in Connections \cup {None},
             NEW id \in SwitchIds, ActivateUnchanged(c, expected, id)
      PROVE  GroupIInv'
  BY <1>0, <1>3 DEF ActivateUnchanged, TypeOK
<1>4. ASSUME NEW c \in Connections, NEW expected \in Connections \cup {None},
             NEW id \in SwitchIds, ActivateFences(c, expected, id)
      PROVE  GroupIInv'
  <2> USE <1>4 DEF ActivateFences, TypeOK
  <2>1. \A d \in Connections : ~flag'[d]
    OBVIOUS
  <2>2. HeldMeansDown' /\ FlagsFollowGroup'
    BY <2>1
  <2>3. SnapshotSettles'
    OBVIOUS
  <2> QED
    BY <1>0, <2>2, <2>3
<1>5. ASSUME NEW c \in Connections, ActivateCommits(c) PROVE GroupIInv'
  BY <1>0, <1>5 DEF ActivateCommits, TypeOK
<1>6. ASSUME NEW c \in Connections, Refresh(c) PROVE GroupIInv'
  BY <1>0, <1>6 DEF Refresh, TypeOK
<1>7. ASSUME NEW c \in Connections, Close(c) PROVE GroupIInv'
  BY <1>0, <1>7 DEF Close, TypeOK
<1>8. ASSUME NEW c \in Connections, LeaseFalls(c) PROVE GroupIInv'
  BY <1>0, <1>8 DEF LeaseFalls, TypeOK
<1>9. ASSUME NEW c \in Connections, LeaseLeaves(c) PROVE GroupIInv'
  BY <1>0, <1>9 DEF LeaseLeaves, TypeOK
\* The steps of a request leave the group alone.
<1>10. CASE UNCHANGED <<pc, args, mutex, group, flag, presence, owners>>
  BY <1>0, <1>10
<1> QED
  BY <1>1, <1>2, <1>3, <1>4, <1>5, <1>6, <1>7, <1>8, <1>9, <1>10
  DEF Next, Activate, vars, Receive, Spawn, Refuse, Accept, Call, Stop

\* Every step keeps what is said of the requests waiting in queues.
LEMMA StepQueued == IInv /\ [Next]_vars => QueuedAreOwned'
<1> SUFFICES ASSUME IInv, [Next]_vars, NEW d \in Connections, NEW i \in 1 .. Len(queue'[d])
             PROVE  StillOwned(d, queue'[d][i])
  BY DEF QueuedAreOwned, Owned, StillOwned
<1>0. \A c \in Connections : queue[c] \in Seq(Nat)
  BY CapacityAssumption DEF IInv, TypeOK
<1>1. ASSUME NEW j \in 1 .. Len(queue[d]), queue'[d][i] = queue[d][j]
      PROVE  StillOwned(d, queue'[d][i])
  <2>1. Owned(d, queue[d][j]) /\ queue[d][j] \in Nat
    BY <1>0 DEF IInv, QueuedAreOwned, Owned
  <2> QED
    BY <1>1, <2>1, OwnedStays
<1>2. CASE UNCHANGED queue
  BY <1>1, <1>2
<1>3. ASSUME NEW c \in Connections, Receive(c) PROVE StillOwned(d, queue'[d][i])
  <2>1. Owned(c, Len(owners)) /\ owners' = owners
    BY <1>3, ServingOwns DEF Receive
  <2>2. \/ i \in 1 .. Len(queue[d]) /\ queue'[d][i] = queue[d][i]
        \/ d = c /\ queue'[d][i] = Len(owners)
    BY <1>0, <1>3 DEF Receive, IInv, TypeOK
  <2> QED
    BY <1>1, <2>1, <2>2 DEF Owned, StillOwned
<1>4. ASSUME NEW c \in Connections, NEW k \in Slots, Spawn(c, k)
      PROVE  StillOwned(d, queue'[d][i])
  <2>1. \E j \in 1 .. Len(queue[d]) : queue'[d][i] = queue[d][j]
    <3>1. CASE d = c
      <4>1. queue'[d] = Tail(queue[d]) /\ queue[d] # <<>>
        BY <1>4, <3>1 DEF Spawn, IInv, TypeOK
      <4>2. queue[d] \in Seq(Nat) /\ i \in 1 .. Len(Tail(queue[d]))
        BY <1>0, <4>1
      <4>3. i + 1 \in 1 .. Len(queue[d]) /\ Tail(queue[d])[i] = queue[d][i + 1]
        BY <4>1, <4>2
      <4> QED
        BY <4>1, <4>3
    <3>2. CASE d # c
      BY <1>4, <3>2 DEF Spawn, IInv, TypeOK
    <3> QED
      BY <3>1, <3>2
  <2> QED
    BY <1>1, <2>1
<1>5. ASSUME NEW c \in Connections, LeaseFalls(c) PROVE StillOwned(d, queue'[d][i])
  <2>1. d # c /\ queue'[d] = queue[d]
    BY <1>5 DEF LeaseFalls, IInv, TypeOK
  <2> QED
    BY <1>1, <2>1
<1> QED
  BY <1>2, <1>3, <1>4, <1>5
  DEF Next, vars, requests, Prepare, Handshake, Activate, ActivateUnchanged,
      ActivateFences, ActivateCommits, Refresh, Refuse, Accept, Call, Stop, Close,
      LeaseLeaves

\* Every step keeps what is said of the requests in tasks.
LEMMA StepTasks == IInv /\ [Next]_vars => TasksAreOwned'
<1> SUFFICES ASSUME IInv, [Next]_vars, NEW d \in Connections, NEW l \in Slots
             PROVE  TaskIsOwned(d, tasks[d][l])'
  BY DEF TasksAreOwned
<1>0. /\ tasks \in [Connections -> [Slots -> Task]]
      /\ TaskIsOwned(d, tasks[d][l])
      /\ tasks[d][l].admitted \in Nat /\ tasks[d][l].accepted \in Nat
  <2>1. tasks \in [Connections -> [Slots -> Task]]
    BY DEF IInv, TypeOK
  <2>2. tasks[d][l] \in Task
    BY <2>1
  <2>3. tasks[d][l].admitted \in Nat /\ tasks[d][l].accepted \in Nat
    BY <2>2, CapacityAssumption DEF Task
  <2>4. TaskIsOwned(d, tasks[d][l])
    BY Zenon DEF IInv, TasksAreOwned
  <2> QED
    BY <2>1, <2>3, <2>4
\* A task that stays as it is, its connection not retiring.
<1>1. ASSUME tasks'[d][l] = tasks[d][l],
             pc'[d] \in {"dropping", "gone"} => pc[d] \in {"dropping", "gone"}
      PROVE  TaskIsOwned(d, tasks[d][l])'
  BY <1>0, <1>1, OwnedStays DEF TaskIsOwned, Owned, StillOwned
\* A task that ends.
<1>2. ASSUME tasks'[d][l] = Idle PROVE TaskIsOwned(d, tasks[d][l])'
  BY <1>2 DEF TaskIsOwned, Idle
<1>3. ASSUME UNCHANGED tasks,
             pc'[d] \in {"dropping", "gone"} => pc[d] \in {"dropping", "gone"}
      PROVE  TaskIsOwned(d, tasks[d][l])'
  BY <1>1, <1>3
<1>4. ASSUME NEW c \in Connections, NEW k \in Slots, Spawn(c, k)
      PROVE  TaskIsOwned(d, tasks[d][l])'
  <2>1. CASE d = c /\ l = k
    <3>1. tasks'[d][l].stage = "spawned" /\ tasks'[d][l].admitted = queue[d][1]
      BY <1>0, <1>4, <2>1 DEF Spawn, IInv, TypeOK
    <3>2. Owned(d, queue[d][1])
      BY <1>4, <2>1 DEF Spawn, IInv, TypeOK, QueuedAreOwned
    <3> QED
      BY <1>4, <3>1, <3>2 DEF TaskIsOwned, Owned, Spawn
  <2>2. CASE ~(d = c /\ l = k)
    BY <1>0, <1>1, <1>4, <2>2 DEF Spawn
  <2> QED
    BY <2>1, <2>2
<1>5. ASSUME NEW c \in Connections, NEW k \in Slots, Refuse(c, k) \/ Call(c, k) \/ Stop(c, k)
      PROVE  TaskIsOwned(d, tasks[d][l])'
  <2>1. tasks'[d][l] \in {Idle, tasks[d][l]} /\ UNCHANGED pc
    BY <1>0, <1>5 DEF Refuse, Call, Stop
  <2> QED
    BY <1>1, <1>2, <2>1
<1>6. ASSUME NEW c \in Connections, NEW k \in Slots, Accept(c, k)
      PROVE  TaskIsOwned(d, tasks[d][l])'
  <2>1. CASE d = c /\ l = k
    <3>1. /\ tasks'[d][l].stage = "accepted"
          /\ tasks'[d][l].admitted = tasks[d][l].admitted
          /\ tasks'[d][l].accepted = Len(owners)
      BY <1>0, <1>6, <2>1 DEF Accept, Task
    <3>2. Owned(d, tasks[d][l].admitted) /\ Owned(d, Len(owners))
      BY <1>0, <1>6, <2>1, ServingOwns DEF Accept, TaskIsOwned
    <3>3. tasks[d][l].admitted <= Len(owners)
      BY <3>2 DEF Owned
    <3>4. UNCHANGED <<owners, pc>> /\ pc[d] \notin {"dropping", "gone"}
      BY <1>6, <2>1 DEF Accept, Stopped
    <3> QED
      BY <3>1, <3>2, <3>3, <3>4 DEF TaskIsOwned, Owned
  <2>2. CASE ~(d = c /\ l = k)
    BY <1>0, <1>1, <1>6, <2>2 DEF Accept
  <2> QED
    BY <2>1, <2>2
<1>7. ASSUME NEW c \in Connections, LeaseFalls(c) PROVE TaskIsOwned(d, tasks[d][l])'
  <2>1. CASE d = c
    BY <1>0, <1>2, <1>7, <2>1 DEF LeaseFalls
  <2>2. CASE d # c
    BY <1>0, <1>1, <1>7, <2>2 DEF LeaseFalls, IInv, TypeOK
  <2> QED
    BY <2>1, <2>2
<1>8. ASSUME NEW c \in Connections,
             \/ Prepare(c) \/ Handshake(c) \/ ActivateCommits(c) \/ Refresh(c)
             \/ Receive(c) \/ Close(c) \/ LeaseLeaves(c)
             \/ \E expected \in Connections \cup {None}, id \in SwitchIds :
                  ActivateUnchanged(c, expected, id) \/ ActivateFences(c, expected, id)
      PROVE  TaskIsOwned(d, tasks[d][l])'
  <2>1. UNCHANGED tasks
    BY <1>8
    DEF requests, Prepare, Handshake, ActivateUnchanged, ActivateFences, ActivateCommits,
        Refresh, Receive, Close, LeaseLeaves
  <2>2. pc'[d] \in {"dropping", "gone"} => pc[d] \in {"dropping", "gone"}
    BY <1>8
    DEF IInv, TypeOK, Prepare, Handshake, ActivateUnchanged, ActivateFences,
        ActivateCommits, Refresh, Receive, Close, LeaseLeaves
  <2> QED
    BY <1>3, <2>1, <2>2
<1>9. CASE UNCHANGED vars
  BY <1>3, <1>9 DEF vars, requests
<1> QED
  BY <1>4, <1>5, <1>6, <1>7, <1>8, <1>9 DEF Next, Activate

\* Every step keeps the invariant.
LEMMA StepIInv == IInv /\ [Next]_vars => IInv'
BY StepTypeOK, StepGroup, StepQueued, StepTasks DEF IInv, GroupIInv

THEOREM Invariance == Spec => []IInv
<1>1. Init => IInv
  BY InitIInv
<1>2. IInv /\ [Next]_vars => IInv'
  BY StepIInv
<1> QED
  BY <1>1, <1>2, PTL DEF Spec

-----------------------------------------------------------------------------
\* The state keeps its types; no commit exceeds the bound and no queue its capacity.
THEOREM TypeCorrect == Spec => []TypeOK
<1>1. IInv => TypeOK
  BY DEF IInv
<1> QED
  BY <1>1, Invariance, PTL

\* The flags that admit requests exclude each other at every instant, also between
\* the two steps of a switch.
THEOREM MutualExclusion == Spec => []AtMostOneServes
<1>1. IInv => AtMostOneServes
  BY NoneAssumption DEF IInv, GroupIInv, TypeOK, HeldMeansDown, FlagsFollowGroup, AtMostOneServes
<1> QED
  BY <1>1, Invariance, PTL

\* While the mutex is free the flags and the group agree.
THEOREM FlagsAgree == Spec => []FlagsFollowGroup
<1>1. IInv => FlagsFollowGroup
  BY DEF IInv, GroupIInv
<1> QED
  BY <1>1, Invariance, PTL

\* status and activate find the group they unwrap, whatever other leases come and go.
THEOREM NoPanic == Spec => []LeaseHasGroup
<1>1. IInv => LeaseHasGroup
  BY DEF IInv, GroupIInv, GroupIsLeases, LeaseHasGroup
<1> QED
  BY <1>1, Invariance, PTL

\* The presence shown settles on the connections that serve.
THEOREM PresenceSettles == Spec => []SnapshotSettles
<1>1. IInv => SnapshotSettles
  BY DEF IInv, GroupIInv
<1> QED
  BY <1>1, Invariance, PTL

\* A handler is only ever called for a request that was admitted and accepted in
\* ownerships of its connection, and never for a connection whose lease is gone: for
\* any number of connections and switches, ownership that returns included.
THEOREM CallsOwned == Spec => []CallsAreOwned
<1>1. IInv => CallsAreOwned
  BY DEF IInv, TasksAreOwned, TaskIsOwned, Owned, CallsAreOwned
<1> QED
  BY <1>1, Invariance, PTL

-----------------------------------------------------------------------------
(***************************************************************************)
(* The refinement: fencing yields, the rise of the new flag takes over, a  *)
(* falling lease retires its connection, and nothing else is seen.         *)
(***************************************************************************)
Serving == {c \in Connections : flag[c]}
Retired == {c \in Connections : pc[c] \in {"dropping", "gone"}}

\* An activation that fences does nothing to the retired, and leaves nobody serving.
LEMMA FenceYields ==
  ASSUME IInv, NEW c \in Connections, NEW expected \in Connections \cup {None},
         NEW id \in SwitchIds, ActivateFences(c, expected, id)
  PROVE  Serving' = {} /\ Retired' = Retired
<1> USE NoneAssumption DEF IInv, GroupIInv, TypeOK, Stages, ActivateFences
<1>1. \A d \in Connections : ~flag'[d]
  BY DEF FlagsFollowGroup, OwnerIsMember
<1>2. Serving' = {}
  BY <1>1, Zenon DEF Serving
<1>3. Retired' = Retired
  BY DEF Retired
<1> QED
  BY <1>2, <1>3

\* An activation that commits makes its connection, not retired, the only one serving.
LEMMA CommitTakes ==
  ASSUME IInv, NEW c \in Connections, ActivateCommits(c)
  PROVE  Serving = {} /\ Serving' = {c} /\ c \notin Retired /\ Retired' = Retired
BY NoneAssumption
DEF IInv, GroupIInv, TypeOK, Stages, HeldMeansDown, MutexHolder, ActivateCommits, Serving, Retired

\* A falling lease retires its connection.
LEMMA FallRetires ==
  ASSUME IInv, NEW c \in Connections, LeaseFalls(c)
  PROVE  c \notin Retired /\ Retired' = Retired \cup {c} /\ Serving' = Serving \ {c}
BY DEF IInv, GroupIInv, TypeOK, Stages, LeaseFalls, Serving, Retired

\* No other step is seen in the service.
LEMMA OthersStutter ==
  ASSUME IInv, NEW c \in Connections,
         \/ Prepare(c) \/ Handshake(c) \/ Refresh(c) \/ Receive(c)
         \/ Close(c) \/ LeaseLeaves(c)
         \/ \E k \in Slots :
              Spawn(c, k) \/ Refuse(c, k) \/ Accept(c, k) \/ Call(c, k) \/ Stop(c, k)
         \/ \E expected \in Connections \cup {None}, id \in SwitchIds :
              ActivateUnchanged(c, expected, id)
  PROVE  Serving' = Serving /\ Retired' = Retired
BY DEF IInv, GroupIInv, TypeOK, Stages, Serving, Retired, Prepare, Handshake, ActivateUnchanged,
       Refresh, Receive, Spawn, Refuse, Accept, Call, Stop, Close, LeaseLeaves

\* The group implements the service it promises: hand-overs pass through a moment
\* when nobody serves, and a connection being dropped never serves again.
THEOREM Refinement == Spec => ServiceSpec
<1> USE DEF Service!Init, Service!Next, Service!Take, Service!Yield, Service!Retire
<1>1. Init => Service!Init
  BY DEF Init
<1>2. IInv /\ [Next]_vars => [Service!Next]_<<Serving, Retired>>
  <2> SUFFICES ASSUME IInv, [Next]_vars
               PROVE  Service!Next \/ UNCHANGED <<Serving, Retired>>
    OBVIOUS
  <2>1. ASSUME NEW c \in Connections, NEW expected \in Connections \cup {None},
               NEW id \in SwitchIds, ActivateFences(c, expected, id)
        PROVE  Service!Next \/ UNCHANGED <<Serving, Retired>>
    BY <2>1, FenceYields DEF Serving, Retired
  <2>2. ASSUME NEW c \in Connections, ActivateCommits(c) PROVE Service!Next
    BY <2>2, CommitTakes DEF Serving, Retired
  <2>3. ASSUME NEW c \in Connections, LeaseFalls(c) PROVE Service!Next
    BY <2>3, FallRetires DEF Serving, Retired
  <2>4. CASE UNCHANGED vars
    BY <2>4 DEF vars, Serving, Retired
  <2> QED
    BY <2>1, <2>2, <2>3, <2>4, OthersStutter DEF Next, Activate
<1> QED
  BY <1>1, <1>2, Invariance, PTL DEF Spec, ServiceSpec, Service!Spec, Serving, Retired
=============================================================================
