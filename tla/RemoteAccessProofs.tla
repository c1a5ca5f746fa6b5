------------------------- MODULE RemoteAccessProofs -------------------------
(***************************************************************************)
(* The safety properties of RemoteSessions and of Pairing, and of the      *)
(* credential store that both work on: proved for any clients, sessions,   *)
(* operators, windows, requests and restarts, and any limits.              *)
(*                                                                         *)
(* The store comes first: one inductive invariant of it, and what a step   *)
(* of it may do to each credential.  Then the sessions and the operations  *)
(* that end them, then the pairing; the definitions and the theorems of    *)
(* the latter are named after it.                                          *)
(***************************************************************************)
EXTENDS RemoteSessions, Pairing, FiniteSetTheorems, TLAPS

-----------------------------------------------------------------------------
(***************************************************************************)
(* The credential store.                                                   *)
(*                                                                         *)
(* That a restart brings no access back needs more than DiskNeverBehind:   *)
(* a save that was reported as failed may have changed the file, so a      *)
(* credential may be on disk that the Host never had, and one may be gone  *)
(* from the disk that the Host still keeps.                                *)
(***************************************************************************)

\* The file keeps every live credential, and has no deleted one.
DiskKeepsLive    == \A id \in Ids : Live(id) => id \in DOMAIN disk
DiskForgetsGone  == DOMAIN disk \cap stored \subseteq DOMAIN credentials

\* What only the file has is a credential whose save was thought to have failed.
DiskOnlyIsLive   == \A id \in DOMAIN disk \ stored : ~disk[id].revoked

DiskFits         == Cardinality(DOMAIN disk) <= MaxCredentials

StoreIInv ==
  /\ StoreTypeOK
  /\ DiskNeverBehind /\ DiskKeepsLive /\ DiskForgetsGone /\ DiskOnlyIsLive /\ DiskFits

\* The steps of the store, as other modules take them.
StoreNext ==
  \/ \E client \in Clients, saved \in BOOLEAN : Issue(client, saved) \/ RevokeClient(client, saved)
  \/ \E id \in Ids, saved \in BOOLEAN :
       ValidateBearer(id, saved) \/ RevokeCurrent(id, saved) \/ DeleteRevokedClient(id, saved)
  \/ StoreRestarts

\* No step takes a credential back in its life, or lets it skip the revocation.
Forward ==
  /\ issued <= issued'
  /\ stored \subseteq stored'
  /\ \A id \in stored : ~Live(id) => ~Live(id)'
  /\ \A id \in stored \ DOMAIN credentials : id \notin DOMAIN credentials'
  /\ \A id \in DOMAIN credentials \ DOMAIN credentials' : credentials[id].revoked
  /\ \A id \in stored' \ stored : Live(id)'

-----------------------------------------------------------------------------
\* A table is a function on some of the ids.
LEMMA TableIsFunction ==
  ASSUME NEW f
  PROVE  f \in Tables <=> DOMAIN f \subseteq Ids /\ f \in [DOMAIN f -> Record]
<1>1. ASSUME f \in Tables PROVE DOMAIN f \subseteq Ids /\ f \in [DOMAIN f -> Record]
  <2>1. PICK S \in SUBSET Ids : f \in [S -> Record]
    BY <1>1 DEF Tables
  <2> QED
    BY <2>1
<1>2. ASSUME DOMAIN f \subseteq Ids, f \in [DOMAIN f -> Record] PROVE f \in Tables
  BY <1>2 DEF Tables
<1> QED
  BY <1>1, <1>2

\* Restricting a table or changing some of its records makes a table.
LEMMA FewerRecords ==
  ASSUME NEW f \in Tables, NEW S \in SUBSET DOMAIN f
  PROVE  [id \in S |-> f[id]] \in Tables
BY TableIsFunction DEF Record

LEMMA IdsFinite == \A S \in SUBSET Ids : IsFiniteSet(S)
<1>1. IsFiniteSet(Ids)
  BY IssueAssumption, FS_Interval DEF Ids
<1> QED
  BY <1>1, FS_Subset

\* A smaller table is within the limit.
LEMMA FewerFit ==
  ASSUME StoreTypeOK, NEW S \in SUBSET DOMAIN credentials
  PROVE  Cardinality(S) <= MaxCredentials
<1>1. IsFiniteSet(DOMAIN credentials)
  BY IdsFinite, TableIsFunction DEF StoreTypeOK
<1>2. Cardinality(S) <= Cardinality(DOMAIN credentials) /\ Cardinality(S) \in Nat
      /\ Cardinality(DOMAIN credentials) \in Nat
  BY <1>1, FS_Subset, FS_CardinalityType
<1> QED
  BY <1>2, IssueAssumption DEF StoreTypeOK

-----------------------------------------------------------------------------
(* What the copy that is saved may say of the credentials.                 *)
Evolved(updated) ==
  /\ updated \in Tables
  /\ DOMAIN updated \subseteq 1 .. issued'
  /\ Cardinality(DOMAIN updated) <= MaxCredentials
  /\ \A id \in DOMAIN updated \cap DOMAIN credentials :
       credentials[id].revoked => updated[id].revoked
  /\ \A id \in DOMAIN credentials \ DOMAIN updated : credentials[id].revoked
  /\ \A id \in DOMAIN updated \ DOMAIN credentials : id \notin stored /\ ~updated[id].revoked

\* A save of such a copy keeps the invariant, whether it succeeds or not.
LEMMA PersistStep ==
  ASSUME StoreIInv, NEW updated, Evolved(updated), NEW saved \in BOOLEAN,
         Persist(updated, saved), issued' \in 0 .. MaxIssued, issued <= issued'
  PROVE  StoreIInv' /\ Forward
<1> USE IssueAssumption DEF Evolved, StoreIInv, StoreTypeOK, DiskNeverBehind, DiskKeepsLive,
        DiskForgetsGone, DiskOnlyIsLive, DiskFits, Forward, Live
<1>0. \A id \in 1 .. issued : id \in Ids /\ id \in 1 .. issued'
  BY DEF Ids
<1>1. CASE saved
  BY <1>0, <1>1 DEF Persist
<1>2. CASE ~saved
  <2>1. disk' \in {disk, updated} /\ credentials' = credentials /\ stored' = stored
    BY <1>2 DEF Persist
  <2>2. StoreTypeOK'
    BY <1>0, <2>1
  <2>3. CASE disk' = disk
    BY <2>1, <2>2, <2>3
  <2>4. CASE disk' = updated
    BY <2>1, <2>2, <2>4
  <2> QED
    BY <2>1, <2>3, <2>4
<1> QED
  BY <1>1, <1>2

LEMMA IssueStep ==
  ASSUME StoreIInv, NEW client \in Clients, NEW saved \in BOOLEAN, Issue(client, saved)
  PROVE  StoreIInv' /\ Forward
<1> DEFINE new == issued + 1
           record == [client |-> client, revoked |-> FALSE]
           updated == [id \in DOMAIN credentials \cup {new} |->
                         IF id = new THEN record ELSE credentials[id]]
<1>1. /\ new \in Ids /\ new \notin stored /\ issued' = new /\ issued' \in 0 .. MaxIssued
      /\ issued <= issued'
  BY IssueAssumption DEF Issue, StoreIInv, StoreTypeOK, Ids
<1>2. DOMAIN credentials \subseteq Ids /\ credentials \in [DOMAIN credentials -> Record]
  BY TableIsFunction DEF StoreIInv, StoreTypeOK
<1>3. record \in Record
  BY DEF Record
<1>4. updated \in Tables
  <2>1. updated \in [DOMAIN credentials \cup {new} -> Record]
    BY <1>2, <1>3
  <2> QED
    BY <1>1, <1>2, <2>1, TableIsFunction
<1>5. Cardinality(DOMAIN updated) <= MaxCredentials
  <2>1. IsFiniteSet(DOMAIN credentials)
    BY <1>2, IdsFinite
  <2> HIDE DEF new
  <2>2. /\ Cardinality(DOMAIN credentials) \in Nat
        /\ \/ Cardinality(DOMAIN credentials \cup {new}) = Cardinality(DOMAIN credentials)
           \/ Cardinality(DOMAIN credentials \cup {new}) = Cardinality(DOMAIN credentials) + 1
    BY <2>1, FS_AddElement, FS_CardinalityType
  <2>3. Cardinality(DOMAIN credentials) < MaxCredentials
    BY DEF Issue
  <2> QED
    BY <2>2, <2>3, IssueAssumption
<1>6. Evolved(updated)
  <2>1. new \notin DOMAIN credentials /\ DOMAIN credentials \subseteq stored
    BY <1>1 DEF StoreIInv, StoreTypeOK
  <2>2. DOMAIN updated \subseteq 1 .. issued'
    <3>0. issued \in Nat /\ stored \subseteq 1 .. issued
      BY IssueAssumption DEF StoreIInv, StoreTypeOK
    <3>1. DOMAIN credentials \subseteq 1 .. issued
      BY <2>1, <3>0, Zenon
    <3>2. DOMAIN credentials \subseteq 1 .. issued + 1 /\ issued + 1 \in 1 .. issued + 1
      BY <3>0, <3>1
    <3> QED
      BY <1>1, <3>2
  <2> HIDE DEF new
  <2>3. /\ \A id \in DOMAIN updated \cap DOMAIN credentials : updated[id] = credentials[id]
        /\ \A id \in DOMAIN updated \ DOMAIN credentials : id = new /\ updated[id] = record
        /\ DOMAIN credentials \subseteq DOMAIN updated
    BY <2>1
  <2> QED
    BY <1>1, <1>4, <1>5, <2>2, <2>3 DEF Evolved
<1>7. Persist(updated, saved)
  BY DEF Issue
<1> HIDE DEF updated
<1> QED
  BY <1>1, <1>6, <1>7, PersistStep

\* Revoking some of the records.
LEMMA RevokedEvolves ==
  ASSUME StoreIInv, issued' = issued, NEW ids PROVE Evolved(Revoked(ids))
<1>1. DOMAIN credentials \subseteq Ids /\ credentials \in [DOMAIN credentials -> Record]
  BY TableIsFunction DEF StoreIInv, StoreTypeOK
<1>2. /\ DOMAIN Revoked(ids) = DOMAIN credentials
      /\ \A id \in DOMAIN credentials :
           /\ Revoked(ids)[id] \in Record
           /\ Revoked(ids)[id].revoked = (credentials[id].revoked \/ id \in ids)
  BY <1>1 DEF Revoked, Record
<1>3. Revoked(ids) \in [DOMAIN credentials -> Record]
  BY <1>1 DEF Revoked, Record
<1>4. Revoked(ids) \in Tables
  BY <1>1, <1>2, <1>3, TableIsFunction
<1>5. DOMAIN credentials \subseteq 1 .. issued' /\ Cardinality(DOMAIN credentials) <= MaxCredentials
  BY DEF StoreIInv, StoreTypeOK
<1> QED
  BY <1>2, <1>4, <1>5 DEF Evolved

\* Dropping revoked records.
LEMMA RestrictionEvolves ==
  ASSUME StoreIInv, issued' = issued, NEW S \in SUBSET DOMAIN credentials,
         \A id \in DOMAIN credentials \ S : credentials[id].revoked
  PROVE  Evolved([id \in S |-> credentials[id]])
<1>1. [id \in S |-> credentials[id]] \in Tables
  BY FewerRecords DEF StoreIInv, StoreTypeOK
<1>2. Cardinality(S) <= MaxCredentials
  BY FewerFit DEF StoreIInv
<1> QED
  BY <1>1, <1>2 DEF Evolved, StoreIInv, StoreTypeOK

-----------------------------------------------------------------------------
LEMMA StoreInitIInv == StoreInit => StoreIInv
<1> SUFFICES ASSUME StoreInit PROVE StoreIInv
  OBVIOUS
<1>1. credentials = disk /\ DOMAIN credentials = {} /\ credentials \in [{} -> Record]
  BY DEF StoreInit
<1>2. credentials \in Tables /\ disk \in Tables
  BY <1>1, TableIsFunction
<1>3. Cardinality(DOMAIN credentials) = 0
  BY <1>1, FS_EmptySet
<1> QED
  BY <1>1, <1>2, <1>3, IssueAssumption
  DEF StoreInit, StoreIInv, StoreTypeOK, DiskNeverBehind, DiskKeepsLive, DiskForgetsGone,
      DiskOnlyIsLive, DiskFits, Live

\* Every step of the store keeps its invariant and moves credentials forward only.
LEMMA StoreStep ==
  ASSUME StoreIInv, StoreNext \/ UNCHANGED store
  PROVE  StoreIInv' /\ Forward
<1> USE DEF StoreIInv
<1>0. issued \in 0 .. MaxIssued /\ issued <= issued
  BY IssueAssumption DEF StoreTypeOK
<1>1. ASSUME NEW client \in Clients, NEW saved \in BOOLEAN, Issue(client, saved)
      PROVE  StoreIInv' /\ Forward
  BY <1>1, IssueStep
<1>2. ASSUME NEW client \in Clients, NEW saved \in BOOLEAN, RevokeClient(client, saved)
      PROVE  StoreIInv' /\ Forward
  <2> DEFINE live == {id \in RecordsOf(client) : Live(id)}
  <2>1. issued' = issued
    BY <1>2 DEF RevokeClient
  <2>2. CASE live = {}
    <3>1. UNCHANGED store
      BY <1>2, <2>1, <2>2 DEF RevokeClient, store
    <3> QED
      BY <1>0, <3>1 DEF store, StoreTypeOK, Forward, DiskNeverBehind, DiskKeepsLive,
         DiskForgetsGone, DiskOnlyIsLive, DiskFits, Live
  <2>3. CASE live # {}
    <3>1. Persist(Revoked(live), saved)
      BY <1>2, <2>3 DEF RevokeClient
    <3> HIDE DEF live
    <3> QED
      BY <1>0, <2>1, <3>1, RevokedEvolves, PersistStep
  <2> QED
    BY <2>2, <2>3
<1>3. ASSUME NEW id \in Ids, NEW saved \in BOOLEAN, ValidateBearer(id, saved)
      PROVE  StoreIInv' /\ Forward
  <2>1. Evolved(credentials)
    BY <1>3 DEF ValidateBearer, Evolved, StoreTypeOK
  <2> QED
    BY <1>0, <1>3, <2>1, PersistStep DEF ValidateBearer
<1>4. ASSUME NEW id \in Ids, NEW saved \in BOOLEAN, RevokeCurrent(id, saved)
      PROVE  StoreIInv' /\ Forward
  BY <1>0, <1>4, RevokedEvolves, PersistStep DEF RevokeCurrent
<1>5. ASSUME NEW id \in Ids, NEW saved \in BOOLEAN, DeleteRevokedClient(id, saved)
      PROVE  StoreIInv' /\ Forward
  <2> DEFINE S == DOMAIN credentials \ RecordsOf(credentials[id].client)
  <2>1. Persist([other \in S |-> credentials[other]], saved) /\ issued' = issued
    BY <1>5 DEF DeleteRevokedClient
  <2>2. \A other \in DOMAIN credentials \ S : credentials[other].revoked
    <3>1. \A other \in RecordsOf(credentials[id].client) : ~Live(other)
      BY <1>5 DEF DeleteRevokedClient, Deletable
    <3> QED
      BY <3>1 DEF Live
  <2>3. S \in SUBSET DOMAIN credentials
    OBVIOUS
  <2> HIDE DEF S
  <2>4. Evolved([other \in S |-> credentials[other]])
    BY <2>1, <2>2, <2>3, RestrictionEvolves
  <2> QED
    BY <1>0, <2>1, <2>4, PersistStep
<1>6. CASE StoreRestarts
  <2> USE <1>6, IssueAssumption DEF StoreRestarts, StoreTypeOK
  <2>1. StoreTypeOK'
    BY DEF DiskFits
  <2> QED
    BY <1>0, <2>1 DEF Forward, DiskNeverBehind, DiskKeepsLive, DiskForgetsGone, DiskOnlyIsLive, DiskFits, Live, Ids
<1>7. CASE UNCHANGED store
  BY <1>0, <1>7 DEF store, StoreTypeOK, Forward, DiskNeverBehind, DiskKeepsLive,
     DiskForgetsGone, DiskOnlyIsLive, DiskFits, Live
<1> QED
  BY <1>1, <1>2, <1>3, <1>4, <1>5, <1>6, <1>7 DEF StoreNext

-----------------------------------------------------------------------------
(***************************************************************************)
(* The sessions.                                                           *)
(*                                                                         *)
(* What an operation reports stays true because a credential that is not   *)
(* live never becomes live again (StoreStep, over failed saves and         *)
(* restarts) and because the operation that waits holds the inner lock, so *)
(* that the listener it counts the sessions of is not taken away.          *)
(***************************************************************************)

SlotsFinite == IsFiniteSet(Slots)

\* A session past its first check knows its credential.
AdmittedKnows == \A s \in Sessions : stage[s] # "idle" => peer[s] \in Ids

\* Waiting and deleting are done with the inner lock in hand, and the
\* listener is there as long as somebody waits.
InnerHeld ==
  \A o \in Operators : task[o] # None =>
    /\ task[o].step \in {"waiting", "deleting"} => inner = o
    /\ task[o].step = "waiting" => listener = "installed"

TargetsKnown == \A o \in Operators : task[o] # None => task[o].ids \subseteq stored

\* What was reported disconnected is dead, for ever, and nobody serves it.
DrainedDead     == \A id \in drained : id \in stored /\ ~Live(id)
DrainedUnserved == \A s \in Sessions : stage[s] = "serving" => peer[s] \notin drained

\* The credentials whose sessions have to end are dead, and the registry's
\* shutdown told every session: nobody finds one in a group afterwards.
EndedDead   == \A id \in ended : id \in stored /\ ~Live(id)
StoppedTold == listener = "stopped" =>
                 \A s \in Sessions : stage[s] \in {"registered", "serving"} => signalled[s]

IInv ==
  /\ TypeOK /\ StoreIInv
  /\ SlotsFinite /\ AdmittedKnows /\ InnerHeld /\ TargetsKnown
  /\ DrainedDead /\ DrainedUnserved
  /\ EndedDead /\ StoppedTold /\ EndedAreTold

-----------------------------------------------------------------------------
LEMMA KnownIds ==
  StoreIInv => DOMAIN credentials \subseteq Ids /\ 1 .. issued \subseteq Ids /\ stored \subseteq Ids
<1> SUFFICES ASSUME StoreIInv PROVE DOMAIN credentials \subseteq Ids /\ 1 .. issued \subseteq Ids
                                   /\ stored \subseteq Ids
  OBVIOUS
<1>1. DOMAIN credentials \subseteq Ids
  BY TableIsFunction DEF StoreIInv, StoreTypeOK
<1>2. issued \in 0 .. MaxIssued /\ stored \subseteq 1 .. issued
  BY DEF StoreIInv, StoreTypeOK
<1>3. 1 .. issued \subseteq Ids
  BY <1>2, IssueAssumption DEF Ids
<1> QED
  BY <1>1, <1>2, <1>3, Zenon

(* The store.                                                              *)

\* A check of a credential is a step of the store, and a live one is let in.
LEMMA CheckIsStep ==
  ASSUME NEW s \in Sessions, NEW id \in Ids, NEW usable \in BOOLEAN, Check(s, id, usable)
  PROVE  /\ StoreNext \/ UNCHANGED store
         /\ usable => Live(id)
BY DEF Check, StoreNext, ValidateBearer, store

LEMMA StepStores == IInv /\ [Next]_vars => StoreIInv' /\ Forward
<1> SUFFICES ASSUME IInv, [Next]_vars PROVE StoreNext \/ UNCHANGED store
  BY StoreStep DEF IInv
<1>1. \A s \in Sessions, id \in Ids, usable \in BOOLEAN :
        Check(s, id, usable) => StoreNext \/ UNCHANGED store
  BY CheckIsStep
<1>2. DOMAIN credentials \subseteq Ids /\ 1 .. issued \subseteq Ids
  BY KnownIds DEF IInv
<1>3. ASSUME NEW s \in Sessions, SessionStep(s) PROVE StoreNext \/ UNCHANGED store
  BY <1>1, <1>2, <1>3
  DEF SessionStep, Arrive, Register, Revalidate, Disconnect, Obey, IInv, AdmittedKnows
<1>4. ASSUME NEW o \in Operators, OperatorStep(o) PROVE StoreNext \/ UNCHANGED store
  <2>1. CASE BeginRevoke(o)
    BY <2>1 DEF BeginRevoke, StoreNext
  <2>2. CASE BeginForget(o)
    BY <1>2, <2>2 DEF BeginForget, StoreNext
  <2>3. CASE Deletes(o)
    <3>1. \A id : Deletable(id) => id \in Ids
      BY <1>2 DEF Deletable
    <3> QED
      BY <2>3, <3>1 DEF Deletes, StoreNext
  <2> QED
    BY <1>4, <2>1, <2>2, <2>3
    DEF OperatorStep, Continues, RevokeLists, BeginDelete, Disconnects, Drains, TimesOut, ForgetCancels
<1>5. CASE Grant
  BY <1>5 DEF Grant, StoreNext
<1>6. CASE Restart
  BY <1>6 DEF Restart, StoreNext
<1> QED
  BY <1>3, <1>4, <1>5, <1>6 DEF Next, Install, Take, Shutdown, vars
-----------------------------------------------------------------------------
(* Types.                                                                  *)

SessionsOK ==
  /\ stage \in [Sessions -> Stages]
  /\ peer \in [Sessions -> Ids \cup {None}]
  /\ signalled \in [Sessions -> BOOLEAN]
  /\ AdmittedKnows

OperatorsOK ==
  /\ task \in [Operators -> Task \cup {None}]
  /\ inner \in Operators \cup {None}
  /\ drained \subseteq Ids /\ ended \subseteq Ids
  /\ InnerHeld /\ TargetsKnown

MarksOK == cancelled \subseteq {id \in Ids : Group(id) # {}}
SlotsOK == SlotsFinite /\ Cardinality(Slots) <= MaxSessions

\* A cancellation changes what sessions are told, not where they are.
LEMMA CancelKeeps ==
  ASSUME NEW ids, Cancel(ids), signalled \in [Sessions -> BOOLEAN], UNCHANGED listener
  PROVE  /\ UNCHANGED <<stage, peer>>
         /\ signalled' \in [Sessions -> BOOLEAN]
         /\ cancelled' \subseteq cancelled \cup {id \in ids : Group(id)' # {}}
BY DEF Cancel, Group, Registered

LEMMA StepSessions ==
  IInv /\ [Next]_vars =>
    SessionsOK' /\ (listener \in Listeners)' /\ (restarts \in 0 .. MaxRestarts)'
<1> SUFFICES ASSUME IInv, [Next]_vars
             PROVE  SessionsOK' /\ (listener \in Listeners)' /\ (restarts \in 0 .. MaxRestarts)'
  OBVIOUS
<1> USE DEF SessionsOK, AdmittedKnows, Stages, Listeners, Moves, Leaves, sessions
<1>0. /\ SessionsOK /\ listener \in Listeners /\ restarts \in 0 .. MaxRestarts
      /\ 1 .. issued \subseteq Ids
  BY KnownIds DEF IInv, TypeOK
<1>1. ASSUME NEW s \in Sessions, SessionStep(s)
      PROVE  SessionsOK' /\ (listener \in Listeners)' /\ (restarts \in 0 .. MaxRestarts)'
  <2>0. UNCHANGED <<listener, restarts>>
    BY <1>1 DEF SessionStep, Arrive, Register, Revalidate, Disconnect, Obey
  <2>1. CASE Arrive(s)
    BY <1>0, <2>0, <2>1 DEF Arrive
  <2>2. CASE Register(s)
    BY <1>0, <2>0, <2>2 DEF Register
  <2>3. CASE Revalidate(s)
    BY <1>0, <2>0, <2>3 DEF Revalidate
  <2>4. CASE Disconnect(s) \/ Obey(s)
    BY <1>0, <2>0, <2>4 DEF Disconnect, Obey
  <2> QED
    BY <1>1, <2>1, <2>2, <2>3, <2>4 DEF SessionStep
<1>2. ASSUME NEW o \in Operators, OperatorStep(o)
      PROVE  SessionsOK' /\ (listener \in Listeners)' /\ (restarts \in 0 .. MaxRestarts)'
  <2>0. UNCHANGED <<listener, restarts>>
    BY <1>2 DEF OperatorStep, BeginRevoke, BeginDelete, BeginForget, Disconnects, Continues,
       RevokeLists, Drains, TimesOut, Deletes, ForgetCancels
  <2>1. CASE Disconnects(o) \/ ForgetCancels(o)
    BY <1>0, <2>0, <2>1, CancelKeeps DEF Disconnects, ForgetCancels
  <2>2. CASE UNCHANGED sessions
    BY <1>0, <2>0, <2>2
  <2> QED
    BY <1>2, <2>1, <2>2
    DEF OperatorStep, BeginRevoke, BeginDelete, BeginForget, Continues,
       RevokeLists, Drains, TimesOut, Deletes
<1>3. CASE Install \/ Take
  BY <1>0, <1>3 DEF Install, Take
<1>4. CASE Shutdown
  BY <1>0, <1>4 DEF Shutdown
<1>5. CASE Restart
  BY <1>0, <1>5, SessionAssumption DEF Restart, SessionsReset
<1>6. CASE Grant
  BY <1>0, <1>6 DEF Grant
<1>7. CASE UNCHANGED vars
  BY <1>0, <1>7 DEF vars
<1> QED
  BY <1>1, <1>2, <1>3, <1>4, <1>5, <1>6, <1>7 DEF Next

\* What may be in a record of a task.
LEMMA RecordsKnown ==
  ASSUME StoreIInv
  PROVE  /\ \A client : RecordsOf(client) \in SUBSET Ids /\ RecordsOf(client) \subseteq stored
         /\ \A id \in DOMAIN credentials : credentials[id].client \in Clients /\ id \in Ids /\ id \in stored
<1>1. credentials \in [DOMAIN credentials -> Record]
  BY TableIsFunction DEF StoreIInv, StoreTypeOK
<1>2. DOMAIN credentials \subseteq stored
  BY DEF StoreIInv, StoreTypeOK
<1> QED
  BY <1>1, <1>2, KnownIds DEF RecordsOf, Record

LEMMA StepOperators == IInv /\ [Next]_vars => OperatorsOK'
<1> SUFFICES ASSUME IInv, [Next]_vars PROVE OperatorsOK'
  OBVIOUS
<1> USE SessionAssumption
    DEF OperatorsOK, InnerHeld, TargetsKnown, Does, Advances, Ends, Task, Steps, operators
<1>0. OperatorsOK
  BY DEF IInv, TypeOK
<1>1. stored \subseteq stored' /\ StoreIInv /\ stored \subseteq Ids
  BY StepStores, KnownIds DEF Forward, IInv
<1>2. ASSUME NEW s \in Sessions, SessionStep(s) PROVE OperatorsOK'
  <2>1. UNCHANGED <<operators, listener>>
    BY <1>2 DEF SessionStep, Arrive, Register, Revalidate, Disconnect, Obey
  <2> QED
    BY <1>0, <1>1, <2>1
<1>3. ASSUME NEW o \in Operators, OperatorStep(o) PROVE OperatorsOK'
  <2>0. UNCHANGED listener
    BY <1>3 DEF OperatorStep, BeginRevoke, BeginDelete, BeginForget, Disconnects, Continues,
       RevokeLists, Drains, TimesOut, Deletes, ForgetCancels
  <2>1. CASE BeginRevoke(o)
    BY <1>0, <1>1, <2>0, <2>1 DEF BeginRevoke
  <2>2. CASE BeginDelete(o)
    <3>1. PICK id \in DOMAIN credentials :
            Does(o, "delete", "listed", credentials[id].client, RecordsOf(credentials[id].client))
      BY <2>2 DEF BeginDelete
    <3>2. /\ credentials[id].client \in Clients
          /\ RecordsOf(credentials[id].client) \in SUBSET Ids
          /\ RecordsOf(credentials[id].client) \subseteq stored
      BY <1>1, RecordsKnown
    <3> QED
      BY <1>0, <1>1, <2>0, <2>2, <3>1, <3>2 DEF BeginDelete
  <2>3. CASE BeginForget(o)
    <3>1. PICK id \in DOMAIN credentials, saved \in BOOLEAN :
            IF saved
            THEN /\ Does(o, "forget", "forgotten", credentials[id].client, {id})
                 /\ ended' = ended \cup {id}
            ELSE UNCHANGED <<task, ended>>
      BY <2>3 DEF BeginForget
    <3>2. credentials[id].client \in Clients /\ id \in Ids /\ id \in stored
      BY <1>1, RecordsKnown
    <3> QED
      BY <1>0, <1>1, <2>0, <2>3, <3>1, <3>2 DEF BeginForget
  <2>4. CASE Disconnects(o)
    BY <1>0, <1>1, <2>0, <2>4 DEF Disconnects
  <2>5. CASE RevokeLists(o)
    <3>1. /\ RecordsOf(task[o].client) \in SUBSET Ids
          /\ RecordsOf(task[o].client) \subseteq stored
      BY <1>1, RecordsKnown
    <3> QED
      BY <1>0, <1>1, <2>0, <2>5, <3>1 DEF RevokeLists
  <2>6. CASE Drains(o)
    BY <1>0, <1>1, <2>0, <2>6 DEF Drains
  <2>7. CASE TimesOut(o) \/ ForgetCancels(o)
    BY <1>0, <1>1, <2>0, <2>7 DEF TimesOut, ForgetCancels
  <2>8. CASE Deletes(o)
    BY <1>0, <1>1, <2>0, <2>8 DEF Deletes
  <2> QED
    BY <1>3, <2>1, <2>2, <2>3, <2>4, <2>5, <2>6, <2>7, <2>8 DEF OperatorStep, Continues
<1>4. CASE Install \/ Take \/ Shutdown
  BY <1>0, <1>1, <1>4 DEF Install, Take, Shutdown
<1>5. CASE Restart
  BY <1>0, <1>1, <1>5 DEF Restart, SessionsReset
<1>6. CASE Grant
  BY <1>0, <1>1, <1>6 DEF Grant
<1>7. CASE UNCHANGED vars
  BY <1>0, <1>1, <1>7 DEF vars
<1> QED
  BY <1>2, <1>3, <1>4, <1>5, <1>6, <1>7 DEF Next

-----------------------------------------------------------------------------
(* Slots and marks.                                                        *)

\* Slots are the sessions that are registered.
LEMMA SlotsAre ==
  AdmittedKnows => Slots = {s \in Sessions : stage[s] \in {"registered", "serving"}}
BY DEF AdmittedKnows, Slots, Registered

LEMMA StepSlots == IInv /\ [Next]_vars => SlotsOK'
<1> SUFFICES ASSUME IInv, [Next]_vars PROVE SlotsOK'
  OBVIOUS
<1> DEFINE Holders == {s \in Sessions : stage[s] \in {"registered", "serving"}}
<1>1. Slots = Holders
  BY SlotsAre DEF IInv
<1>2. Slots' = Holders'
  BY SlotsAre, StepSessions DEF SessionsOK, AdmittedKnows, Slots, Registered
<1>3. SlotsOK
  BY DEF IInv, TypeOK, SlotsOK
<1>4. ASSUME Holders' \subseteq Holders PROVE SlotsOK'
  <2>1. /\ IsFiniteSet(Holders') /\ Cardinality(Holders') <= Cardinality(Holders)
        /\ Cardinality(Holders') \in Nat /\ Cardinality(Holders) \in Nat
    BY <1>1, <1>3, <1>4, FS_Subset, FS_CardinalityType DEF SlotsOK, SlotsFinite
  <2>2. Cardinality(Holders) <= MaxSessions
    BY <1>1, <1>3 DEF SlotsOK
  <2> HIDE DEF Holders
  <2> QED
    BY <1>2, <2>1, <2>2, SessionAssumption DEF SlotsOK, SlotsFinite
<1>5. ASSUME NEW s \in Sessions, SessionStep(s) PROVE SlotsOK'
  <2>1. CASE Register(s) /\ Registrable(s)
    <3>1. Holders' = Holders \cup {s} /\ s \notin Holders
      BY <2>1 DEF Register, Moves, IInv, TypeOK
    <3>2. Cardinality(Holders) < MaxSessions /\ IsFiniteSet(Holders)
      BY <1>1, <1>3, <2>1 DEF Registrable, SlotsOK, SlotsFinite
    <3> HIDE DEF Holders
    <3>3. /\ IsFiniteSet(Holders') /\ Cardinality(Holders') = Cardinality(Holders) + 1
          /\ Cardinality(Holders) \in Nat
      BY <3>1, <3>2, FS_AddElement, FS_CardinalityType
    <3> QED
      BY <1>2, <3>2, <3>3, SessionAssumption DEF SlotsOK, SlotsFinite
  <2>2. CASE Register(s) /\ ~Registrable(s)
    BY <1>4, <2>2 DEF Register, Moves, IInv, TypeOK
  <2>3. CASE Arrive(s)
    BY <1>4, <2>3 DEF Arrive, Moves, IInv, TypeOK
  <2>4. CASE Revalidate(s)
    BY <1>4, <2>4 DEF Revalidate, Moves, Leaves, IInv, TypeOK
  <2>5. CASE Disconnect(s) \/ Obey(s)
    BY <1>4, <2>5 DEF Disconnect, Obey, Moves, Leaves, IInv, TypeOK
  <2> QED
    BY <1>5, <2>1, <2>2, <2>3, <2>4, <2>5 DEF SessionStep
<1>6. ASSUME stage' = stage PROVE SlotsOK'
  BY <1>4, <1>6
<1>7. ASSUME NEW o \in Operators, OperatorStep(o) PROVE stage' = stage
  BY <1>7 DEF OperatorStep, BeginRevoke, BeginDelete, BeginForget, Disconnects, Continues,
     RevokeLists, Drains, TimesOut, Deletes, ForgetCancels, Cancel, sessions
<1>8. CASE Restart
  BY <1>4, <1>8 DEF Restart, SessionsReset
<1>9. ASSUME Install \/ Take \/ Shutdown \/ Grant \/ UNCHANGED vars PROVE stage' = stage
  BY <1>9 DEF Install, Take, Shutdown, Grant, vars, sessions
<1> QED
  BY <1>5, <1>6, <1>7, <1>8, <1>9 DEF Next

\* A session that leaves takes itself out of its own group, and no other.
LEMMA LeavesGroup ==
  ASSUME SessionsOK, NEW s \in Sessions, Leaves(s), UNCHANGED listener
  PROVE  \A id \in Ids : Group(id)' = Group(id) \ {s}
BY DEF SessionsOK, Leaves, Moves, Group, Registered, Stages

LEMMA LeavesMarks ==
  ASSUME SessionsOK, MarksOK, NEW s \in Sessions, Leaves(s), UNCHANGED listener,
         stage[s] \in {"registered", "serving"}
  PROVE  MarksOK'
<1>1. \A id \in Ids : Group(id)' = Group(id) \ {s}
  BY LeavesGroup
<1>2. \A id \in Ids : s \in Group(id) => id = peer[s]
  BY DEF Group, Registered
<1>3. cancelled' = IF Group(peer[s]) = {s} THEN cancelled \ {peer[s]} ELSE cancelled
  BY DEF Leaves
<1>4. ASSUME NEW id \in cancelled' PROVE id \in Ids /\ Group(id)' # {}
  <2>1. id \in Ids /\ Group(id) # {} /\ id \in cancelled
    BY <1>3, <1>4 DEF MarksOK
  <2>2. CASE id = peer[s]
    BY <1>1, <1>3, <1>4, <2>1, <2>2
  <2>3. CASE id # peer[s]
    BY <1>1, <1>2, <2>1, <2>3
  <2> QED
    BY <2>1, <2>2, <2>3
<1> QED
  BY <1>4 DEF MarksOK

LEMMA StepMarks == IInv /\ [Next]_vars => MarksOK'
<1> SUFFICES ASSUME IInv, [Next]_vars PROVE MarksOK'
  OBVIOUS
<1>1. SessionsOK /\ MarksOK /\ OperatorsOK
  BY DEF IInv, TypeOK, SessionsOK, MarksOK, OperatorsOK
<1>2. ASSUME \A id \in Ids : Group(id) \subseteq Group(id)', cancelled' = cancelled PROVE MarksOK'
  BY <1>1, <1>2 DEF MarksOK
<1>3. ASSUME NEW s \in Sessions, SessionStep(s) PROVE MarksOK'
  <2>1. CASE Arrive(s)
    BY <1>1, <1>2, <2>1 DEF Arrive, Moves, SessionsOK, Stages, Group, Registered
  <2>2. CASE Register(s)
    BY <1>1, <1>2, <2>2 DEF Register, Moves, SessionsOK, Stages, Group, Registered
  <2>3. CASE Revalidate(s)
    <3>1. CASE Leaves(s)
      BY <1>1, <2>3, <3>1, LeavesMarks DEF Revalidate
    <3>2. CASE Moves(s, "serving", peer[s]) /\ UNCHANGED <<signalled, cancelled>>
      BY <1>1, <1>2, <2>3, <3>2 DEF Revalidate, Moves, SessionsOK, Stages, Group, Registered
    <3> QED
      BY <2>3, <3>1, <3>2 DEF Revalidate
  <2>4. CASE Disconnect(s) \/ Obey(s)
    BY <1>1, <2>4, LeavesMarks DEF Disconnect, Obey
  <2> QED
    BY <1>3, <2>1, <2>2, <2>3, <2>4 DEF SessionStep
<1>4. ASSUME NEW o \in Operators, OperatorStep(o) PROVE MarksOK'
  <2>0. UNCHANGED listener
    BY <1>4 DEF OperatorStep, BeginRevoke, BeginDelete, BeginForget, Disconnects, Continues,
       RevokeLists, Drains, TimesOut, Deletes, ForgetCancels
  <2>1. ASSUME task[o] # None, Cancel(task[o].ids) PROVE MarksOK'
    <3>1. task[o].ids \subseteq Ids
      BY <1>1, <2>1 DEF OperatorsOK, Task
    <3>2. /\ UNCHANGED <<stage, peer>>
          /\ cancelled' \subseteq cancelled \cup {id \in task[o].ids : Group(id)' # {}}
      BY <1>1, <2>0, <2>1, CancelKeeps DEF SessionsOK
    <3>3. \A id : Group(id)' = Group(id)
      BY <2>0, <3>2 DEF Group, Registered
    <3> QED
      BY <1>1, <3>1, <3>2, <3>3 DEF MarksOK
  <2>2. CASE UNCHANGED sessions
    BY <1>2, <2>0, <2>2 DEF sessions, Group, Registered
  <2> QED
    BY <1>4, <2>1, <2>2 DEF OperatorStep, BeginRevoke, BeginDelete, BeginForget, Disconnects,
       Continues, RevokeLists, Drains, TimesOut, Deletes, ForgetCancels
<1>5. CASE Install \/ Take
  BY <1>2, <1>5 DEF Install, Take, sessions, Group, Registered
<1>6. CASE Shutdown \/ Restart
  BY <1>6 DEF Shutdown, Restart, SessionsReset, MarksOK
<1>7. CASE Grant \/ UNCHANGED vars
  BY <1>2, <1>7 DEF Grant, vars, sessions, Group, Registered
<1> QED
  BY <1>3, <1>4, <1>5, <1>6, <1>7 DEF Next

-----------------------------------------------------------------------------
(* What was reported.                                                      *)

LEMMA StepDrained == IInv /\ [Next]_vars => DrainedDead' /\ DrainedUnserved'
<1> SUFFICES ASSUME IInv, [Next]_vars PROVE DrainedDead' /\ DrainedUnserved'
  OBVIOUS
<1>1. Forward /\ StoreIInv
  BY StepStores DEF IInv
<1>2. /\ SessionsOK /\ OperatorsOK /\ DrainedDead /\ DrainedUnserved /\ SessionsOK'
  BY StepSessions DEF IInv, TypeOK, SessionsOK, OperatorsOK
<1>3. ASSUME drained' = drained PROVE DrainedDead'
  BY <1>1, <1>2, <1>3 DEF DrainedDead, Forward
<1>4. ASSUME drained' = drained,
             \A s \in Sessions : stage'[s] = "serving" => stage[s] = "serving" /\ peer'[s] = peer[s]
      PROVE  DrainedDead' /\ DrainedUnserved'
  BY <1>2, <1>3, <1>4 DEF DrainedUnserved
<1>5. ASSUME NEW s \in Sessions, SessionStep(s) PROVE DrainedDead' /\ DrainedUnserved'
  <2>0. drained' = drained
    BY <1>5 DEF SessionStep, Arrive, Register, Revalidate, Disconnect, Obey, operators
  <2>1. CASE Revalidate(s) /\ stage'[s] = "serving"
    <3>1. Live(peer[s])
      <4>1. peer[s] \in Ids /\ stage[s] = "registered"
        BY <1>2, <2>1 DEF Revalidate, SessionsOK, AdmittedKnows
      <4> QED
        BY <1>2, <2>1, <4>1, CheckIsStep DEF Revalidate, Leaves, Moves, SessionsOK
    <3>2. peer[s] \notin drained
      BY <1>2, <3>1 DEF DrainedDead
    <3>3. /\ peer'[s] = peer[s]
          /\ \A d \in Sessions \ {s} : stage'[d] = stage[d] /\ peer'[d] = peer[d]
      BY <1>2, <2>1 DEF Revalidate, Leaves, Moves, SessionsOK
    <3> QED
      BY <1>2, <1>3, <2>0, <3>2, <3>3 DEF DrainedUnserved
  <2>2. CASE Revalidate(s) /\ stage'[s] # "serving"
    BY <1>2, <1>4, <2>0, <2>2 DEF Revalidate, Leaves, Moves, SessionsOK
  <2>3. CASE Arrive(s) \/ Register(s)
    BY <1>2, <1>4, <2>0, <2>3 DEF Arrive, Register, Moves, SessionsOK
  <2>4. CASE Disconnect(s) \/ Obey(s)
    BY <1>2, <1>4, <2>0, <2>4 DEF Disconnect, Obey, Leaves, Moves, SessionsOK
  <2> QED
    BY <1>5, <2>1, <2>2, <2>3, <2>4 DEF SessionStep
<1>6. ASSUME NEW o \in Operators, OperatorStep(o) PROVE DrainedDead' /\ DrainedUnserved'
  <2>0. UNCHANGED <<stage, peer>>
    BY <1>6 DEF OperatorStep, BeginRevoke, BeginDelete, BeginForget, Disconnects, Continues,
       RevokeLists, Drains, TimesOut, Deletes, ForgetCancels, Cancel, sessions
  <2>1. CASE Drains(o)
    <3>1. /\ listener = "installed" /\ task[o].ids \subseteq stored /\ task[o].ids \subseteq Ids
      BY <1>2, <2>1 DEF Drains, OperatorsOK, InnerHeld, TargetsKnown, Task
    <3>2. \A s \in Sessions : stage[s] = "serving" => peer[s] \notin task[o].ids
      BY <2>1, <3>1 DEF Drains, Members, Group, Registered
    <3>3. drained' = drained \cup {id \in task[o].ids : ~Live(id)} /\ UNCHANGED store
      BY <2>1 DEF Drains
    <3>4. DrainedDead'
      BY <1>2, <3>1, <3>3 DEF DrainedDead, Live, store
    <3>5. DrainedUnserved'
      BY <1>2, <2>0, <3>2, <3>3 DEF DrainedUnserved
    <3> QED
      BY <3>4, <3>5
  <2>2. CASE drained' = drained
    BY <1>4, <2>0, <2>2
  <2> QED
    BY <1>6, <2>1, <2>2 DEF OperatorStep, BeginRevoke, BeginDelete, BeginForget, Disconnects,
       Continues, RevokeLists, TimesOut, Deletes, ForgetCancels
<1>7. CASE Install \/ Take \/ Shutdown \/ Grant \/ UNCHANGED vars
  BY <1>4, <1>7 DEF Install, Take, Shutdown, Grant, vars, sessions, operators
<1>8. CASE Restart
  BY <1>4, <1>8 DEF Restart, SessionsReset
<1> QED
  BY <1>5, <1>6, <1>7, <1>8 DEF Next

-----------------------------------------------------------------------------
(* Who was told.                                                           *)

LEMMA StepEnded == IInv /\ [Next]_vars => EndedDead'
<1> SUFFICES ASSUME IInv, [Next]_vars PROVE EndedDead'
  OBVIOUS
<1>1. Forward /\ StoreIInv /\ StoreIInv'
  BY StepStores DEF IInv
<1>2. OperatorsOK /\ EndedDead
  BY DEF IInv, TypeOK, OperatorsOK
<1>3. ASSUME ended' = ended PROVE EndedDead'
  BY <1>1, <1>2, <1>3 DEF EndedDead, Forward
<1>4. ASSUME NEW o \in Operators, Disconnects(o) PROVE EndedDead'
  <2>1. UNCHANGED store /\ task[o].ids \subseteq stored
    BY <1>2, <1>4 DEF Disconnects, OperatorsOK, TargetsKnown
  <2>2. ended' \subseteq ended \cup {id \in task[o].ids : ~Live(id)}
    BY <1>4 DEF Disconnects
  <2> QED
    BY <1>2, <2>1, <2>2 DEF EndedDead, Live, store
<1>5. ASSUME NEW o \in Operators, BeginForget(o) PROVE EndedDead'
  <2>1. PICK id \in DOMAIN credentials, saved \in BOOLEAN :
          /\ RevokeCurrent(id, saved)
          /\ saved \/ ended' = ended
          /\ ended' \subseteq ended \cup {id}
    BY <1>5 DEF BeginForget
  <2>2. CASE saved
    <3>1. credentials' = Revoked({id}) /\ id \in stored'
      BY <2>1, <2>2, TableIsFunction DEF RevokeCurrent, Persist, Revoked
    <3>2. ~Live(id)'
      BY <1>1, <2>1, <3>1, TableIsFunction DEF Revoked, Live, Record, StoreIInv, StoreTypeOK
    <3> QED
      BY <1>1, <1>2, <2>1, <3>1, <3>2 DEF EndedDead, Forward
  <2> QED
    BY <1>3, <2>1, <2>2
<1>6. ASSUME NEW o \in Operators, OperatorStep(o) PROVE EndedDead'
  BY <1>3, <1>4, <1>5, <1>6
  DEF OperatorStep, BeginRevoke, BeginDelete, Continues, RevokeLists, Drains, TimesOut, Deletes, ForgetCancels
<1>7. CASE \E s \in Sessions : SessionStep(s)
  BY <1>3, <1>7 DEF SessionStep, Arrive, Register, Revalidate, Disconnect, Obey, operators
<1> QED
  BY <1>3, <1>6, <1>7 DEF Next, Install, Take, Shutdown, Restart, Grant, vars, operators

\* What a cancellation makes true: the served sessions of a group that the
\* registry still has are told.
LEMMA CancelTells ==
  ASSUME SessionsOK, NEW ids \in SUBSET Ids, Cancel(ids)
  PROVE  /\ UNCHANGED <<stage, peer>>
         /\ \A s \in Sessions : signalled[s] => signalled'[s]
         /\ listener # "stopped" =>
              \A s \in Sessions : stage[s] = "serving" /\ peer[s] \in ids => signalled'[s]
<1>1. /\ UNCHANGED <<stage, peer>>
      /\ \A s \in Sessions : signalled'[s] <=> signalled[s] \/ s \in Members(ids)
  BY DEF SessionsOK, Cancel
<1>2. ASSUME listener # "stopped", NEW s \in Sessions, stage[s] = "serving", peer[s] \in ids
      PROVE  s \in Members(ids)
  <2>1. s \in Group(peer[s])
    BY <1>2 DEF Group, Registered
  <2> QED
    BY <1>2, <2>1 DEF Members
<1> QED
  BY <1>1, <1>2

LEMMA StepTold == IInv /\ [Next]_vars => StoppedTold' /\ EndedAreTold'
<1> SUFFICES ASSUME IInv, [Next]_vars PROVE StoppedTold' /\ EndedAreTold'
  OBVIOUS
<1>1. SessionsOK /\ OperatorsOK /\ EndedDead /\ StoppedTold /\ EndedAreTold
  BY DEF IInv, TypeOK, SessionsOK, OperatorsOK
<1>2. ASSUME NEW s \in Sessions, SessionStep(s) PROVE StoppedTold' /\ EndedAreTold'
  <2>1. UNCHANGED <<task, ended, listener>>
    BY <1>2 DEF SessionStep, Arrive, Register, Revalidate, Disconnect, Obey, operators
  <2>2. \A d \in Sessions \ {s} :
          stage'[d] = stage[d] /\ peer'[d] = peer[d] /\ signalled'[d] = signalled[d]
    BY <1>1, <1>2
    DEF SessionStep, Arrive, Register, Revalidate, Disconnect, Obey, Leaves, Moves, SessionsOK
  <2>3. ASSUME stage'[s] \in {"idle", "validated"} PROVE StoppedTold' /\ EndedAreTold'
    BY <1>1, <2>1, <2>2, <2>3 DEF StoppedTold, EndedAreTold, BeingForgotten
  <2>4. CASE Register(s) /\ Registrable(s)
    <3>1. stage'[s] = "registered" /\ listener # "stopped"
      BY <1>1, <2>4 DEF Register, Registrable, Moves, SessionsOK
    <3> QED
      BY <1>1, <2>1, <2>2, <3>1 DEF StoppedTold, EndedAreTold, BeingForgotten
  <2>5. CASE Revalidate(s) /\ stage'[s] \notin {"idle", "validated"}
    <3>1. PICK usable \in BOOLEAN :
            /\ stage[s] = "registered" /\ Check(s, peer[s], usable)
            /\ IF usable THEN Moves(s, "serving", peer[s]) /\ UNCHANGED <<signalled, cancelled>>
                         ELSE Leaves(s)
      BY <2>5 DEF Revalidate
    <3>2. usable
      BY <1>1, <2>5, <3>1 DEF Leaves, Moves, SessionsOK
    <3>3. peer[s] \in Ids
      BY <1>1, <3>1 DEF SessionsOK, AdmittedKnows
    <3>4. Live(peer[s])
      BY <3>1, <3>2, <3>3, CheckIsStep
    <3>5. stage'[s] = "serving" /\ peer'[s] = peer[s] /\ signalled'[s] = signalled[s]
      BY <1>1, <3>1, <3>2 DEF Moves, SessionsOK
    <3> QED
      BY <1>1, <2>1, <2>2, <3>1, <3>4, <3>5 DEF StoppedTold, EndedAreTold, BeingForgotten, EndedDead
  <2> QED
    BY <1>1, <1>2, <2>3, <2>4, <2>5
    DEF SessionStep, Arrive, Register, Disconnect, Obey, Leaves, Moves, SessionsOK
<1>3. ASSUME NEW o \in Operators, OperatorStep(o) PROVE StoppedTold' /\ EndedAreTold'
  <2>1. UNCHANGED <<stage, peer, listener>>
    BY <1>3 DEF OperatorStep, BeginRevoke, BeginDelete, BeginForget, Disconnects, Continues,
       RevokeLists, Drains, TimesOut, Deletes, ForgetCancels, Cancel, sessions
  <2>2. CASE Disconnects(o) /\ listener = "installed"
    <3>1. task[o].ids \in SUBSET Ids /\ task[o].step = "listed"
      BY <1>1, <2>2 DEF Disconnects, OperatorsOK, Task
    <3>2. /\ Cancel(task[o].ids) /\ Advances(o, "waiting")
          /\ ended' = ended \cup {id \in task[o].ids : ~Live(id)}
      BY <2>2 DEF Disconnects
    <3>3. /\ \A s \in Sessions : signalled[s] => signalled'[s]
          /\ \A s \in Sessions : stage[s] = "serving" /\ peer[s] \in task[o].ids => signalled'[s]
      BY <1>1, <2>2, <3>1, <3>2, CancelTells
    <3>4. \A id : BeingForgotten(id) => BeingForgotten(id)'
      BY <1>1, <3>1, <3>2 DEF BeingForgotten, Advances, OperatorsOK
    <3> QED
      BY <1>1, <2>1, <2>2, <3>2, <3>3, <3>4 DEF StoppedTold, EndedAreTold
  <2>3. CASE ForgetCancels(o)
    <3>1. task[o].ids \in SUBSET Ids /\ Cancel(task[o].ids) /\ Ends(o) /\ UNCHANGED ended
      BY <1>1, <2>3, SessionAssumption DEF ForgetCancels, OperatorsOK, Task
    <3>2. /\ \A s \in Sessions : signalled[s] => signalled'[s]
          /\ listener # "stopped" =>
               \A s \in Sessions : stage[s] = "serving" /\ peer[s] \in task[o].ids => signalled'[s]
      BY <1>1, <3>1, CancelTells
    <3>3. \A s \in Sessions : stage[s] = "serving" /\ peer[s] \in task[o].ids => signalled'[s]
      BY <1>1, <3>2 DEF StoppedTold
    <3>4. \A id : BeingForgotten(id) => id \in task[o].ids \/ BeingForgotten(id)'
      BY <1>1, <3>1 DEF BeingForgotten, Ends, OperatorsOK
    <3> QED
      BY <1>1, <2>1, <3>1, <3>2, <3>3, <3>4 DEF StoppedTold, EndedAreTold
  <2>4. CASE BeginForget(o)
    <3>1. PICK id \in DOMAIN credentials, saved \in BOOLEAN :
            IF saved
            THEN /\ Does(o, "forget", "forgotten", credentials[id].client, {id})
                 /\ ended' = ended \cup {id}
            ELSE UNCHANGED <<task, ended>>
      BY <2>4 DEF BeginForget
    <3>2. UNCHANGED signalled /\ task[o] = None
      BY <2>4 DEF BeginForget, sessions
    <3>3. \A other : BeingForgotten(other) => BeingForgotten(other)'
      BY <1>1, <3>1, <3>2 DEF BeingForgotten, Does, OperatorsOK
    <3>4. ASSUME saved PROVE BeingForgotten(id)'
      <4>1. task'[o] \in Task
        BY <1>1, <3>1, <3>4, RecordsKnown DEF Does, OperatorsOK, Task, Steps, IInv
      <4>2. task'[o].step = "forgotten" /\ id \in task'[o].ids
        BY <1>1, <3>1, <3>4 DEF Does, OperatorsOK
      <4> QED
        BY <4>1, <4>2, SessionAssumption DEF BeingForgotten
    <3> QED
      BY <1>1, <2>1, <3>1, <3>2, <3>3, <3>4 DEF StoppedTold, EndedAreTold
  <2>5. ASSUME UNCHANGED <<signalled, ended>>, task[o] = None \/ task[o].step # "forgotten",
               \A p \in Operators \ {o} : task'[p] = task[p]
        PROVE  StoppedTold' /\ EndedAreTold'
    <3>1. \A id : BeingForgotten(id) => BeingForgotten(id)'
      BY <2>5 DEF BeingForgotten
    <3> QED
      BY <1>1, <2>1, <2>5, <3>1 DEF StoppedTold, EndedAreTold
  <2>6. CASE Disconnects(o) /\ listener # "installed"
    BY <1>1, <2>5, <2>6 DEF Disconnects, sessions, Advances, Ends, OperatorsOK
  <2>7. CASE BeginRevoke(o) \/ BeginDelete(o)
    BY <1>1, <2>5, <2>7 DEF BeginRevoke, BeginDelete, sessions, Does, OperatorsOK
  <2>8. CASE RevokeLists(o) \/ Drains(o) \/ TimesOut(o) \/ Deletes(o)
    BY <1>1, <2>5, <2>8
    DEF RevokeLists, Drains, TimesOut, Deletes, sessions, Does, Advances, Ends, OperatorsOK
  <2> QED
    BY <1>3, <2>2, <2>3, <2>4, <2>6, <2>7, <2>8 DEF OperatorStep, Continues
<1>4. CASE Shutdown
  <2>1. \A s \in Sessions : signalled'[s] <=> signalled[s] \/ s \in Slots
    BY <1>1, <1>4 DEF Shutdown, SessionsOK
  <2>2. Slots = {s \in Sessions : stage[s] \in {"registered", "serving"}}
    BY <1>1, SlotsAre DEF SessionsOK
  <2> QED
    BY <1>1, <1>4, <2>1, <2>2 DEF Shutdown, StoppedTold, EndedAreTold, operators
<1>5. CASE Restart
  BY <1>5 DEF Restart, SessionsReset, StoppedTold, EndedAreTold
<1>6. CASE Install \/ Take \/ Grant \/ UNCHANGED vars
  BY <1>1, <1>6
  DEF Install, Take, Grant, vars, sessions, operators, StoppedTold, EndedAreTold, BeingForgotten
<1> QED
  BY <1>2, <1>3, <1>4, <1>5, <1>6 DEF Next

-----------------------------------------------------------------------------
LEMMA InitIInv == Init => IInv
<1> SUFFICES ASSUME Init PROVE IInv
  OBVIOUS
<1>1. StoreIInv
  BY StoreInitIInv DEF Init
<1>2. \A id : Registered(id) = {}
  BY DEF Init, Registered
<1>3. Slots = {}
  BY <1>2 DEF Slots
<1>4. IsFiniteSet(Slots) /\ Cardinality(Slots) <= MaxSessions
  BY <1>3, FS_EmptySet, SessionAssumption
<1>5. TypeOK
  BY <1>1, <1>4, SessionAssumption DEF Init, TypeOK, StoreIInv, Stages, Listeners
<1> QED
  BY <1>1, <1>4, <1>5
  DEF Init, IInv, SlotsFinite, AdmittedKnows, InnerHeld, TargetsKnown, DrainedDead, DrainedUnserved,
      EndedDead, StoppedTold, EndedAreTold

LEMMA StepIInv == IInv /\ [Next]_vars => IInv'
<1> SUFFICES ASSUME IInv, [Next]_vars PROVE IInv'
  OBVIOUS
<1>1. StoreIInv' /\ SessionsOK' /\ OperatorsOK' /\ SlotsOK' /\ MarksOK'
  BY StepStores, StepSessions, StepOperators, StepSlots, StepMarks
<1>2. (listener \in Listeners)' /\ (restarts \in 0 .. MaxRestarts)'
  BY StepSessions
<1>3. DrainedDead' /\ DrainedUnserved' /\ EndedDead' /\ StoppedTold' /\ EndedAreTold'
  BY StepDrained, StepEnded, StepTold
<1>4. TypeOK'
  BY <1>1, <1>2 DEF TypeOK, StoreIInv, SessionsOK, OperatorsOK, SlotsOK, MarksOK
<1> QED
  BY <1>1, <1>3, <1>4 DEF IInv, SessionsOK, OperatorsOK, SlotsOK

THEOREM Invariance == Spec => []IInv
BY InitIInv, StepIInv, PTL DEF Spec

\* The state of the store, the sessions, the registry and the operations is
\* what TypeOK says (remote/access.rs, remote/channels/session.rs,
\* remote_access.rs): sessions within their limit, marks on live groups only.
THEOREM TypeCorrect == Spec => []TypeOK
<1>1. IInv => TypeOK
  BY DEF IInv
<1> QED
  BY <1>1, Invariance, PTL

\* The file never says live of what was reported revoked or deleted, over
\* any failed saves and restarts (access.rs, persistence.rs).
THEOREM FileNeverBehind == Spec => []DiskNeverBehind
<1>1. IInv => DiskNeverBehind
  BY DEF IInv, StoreIInv
<1> QED
  BY <1>1, Invariance, PTL

\* No session serves with a revoked credential once an operation reported
\* it disconnected (remote_access.rs, revoke and delete; session.rs).
THEOREM DisconnectsAreTrue == Spec => []DisconnectIsTrue
<1>1. IInv => DisconnectIsTrue
  BY DEF IInv, DrainedUnserved, DisconnectIsTrue
<1> QED
  BY <1>1, Invariance, PTL

\* No session served with a credential given up, or found revoked with the
\* listener in hand, is left without the word to end (session.rs,
\* cancel_credential and shutdown; remote_access.rs).
THEOREM NoneOverlooked == Spec => []EndedAreTold
<1>1. IInv => EndedAreTold
  BY DEF IInv
<1> QED
  BY <1>1, Invariance, PTL

-----------------------------------------------------------------------------
(* The refinement.                                                         *)

LifeState ==
  [id \in Ids |-> IF id \notin stored THEN "unissued"
                  ELSE IF id \notin DOMAIN credentials THEN "gone"
                  ELSE IF credentials[id].revoked THEN "revoked" ELSE "live"]

LifeServing == [s \in Sessions |-> IF stage[s] = "serving" THEN peer[s] ELSE None]

\* What every step of the store makes of the lives.
LEMMA LivesAdvance ==
  ASSUME StoreIInv, StoreIInv', Forward
  PROVE  LifeState' \in {next \in [Ids -> Life!States] :
                            \A id \in Ids : next[id] \in Life!Later[LifeState[id]]}
<1>1. DOMAIN credentials \subseteq stored /\ (DOMAIN credentials \subseteq stored)'
  BY DEF StoreIInv, StoreTypeOK
<1>2. LifeState' \in [Ids -> Life!States]
  BY DEF LifeState, Life!States
<1>3. ASSUME NEW id \in Ids PROVE LifeState'[id] \in Life!Later[LifeState[id]]
  <2> USE DEF Forward, LifeState, Life!Later, Live
  <2>1. CASE id \notin stored
    BY <1>1, <2>1
  <2>2. CASE id \in stored \ DOMAIN credentials
    BY <2>2
  <2>3. CASE id \in DOMAIN credentials /\ credentials[id].revoked
    BY <1>1, <2>3
  <2>4. CASE id \in DOMAIN credentials /\ ~credentials[id].revoked
    BY <1>1, <2>4
  <2> QED
    BY <2>1, <2>2, <2>3, <2>4
<1> QED
  BY <1>2, <1>3

\* A successful check changes no life.
LEMMA UsableKeepsLives ==
  ASSUME StoreIInv, NEW s \in Sessions, NEW id \in Ids, Check(s, id, TRUE)
  PROVE  LifeState' = LifeState
<1>1. DOMAIN credentials \subseteq stored
  BY DEF StoreIInv, StoreTypeOK
<1>2. credentials' = credentials /\ stored' = stored
  BY <1>1 DEF Check, ValidateBearer, Persist, store
<1> QED
  BY <1>2 DEF LifeState

\* The Host's credentials and sessions implement the life of a credential:
\* refused saves, crashes and races never bring one back, and a session
\* begins to serve only with one that is live at that moment (access.rs,
\* session.rs, the admissions of listener.rs and cloud.rs).
THEOREM Refinement == Spec => LifeSpec
<1> USE DEF Life!Init, Life!Next, Life!Advance, Life!Begin, Life!End, Life!Restart
<1>1. Init => Life!Init
  BY DEF Init, StoreInit
<1>2. IInv /\ [Next]_vars => [Life!Next]_(Life!vars)
  <2> SUFFICES ASSUME IInv, [Next]_vars
               PROVE  Life!Next
    OBVIOUS
  <2>1. LifeState' \in {next \in [Ids -> Life!States] :
                           \A id \in Ids : next[id] \in Life!Later[LifeState[id]]}
    BY LivesAdvance, StepStores DEF IInv
  <2>2. ASSUME LifeServing' = LifeServing PROVE Life!Next
    BY <2>1, <2>2 DEF LifeState, LifeServing
  <2>3. SessionsOK
    BY DEF IInv, TypeOK, SessionsOK
  <2>4. ASSUME NEW s \in Sessions, SessionStep(s) PROVE Life!Next
    <3>1. CASE Arrive(s) \/ Register(s)
      BY <2>2, <2>3, <3>1 DEF Arrive, Register, Moves, SessionsOK, LifeServing
    <3>2. CASE Revalidate(s)
      <4>1. CASE Leaves(s)
        BY <2>2, <2>3, <3>2, <4>1 DEF Revalidate, Leaves, Moves, SessionsOK, LifeServing
      <4>2. CASE Check(s, peer[s], TRUE) /\ Moves(s, "serving", peer[s])
        <5>1. peer[s] \in Ids /\ stage[s] = "registered"
          BY <2>3, <3>2 DEF Revalidate, SessionsOK, AdmittedKnows
        <5>2. Live(peer[s]) /\ LifeState' = LifeState
          BY <4>2, <5>1, CheckIsStep, UsableKeepsLives DEF IInv
        <5>3. LifeServing[s] = None /\ LifeServing' = [LifeServing EXCEPT ![s] = peer[s]]
          BY <2>3, <4>2, <5>1 DEF LifeServing, Moves, SessionsOK
        <5>4. LifeState[peer[s]] = "live"
          BY <5>1, <5>2 DEF LifeState, Live, IInv, StoreIInv, StoreTypeOK
        <5> QED
          BY <5>1, <5>2, <5>3, <5>4 DEF LifeState, LifeServing
      <4> QED
        BY <3>2, <4>1, <4>2 DEF Revalidate
    <3>3. CASE Disconnect(s) \/ Obey(s)
      <4>1. LifeServing' = [LifeServing EXCEPT ![s] = None] /\ LifeState' = LifeState
        BY <2>3, <3>3 DEF Disconnect, Obey, Leaves, Moves, SessionsOK, LifeServing, LifeState, store
      <4> QED
        BY <4>1 DEF LifeState, LifeServing
    <3> QED
      BY <2>4, <3>1, <3>2, <3>3 DEF SessionStep
  <2>5. ASSUME NEW o \in Operators, OperatorStep(o) PROVE UNCHANGED <<stage, peer>>
    BY <2>5 DEF OperatorStep, BeginRevoke, BeginDelete, BeginForget, Disconnects, Continues,
       RevokeLists, Drains, TimesOut, Deletes, ForgetCancels, Cancel, sessions
  <2>6. ASSUME UNCHANGED <<stage, peer>> PROVE Life!Next
    BY <2>2, <2>6 DEF LifeServing
  <2>7. CASE Restart
    <3>1. LifeServing' = [s \in Sessions |-> None]
      BY <2>7 DEF Restart, SessionsReset, LifeServing
    <3> QED
      BY <2>1, <3>1 DEF LifeState, LifeServing
  <2>8. ASSUME Install \/ Take \/ Shutdown \/ Grant \/ UNCHANGED vars
        PROVE  UNCHANGED <<stage, peer>>
    BY <2>8 DEF Install, Take, Shutdown, Grant, vars, sessions
  <2> QED
    BY <2>4, <2>5, <2>6, <2>7, <2>8 DEF Next
<1> QED
  BY <1>1, <1>2, Invariance, PTL DEF Spec, LifeSpec, Life!Spec

-----------------------------------------------------------------------------
(***************************************************************************)
(* The pairing.                                                            *)
(*                                                                         *)
(* A window's secret gives a credential only while the window is active,   *)
(* and the step that gives it takes the window away.  So an active window  *)
(* is unused and has no outcome (FreshWhileActive), whatever requests of   *)
(* it are about, and no window comes back, since ids are not reused.       *)
(***************************************************************************)

\* What PairingState is made of.
PairingOK(p) ==
  /\ p = [active |-> p.active, outcomes |-> p.outcomes, requests |-> p.requests,
          created |-> p.created]
  /\ p.active \in Window \cup {NoWindow}
  /\ p.outcomes \in [Windows -> Outcomes]
  /\ p.created \in 0 .. MaxRequests
  /\ DOMAIN p.requests \subseteq 1 .. p.created
  /\ p.requests \in [DOMAIN p.requests -> Request]

\* G: the grants, O: the windows opened.
UsedBy(g, w) == g.window = w /\ g.route \in {"exchange", "invitation"}

FreshWhileActive(p, G, O) ==
  /\ p.active # NoWindow => p.active.id <= O
  /\ \A w \in Windows :
       w > O \/ IsActive(p, w) => p.outcomes[w] = "none" /\ \A g \in G : ~UsedBy(g, w)

UsedOnce(G) ==
  \A w \in Windows : \A g, h \in G : UsedBy(g, w) /\ UsedBy(h, w) => g = h

Truthful(p, G) ==
  \A w \in Windows :
    /\ p.outcomes[w] \in {"cancelled", "expired"} => \A g \in G : ~UsedBy(g, w)
    /\ p.outcomes[w] = "succeeded" => \E g \in G : g.window = w

Answered(p, G) ==
  /\ \A g \in G : g.request \in 0 .. p.created
  /\ \A r \in DOMAIN p.requests :
       /\ p.requests[r].state = "accepted" <=> \E g \in G : g.request = r
       /\ \A g, h \in G : g.request = r /\ h.request = r => g = h

Consistent(p, G, O) ==
  PairingOK(p) /\ FreshWhileActive(p, G, O) /\ UsedOnce(G) /\ Truthful(p, G) /\ Answered(p, G)

PairingIInv ==
  /\ StoreIInv
  /\ Consistent(pairing, grants, opened)
  /\ opened \in 0 .. MaxWindows

-----------------------------------------------------------------------------
(* What is done to PairingState.                                           *)

USE PairingAssumption DEF Windows, Outcomes, States

\* The active window ends without a credential.
LEMMA TakenConsistent ==
  ASSUME NEW p, NEW G, NEW O \in Nat, Consistent(p, G, O), p.active # NoWindow,
         NEW outcome \in {"cancelled", "expired"}
  PROVE  Consistent(Taken(p, outcome), G, O)
<1> DEFINE q == Taken(p, outcome)
<1>1. p.active \in Window /\ p.active.id \in Windows /\ IsActive(p, p.active.id)
  BY DEF Consistent, PairingOK, Window, IsActive
<1>2. /\ q = [active |-> NoWindow, outcomes |-> [p.outcomes EXCEPT ![p.active.id] = outcome],
              requests |-> p.requests, created |-> p.created]
  <2> DEFINE id == p.active.id
             u == [p EXCEPT !.active = NoWindow]
  <2>1. u = [active |-> NoWindow, outcomes |-> p.outcomes, requests |-> p.requests,
             created |-> p.created]
    BY DEF Consistent, PairingOK
  <2>2. q = [u EXCEPT !.outcomes[id] = outcome]
    BY DEF Taken, Consistent, PairingOK
  <2> HIDE DEF u, q, id
  <2>3. q = [active |-> NoWindow, outcomes |-> [p.outcomes EXCEPT ![id] = outcome],
             requests |-> p.requests, created |-> p.created]
    BY <2>1, <2>2
  <2> QED
    BY <2>3 DEF id
<1> HIDE DEF q
<1>3. PairingOK(q)
  BY <1>1, <1>2 DEF Consistent, PairingOK
<1>4. FreshWhileActive(q, G, O)
  <2>1. \A w \in Windows : ~IsActive(q, w)
    BY <1>2 DEF IsActive
  <2>2. p.active.id <= O
    BY DEF Consistent, FreshWhileActive
  <2>3. ASSUME NEW w \in Windows, w > O PROVE w # p.active.id
    BY <2>2, <2>3
  <2> QED
    BY <1>1, <1>2, <2>1, <2>3 DEF Consistent, FreshWhileActive, PairingOK
<1>5. Truthful(q, G)
  BY <1>1, <1>2 DEF Consistent, FreshWhileActive, Truthful, PairingOK
<1>6. Answered(q, G)
  BY <1>2 DEF Consistent, Answered
<1> QED
  BY <1>3, <1>4, <1>5, <1>6 DEF Consistent, q

LEMMA WindowExpiredConsistent ==
  ASSUME NEW p, NEW G, NEW O \in Nat, Consistent(p, G, O)
  PROVE  /\ Consistent(WindowExpired(p), G, O)
         /\ WindowExpired(p).requests = p.requests /\ WindowExpired(p).created = p.created
         /\ WindowExpired(p).active \in {p.active, NoWindow}
<1>1. CASE p.active # NoWindow /\ p.active.id \in late.windows
  <2>1. WindowExpired(p) = Taken(p, "expired")
    BY <1>1 DEF WindowExpired
  <2>2. Consistent(Taken(p, "expired"), G, O)
    BY <1>1, TakenConsistent
  <2>3. /\ Taken(p, "expired").requests = p.requests /\ Taken(p, "expired").created = p.created
        /\ Taken(p, "expired").active = NoWindow
    BY DEF Taken, Consistent, PairingOK
  <2> QED
    BY <2>1, <2>2, <2>3
<1>2. CASE ~(p.active # NoWindow /\ p.active.id \in late.windows)
  BY <1>2 DEF WindowExpired
<1> QED
  BY <1>1, <1>2

\* Requests change their state only, and only if they were never accepted.
LEMMA RequestsConsistent ==
  ASSUME NEW p, NEW G, NEW O \in Nat, Consistent(p, G, O), NEW requests,
         requests \in [DOMAIN p.requests -> Request],
         \A r \in DOMAIN p.requests :
           requests[r].state = "accepted" <=> p.requests[r].state = "accepted"
  PROVE  Consistent([p EXCEPT !.requests = requests], G, O)
<1> DEFINE q == [p EXCEPT !.requests = requests]
<1>1. q = [active |-> p.active, outcomes |-> p.outcomes, requests |-> requests,
           created |-> p.created]
  BY DEF Consistent, PairingOK
<1> HIDE DEF q
<1>2. DOMAIN requests = DOMAIN p.requests
  OBVIOUS
<1>3. PairingOK(q)
  BY <1>1, <1>2 DEF Consistent, PairingOK
<1>4. FreshWhileActive(q, G, O) /\ Truthful(q, G)
  BY <1>1 DEF Consistent, FreshWhileActive, Truthful, IsActive
<1>5. Answered(q, G)
  BY <1>1, <1>2 DEF Consistent, Answered
<1> QED
  BY <1>3, <1>4, <1>5 DEF Consistent, q

LEMMA RequestsExpiredConsistent ==
  ASSUME NEW p, NEW G, NEW O \in Nat, Consistent(p, G, O)
  PROVE  /\ Consistent(RequestsExpired(p), G, O)
         /\ DOMAIN RequestsExpired(p).requests = DOMAIN p.requests
         /\ RequestsExpired(p).created = p.created
         /\ RequestsExpired(p).active = p.active
<1> DEFINE requests == [r \in DOMAIN p.requests |->
             IF p.requests[r].state = "pending" /\ r \in late.requests
             THEN [p.requests[r] EXCEPT !.state = "expired"] ELSE p.requests[r]]
<1>1. RequestsExpired(p) = [p EXCEPT !.requests = requests]
  BY DEF RequestsExpired
<1>2. p.requests \in [DOMAIN p.requests -> Request]
  BY DEF Consistent, PairingOK
<1>3. \A r \in DOMAIN p.requests :
        /\ requests[r] \in Request
        /\ requests[r].state = "accepted" <=> p.requests[r].state = "accepted"
  BY <1>2 DEF Request
<1>4. requests \in [DOMAIN p.requests -> Request] /\ DOMAIN requests = DOMAIN p.requests
  BY <1>3
<1> HIDE DEF requests
<1>5. Consistent([p EXCEPT !.requests = requests], G, O)
  BY <1>3, <1>4, RequestsConsistent
<1> QED
  BY <1>1, <1>4, <1>5 DEF Consistent, PairingOK

LEMMA AddedConsistent ==
  ASSUME NEW p, NEW G, NEW O \in Nat, Consistent(p, G, O), p.created < MaxRequests,
         NEW request \in Request, request.state = "pending"
  PROVE  Consistent(Added(p, request), G, O)
<1> DEFINE n == p.created + 1
           requests == [r \in DOMAIN p.requests \cup {n} |->
                          IF r = n THEN request ELSE p.requests[r]]
           q == [active |-> p.active, outcomes |-> p.outcomes, requests |-> requests, created |-> n]
<1>1. Added(p, request) = q
  <2> DEFINE u == [p EXCEPT !.created = n]
  <2>1. u = [active |-> p.active, outcomes |-> p.outcomes, requests |-> p.requests, created |-> n]
    BY DEF Consistent, PairingOK
  <2>2. Added(p, request) = [u EXCEPT !.requests = requests]
    BY DEF Added, Consistent, PairingOK
  <2> HIDE DEF u, requests
  <2> QED
    BY <2>1, <2>2
<1>2. /\ p.created \in Nat /\ n \in 0 .. MaxRequests
      /\ DOMAIN p.requests \subseteq 1 .. p.created /\ p.requests \in [DOMAIN p.requests -> Request]
  BY DEF Consistent, PairingOK
<1>3. n \notin DOMAIN p.requests /\ DOMAIN p.requests \cup {n} \subseteq 1 .. n
  BY <1>2
<1>4. /\ DOMAIN requests = DOMAIN p.requests \cup {n} /\ requests[n] = request
      /\ requests \in [DOMAIN p.requests \cup {n} -> Request]
      /\ \A r \in DOMAIN p.requests : requests[r] = p.requests[r]
  BY <1>2, <1>3
<1> HIDE DEF n, requests
<1>5. PairingOK(q)
  BY <1>2, <1>3, <1>4 DEF Consistent, PairingOK
<1>6. FreshWhileActive(q, G, O) /\ Truthful(q, G)
  BY DEF Consistent, FreshWhileActive, Truthful, IsActive
<1>7. Answered(q, G)
  <2>1. \A g \in G : g.request \in 0 .. p.created /\ g.request # n /\ g.request \in 0 .. n
    BY <1>2 DEF Consistent, Answered, n
  <2> QED
    BY <1>4, <2>1 DEF Consistent, Answered
<1> QED
  BY <1>1, <1>5, <1>6, <1>7 DEF Consistent

\* The window's secret gives a credential, perhaps by a request, and the window ends.
LEMMA GrantTakesWindow ==
  ASSUME NEW p, NEW G, NEW O \in Nat, Consistent(p, G, O), p.active # NoWindow,
         NEW g, g.window = p.active.id,
         NEW requests \in [DOMAIN p.requests -> Request],
         Answered([requests |-> requests, created |-> p.created], G \cup {g})
  PROVE  Consistent(Taken([p EXCEPT !.requests = requests], "succeeded"), G \cup {g}, O)
<1> DEFINE id == p.active.id
           q == [active |-> NoWindow, outcomes |-> [p.outcomes EXCEPT ![id] = "succeeded"],
                 requests |-> requests, created |-> p.created]
<1>1. id \in Windows /\ IsActive(p, id)
  BY DEF Consistent, PairingOK, Window, IsActive
<1>2. Taken([p EXCEPT !.requests = requests], "succeeded") = q
  <2> DEFINE v == [p EXCEPT !.requests = requests]
             u == [v EXCEPT !.active = NoWindow]
  <2>1. v = [active |-> p.active, outcomes |-> p.outcomes, requests |-> requests,
             created |-> p.created]
    BY DEF Consistent, PairingOK
  <2>2. Taken(v, "succeeded") = [u EXCEPT !.outcomes[id] = "succeeded"]
    <3> HIDE DEF v
    <3>1. v.active = p.active
      BY <2>1
    <3> QED
      BY <2>1, <3>1 DEF Taken
  <2> HIDE DEF v, id
  <2>3. u = [active |-> NoWindow, outcomes |-> p.outcomes, requests |-> requests,
             created |-> p.created]
    BY <2>1
  <2> HIDE DEF u
  <2>4. Taken(v, "succeeded") = q
    BY <2>2, <2>3
  <2> QED
    BY <2>4 DEF v
<1>3. \A h \in G : ~UsedBy(h, id)
  BY <1>1 DEF Consistent, FreshWhileActive
<1>4. id <= O
  BY DEF Consistent, FreshWhileActive
<1>5. PairingOK(q)
  BY <1>1 DEF Consistent, PairingOK
<1> HIDE DEF id
<1>6. FreshWhileActive(q, G \cup {g}, O)
  <2>1. ASSUME NEW w \in Windows, w > O PROVE w # id
    BY <1>4, <2>1
  <2>2. \A w \in Windows : ~IsActive(q, w)
    BY DEF IsActive
  <2> QED
    BY <1>1, <2>1, <2>2 DEF Consistent, FreshWhileActive, PairingOK, UsedBy, id
<1>7. UsedOnce(G \cup {g})
  BY <1>3 DEF Consistent, UsedOnce, UsedBy, id
<1>8. Truthful(q, G \cup {g})
  <2>1. ASSUME NEW w \in Windows
        PROVE  /\ q.outcomes[w] \in {"cancelled", "expired"} => \A h \in G \cup {g} : ~UsedBy(h, w)
               /\ q.outcomes[w] = "succeeded" => \E h \in G \cup {g} : h.window = w
    <3>1. CASE w = id
      BY <1>1, <3>1 DEF Consistent, PairingOK, id
    <3>2. CASE w # id
      BY <1>1, <3>2 DEF Consistent, PairingOK, Truthful, UsedBy, id
    <3> QED
      BY <3>1, <3>2
  <2> QED
    BY <2>1 DEF Truthful
<1>9. Answered(q, G \cup {g})
  BY DEF Answered
<1> QED
  BY <1>2, <1>5, <1>6, <1>7, <1>8, <1>9 DEF Consistent

\* A request without an invitation is granted: no window's secret was used.
LEMMA ApprovalConsistent ==
  ASSUME NEW p, NEW G, NEW O \in Nat, Consistent(p, G, O),
         NEW r \in DOMAIN p.requests, p.requests[r].state = "pending",
         NEW g, g.request = r, g.route = "approval"
  PROVE  Consistent([p EXCEPT !.requests[r].state = "accepted"], G \cup {g}, O)
<1> DEFINE requests == [p.requests EXCEPT ![r].state = "accepted"]
           q == [active |-> p.active, outcomes |-> p.outcomes, requests |-> requests,
                 created |-> p.created]
<1>0. /\ p.requests \in [DOMAIN p.requests -> Request] /\ DOMAIN p.requests \subseteq 1 .. p.created
      /\ p.created \in Nat
  BY DEF Consistent, PairingOK
<1>1. [p EXCEPT !.requests[r].state = "accepted"] = q
  <2>1. [p EXCEPT !.requests[r].state = "accepted"] = [p EXCEPT !.requests = requests]
    BY DEF Consistent, PairingOK
  <2> HIDE DEF requests
  <2>2. [p EXCEPT !.requests = requests] = q
    BY DEF Consistent, PairingOK
  <2> QED
    BY <2>1, <2>2
<1>2. [p.requests[r] EXCEPT !.state = "accepted"] \in Request
  BY <1>0 DEF Request
<1>3. /\ requests \in [DOMAIN p.requests -> Request] /\ DOMAIN requests = DOMAIN p.requests
      /\ requests[r].state = "accepted"
      /\ \A o \in DOMAIN p.requests : o # r => requests[o] = p.requests[o]
  BY <1>0, <1>2 DEF Request
<1> HIDE DEF requests
<1>4. PairingOK(q)
  BY <1>3 DEF Consistent, PairingOK
<1>5. FreshWhileActive(q, G \cup {g}, O) /\ UsedOnce(G \cup {g}) /\ Truthful(q, G \cup {g})
  BY DEF Consistent, FreshWhileActive, UsedOnce, Truthful, UsedBy, IsActive
<1>6. Answered(q, G \cup {g})
  BY <1>0, <1>3 DEF Consistent, Answered
<1> QED
  BY <1>1, <1>4, <1>5, <1>6 DEF Consistent

\* A request is granted of which the window is still active.
LEMMA AcceptTakesWindow ==
  ASSUME NEW p, NEW G, NEW O \in Nat, Consistent(p, G, O),
         NEW r \in DOMAIN p.requests, p.requests[r].state = "pending",
         IsActive(p, p.requests[r].window),
         NEW g, g.request = r, g.window = p.requests[r].window
  PROVE  Consistent(Taken([p EXCEPT !.requests[r].state = "accepted"], "succeeded"), G \cup {g}, O)
<1> DEFINE requests == [p.requests EXCEPT ![r].state = "accepted"]
<1>0. /\ p.requests \in [DOMAIN p.requests -> Request] /\ DOMAIN p.requests \subseteq 1 .. p.created
      /\ p.created \in Nat
  BY DEF Consistent, PairingOK
<1>1. [p EXCEPT !.requests[r].state = "accepted"] = [p EXCEPT !.requests = requests]
  BY DEF Consistent, PairingOK
<1>2. [p.requests[r] EXCEPT !.state = "accepted"] \in Request
  BY <1>0 DEF Request
<1>3. /\ requests \in [DOMAIN p.requests -> Request] /\ DOMAIN requests = DOMAIN p.requests
      /\ requests[r].state = "accepted"
      /\ \A o \in DOMAIN p.requests : o # r => requests[o] = p.requests[o]
  BY <1>0, <1>2 DEF Request
<1> HIDE DEF requests
<1>4. Answered([requests |-> requests, created |-> p.created], G \cup {g})
  BY <1>0, <1>3 DEF Consistent, Answered
<1>5. p.active # NoWindow /\ g.window = p.active.id
  BY DEF IsActive
<1> QED
  BY <1>1, <1>3, <1>4, <1>5, GrantTakesWindow

\* A window is opened, and another than those there were.
LEMMA OpenedConsistent ==
  ASSUME NEW p, NEW G, NEW O \in Nat, Consistent(p, G, O), O < MaxWindows, NEW inv \in BOOLEAN
  PROVE  Consistent([p EXCEPT !.active = [id |-> O + 1, invitationOnly |-> inv]], G, O + 1)
<1> DEFINE window == [id |-> O + 1, invitationOnly |-> inv]
           q == [active |-> window, outcomes |-> p.outcomes, requests |-> p.requests,
                 created |-> p.created]
<1>1. [p EXCEPT !.active = window] = q
  BY DEF Consistent, PairingOK
<1>2. PairingOK(q)
  BY DEF Consistent, PairingOK, Window
<1>3. FreshWhileActive(q, G, O + 1)
  <2>1. ASSUME NEW w \in Windows, w > O + 1 \/ IsActive(q, w) PROVE w > O
    BY <2>1 DEF IsActive
  <2> QED
    BY <2>1 DEF Consistent, FreshWhileActive
<1>4. Truthful(q, G) /\ Answered(q, G)
  BY DEF Consistent, Truthful, Answered
<1> QED
  BY <1>1, <1>2, <1>3, <1>4 DEF Consistent

\* The window is kept, changed or dropped, and outcomes are kept or forgotten.
LEMMA WindowConsistent ==
  ASSUME NEW p, NEW q, NEW G, NEW O \in Nat, Consistent(p, G, O), PairingOK(q),
         q.active # NoWindow => p.active # NoWindow /\ q.active.id = p.active.id,
         \A w \in Windows : q.outcomes[w] \in {p.outcomes[w], "none"},
         q.requests = p.requests, q.created = p.created
  PROVE  Consistent(q, G, O)
<1>1. FreshWhileActive(q, G, O)
  BY DEF Consistent, FreshWhileActive, IsActive
<1>2. Truthful(q, G) /\ Answered(q, G)
  BY DEF Consistent, Truthful, Answered
<1> QED
  BY <1>1, <1>2 DEF Consistent

\* Records of requests are forgotten.
LEMMA ForgottenConsistent ==
  ASSUME NEW p, NEW G, NEW O \in Nat, Consistent(p, G, O), NEW S \in SUBSET DOMAIN p.requests
  PROVE  Consistent([p EXCEPT !.requests = [r \in S |-> p.requests[r]]], G, O)
<1> DEFINE requests == [r \in S |-> p.requests[r]]
           q == [active |-> p.active, outcomes |-> p.outcomes, requests |-> requests,
                 created |-> p.created]
<1>1. [p EXCEPT !.requests = requests] = q
  BY DEF Consistent, PairingOK
<1>2. PairingOK(q)
  BY DEF Consistent, PairingOK
<1>3. FreshWhileActive(q, G, O) /\ Truthful(q, G) /\ Answered(q, G)
  BY DEF Consistent, FreshWhileActive, Truthful, Answered, IsActive
<1> QED
  BY <1>1, <1>2, <1>3 DEF Consistent

\* A pending request is refused or expires.
LEMMA RefusedConsistent ==
  ASSUME NEW p, NEW G, NEW O \in Nat, Consistent(p, G, O),
         NEW r \in DOMAIN p.requests, p.requests[r].state = "pending",
         NEW st \in {"rejected", "expired"}
  PROVE  Consistent([p EXCEPT !.requests[r].state = st], G, O)
<1> DEFINE requests == [p.requests EXCEPT ![r].state = st]
<1>0. p.requests \in [DOMAIN p.requests -> Request]
  BY DEF Consistent, PairingOK
<1>1. [p EXCEPT !.requests[r].state = st] = [p EXCEPT !.requests = requests]
  BY DEF Consistent, PairingOK
<1>2. [p.requests[r] EXCEPT !.state = st] \in Request
  BY <1>0 DEF Request
<1>3. /\ requests \in [DOMAIN p.requests -> Request]
      /\ requests[r].state = st
      /\ \A o \in DOMAIN p.requests : o # r => requests[o] = p.requests[o]
  BY <1>0, <1>2 DEF Request
<1> HIDE DEF requests
<1> QED
  BY <1>1, <1>3, RequestsConsistent

-----------------------------------------------------------------------------
(* The steps.                                                              *)

\* What an answer of the user finds.
LEMMA ResolvingConsistent ==
  ASSUME PairingIInv, NEW r
  PROVE  Consistent(Resolving(r), grants, opened)
<1>1. opened \in Nat /\ Consistent(pairing, grants, opened)
  BY DEF PairingIInv
<1>2. Consistent(RequestsExpired(pairing), grants, opened)
  BY <1>1, RequestsExpiredConsistent
<1> DEFINE p == RequestsExpired(pairing)
<1> HIDE DEF p
<1>3. Consistent(p, grants, opened) /\ Consistent(WindowExpired(p), grants, opened)
  BY <1>1, <1>2, WindowExpiredConsistent DEF p
<1> QED
  BY <1>3 DEF Resolving, p

LEMMA PairingStepStores == PairingIInv /\ [PairingNext]_pairingVars => StoreIInv' /\ Forward
<1> SUFFICES ASSUME PairingIInv, [PairingNext]_pairingVars PROVE StoreNext \/ UNCHANGED store
  BY StoreStep DEF PairingIInv
<1>1. \A client \in Clients : IssueFails(client) => StoreNext \/ UNCHANGED store
  BY DEF IssueFails, StoreNext
<1>2. ASSUME NEW w \in Windows, NEW c \in Clients, CompletePairing(w, c)
      PROVE  StoreNext \/ UNCHANGED store
  BY <1>1, <1>2 DEF CompletePairing, StoreNext
<1>3. ASSUME NEW r \in 1 .. MaxRequests, Accept(r) PROVE StoreNext \/ UNCHANGED store
  <2> DEFINE p == Resolving(r)
  <2>1. p.requests \in [DOMAIN p.requests -> Request] /\ r \in DOMAIN p.requests
    BY <1>3, ResolvingConsistent DEF Consistent, PairingOK, Accept, Resolvable
  <2> HIDE DEF p
  <2>2. p.requests[r].client \in Clients
    BY <2>1 DEF Request
  <2> QED
    BY <1>1, <1>3, <2>2 DEF Accept, p, StoreNext
<1>4. CASE PairingRestarts
  BY <1>4 DEF PairingRestarts, StoreNext
<1>5. CASE UNCHANGED pairingVars
  BY <1>5 DEF pairingVars
<1> QED
  BY <1>2, <1>3, <1>4, <1>5
  DEF PairingNext, BeginPairing, LookAtPairing, LookAtRequests, WindowDeadline, RequireInvitation, Publish,
      CancelPairing, OutcomeForgotten, CreateInvitationRequest, CreateRequest, ResolveNothing, Reject,
      RequestDeadline, RequestForgotten

LEMMA AcceptConsistent ==
  ASSUME PairingIInv, NEW r \in 1 .. MaxRequests, Accept(r)
  PROVE  Consistent(pairing', grants', opened')
<1> DEFINE p == Resolving(r)
           q == [p EXCEPT !.requests[r].state = "accepted"]
           request == p.requests[r]
           g == [id |-> issued', route |-> IF Invited(request) THEN "invitation" ELSE "approval",
                 window |-> request.window, request |-> r]
<1>1. Consistent(p, grants, opened) /\ opened \in Nat
  BY ResolvingConsistent DEF PairingIInv
<1>2. /\ r \in DOMAIN p.requests /\ request.state = "pending" /\ ~Overtaken(p, r)
      /\ opened' = opened
  BY DEF Accept, Resolvable
<1>3. CASE pairing' = p /\ UNCHANGED grants
  BY <1>1, <1>2, <1>3
<1>4. ASSUME pairing' = (IF IsActive(p, request.window) THEN Taken(q, "succeeded") ELSE q),
             grants' = grants \cup {g}
      PROVE  Consistent(pairing', grants', opened')
  <2>1. g.request = r /\ g.window = request.window
    OBVIOUS
  <2>2. CASE IsActive(p, request.window)
    <3> HIDE DEF p, g
    <3>1. Consistent(Taken(q, "succeeded"), grants \cup {g}, opened)
      BY <1>1, <1>2, <2>1, <2>2, AcceptTakesWindow
    <3> QED
      BY <1>2, <1>4, <2>2, <3>1
  <2>3. CASE ~IsActive(p, request.window)
    <3>1. g.route = "approval"
      BY <1>2, <2>3 DEF Overtaken
    <3> HIDE DEF p, g
    <3>2. Consistent(q, grants \cup {g}, opened)
      BY <1>1, <1>2, <2>1, <3>1, ApprovalConsistent
    <3> QED
      BY <1>2, <1>4, <2>3, <3>2
  <2> QED
    BY <2>2, <2>3
<1> QED
  BY <1>3, <1>4 DEF Accept, Granted

LEMMA CompleteConsistent ==
  ASSUME PairingIInv, NEW w \in Windows, NEW c \in Clients, CompletePairing(w, c)
  PROVE  Consistent(pairing', grants', opened')
<1> DEFINE p == pairing
           g == [id |-> issued', route |-> "exchange", window |-> w, request |-> 0]
<1>1. Consistent(p, grants, opened) /\ opened \in Nat /\ opened' = opened
  BY DEF PairingIInv, CompletePairing
<1>2. CASE pairing' = p /\ grants' = grants
  BY <1>1, <1>2
<1>3. CASE pairing' = WindowExpired(p) /\ grants' = grants
  BY <1>1, <1>3, WindowExpiredConsistent
<1>4. ASSUME IsActive(p, w), pairing' = Taken(p, "succeeded"), grants' = grants \cup {g}
      PROVE  Consistent(pairing', grants', opened')
  <2>1. p.requests \in [DOMAIN p.requests -> Request] /\ DOMAIN p.requests \subseteq 1 .. p.created
        /\ p.created \in Nat
    BY <1>1 DEF Consistent, PairingOK
  <2>2. Answered([requests |-> p.requests, created |-> p.created], grants \cup {g})
    BY <1>1, <2>1 DEF Consistent, Answered
  <2>3. [p EXCEPT !.requests = p.requests] = p
    BY <1>1 DEF Consistent, PairingOK
  <2>4. p.active # NoWindow /\ g.window = p.active.id
    BY <1>4 DEF IsActive
  <2> HIDE DEF g
  <2>5. Consistent(Taken([p EXCEPT !.requests = p.requests], "succeeded"), grants \cup {g}, opened)
    BY <1>1, <2>1, <2>2, <2>4, GrantTakesWindow
  <2> QED
    BY <1>1, <1>4, <2>3, <2>5
<1> QED
  BY <1>2, <1>3, <1>4 DEF CompletePairing, Granted

LEMMA CreateConsistent ==
  ASSUME PairingIInv, NEW c \in Clients,
         \/ \E n \in Nonces : CreateRequest(c, n)
         \/ \E w \in Windows, b \in Bindings : CreateInvitationRequest(w, b, c)
  PROVE  Consistent(pairing', grants', opened')
<1> DEFINE p == RequestsExpired(WindowExpired(pairing))
<1>1. opened \in Nat /\ UNCHANGED <<opened, grants>>
  <2>1. opened \in Nat
    BY DEF PairingIInv
  <2>2. ASSUME NEW n \in Nonces, CreateRequest(c, n) PROVE UNCHANGED <<opened, grants>>
    BY <2>2 DEF CreateRequest
  <2>3. ASSUME NEW w \in Windows, NEW b \in Bindings, CreateInvitationRequest(w, b, c)
        PROVE  UNCHANGED <<opened, grants>>
    BY <2>3 DEF CreateInvitationRequest
  <2> QED
    BY <2>1, <2>2, <2>3
<1>2. Consistent(p, grants, opened)
  <2>1. Consistent(WindowExpired(pairing), grants, opened)
    BY <1>1, WindowExpiredConsistent DEF PairingIInv
  <2> QED
    BY <1>1, <2>1, RequestsExpiredConsistent
<1>3. CASE pairing' = p
  BY <1>1, <1>2, <1>3
<1>4. ASSUME NEW request \in Request, request.state = "pending", p.created < MaxRequests,
             pairing' = Added(p, request)
      PROVE  Consistent(pairing', grants', opened')
  <2> HIDE DEF p
  <2>1. Consistent(Added(p, request), grants, opened)
    BY <1>1, <1>2, <1>4, AddedConsistent
  <2> QED
    BY <1>1, <1>4, <2>1
<1>5. ASSUME NEW n \in Nonces, CreateRequest(c, n) PROVE Consistent(pairing', grants', opened')
  <2> DEFINE window == IF p.active # NoWindow /\ ~p.active.invitationOnly THEN p.active.id ELSE NoWindow
             request == [state |-> "pending", client |-> c, nonce |-> n,
                         window |-> window, binding |-> NoBinding]
  <2>1. window \in Windows \cup {NoWindow}
    BY <1>2 DEF Consistent, PairingOK, Window
  <2>2. request \in Request /\ request.state = "pending"
    BY <2>1 DEF Request
  <2>3. pairing' = p \/ (p.created < MaxRequests /\ pairing' = Added(p, request))
    BY <1>5 DEF CreateRequest
  <2> QED
    BY <1>3, <1>4, <2>2, <2>3
<1>6. ASSUME NEW w \in Windows, NEW b \in Bindings, CreateInvitationRequest(w, b, c)
      PROVE  Consistent(pairing', grants', opened')
  <2>1. CASE pairing' = p
    BY <1>3, <2>1
  <2>2. ASSUME NEW n \in Nonces, p.created < MaxRequests,
               pairing' = Added(p, [state |-> "pending", client |-> c, nonce |-> n,
                                    window |-> w, binding |-> b])
        PROVE  Consistent(pairing', grants', opened')
    <3> DEFINE request == [state |-> "pending", client |-> c, nonce |-> n, window |-> w, binding |-> b]
    <3>1. request \in Request /\ request.state = "pending"
      BY DEF Request
    <3> HIDE DEF p
    <3> QED
      BY <1>4, <2>2, <3>1
  <2> QED
    BY <1>6, <2>1, <2>2 DEF CreateInvitationRequest
<1> QED
  BY <1>5, <1>6

LEMMA WindowSteps ==
  ASSUME PairingIInv,
         \/ BeginPairing \/ LookAtPairing
         \/ \E w \in Windows : RequireInvitation(w) \/ CancelPairing(w) \/ OutcomeForgotten(w)
  PROVE  Consistent(pairing', grants', opened')
<1> DEFINE p == WindowExpired(pairing)
<1>1. /\ Consistent(pairing, grants, opened) /\ PairingOK(pairing)
      /\ opened \in 0 .. MaxWindows /\ opened \in Nat
      /\ Consistent(p, grants, opened) /\ PairingOK(p)
  BY WindowExpiredConsistent DEF PairingIInv, Consistent
<1>2. CASE BeginPairing
  <2>1. CASE p.active # NoWindow
    BY <1>1, <1>2, <2>1 DEF BeginPairing
  <2>2. CASE p.active = NoWindow
    <3>1. /\ opened < MaxWindows /\ opened' = opened + 1 /\ grants' = grants
          /\ pairing' = [p EXCEPT !.active = [id |-> opened + 1, invitationOnly |-> FALSE]]
      BY <1>2, <2>2 DEF BeginPairing
    <3> HIDE DEF p
    <3> QED
      BY <1>1, <3>1, OpenedConsistent
  <2> QED
    BY <2>1, <2>2
<1>3. CASE LookAtPairing
  BY <1>1, <1>3 DEF LookAtPairing
<1>4. ASSUME NEW w \in Windows, RequireInvitation(w) PROVE Consistent(pairing', grants', opened')
  <2> DEFINE q == [pairing EXCEPT !.active.invitationOnly = TRUE]
  <2>1. pairing.active # NoWindow /\ pairing' = q /\ UNCHANGED <<opened, grants>>
    BY <1>4 DEF RequireInvitation, IsActive
  <2>2. pairing.active \in [id : Windows, invitationOnly : BOOLEAN]
    BY <1>1, <2>1 DEF PairingOK, Window
  <2>3. q = [pairing EXCEPT !.active = [pairing.active EXCEPT !.invitationOnly = TRUE]]
    BY <1>1 DEF PairingOK
  <2>4. /\ [pairing.active EXCEPT !.invitationOnly = TRUE] \in Window
        /\ [pairing.active EXCEPT !.invitationOnly = TRUE].id = pairing.active.id
    BY <2>2 DEF Window
  <2> DEFINE a == [pairing.active EXCEPT !.invitationOnly = TRUE]
  <2> HIDE DEF a
  <2>5. q = [active |-> a, outcomes |-> pairing.outcomes, requests |-> pairing.requests,
             created |-> pairing.created]
    <3>1. q = [pairing EXCEPT !.active = a]
      BY <2>3 DEF a
    <3> HIDE DEF q
    <3> QED
      BY <1>1, <3>1 DEF PairingOK
  <2> HIDE DEF q
  <2>6. PairingOK(q)
    BY <1>1, <2>4, <2>5 DEF PairingOK, a
  <2>7. /\ q.active.id = pairing.active.id /\ q.requests = pairing.requests
        /\ q.outcomes = pairing.outcomes /\ q.created = pairing.created
    BY <2>4, <2>5 DEF a
  <2> QED
    BY <1>1, <2>1, <2>6, <2>7, WindowConsistent
<1>5. ASSUME NEW w \in Windows, CancelPairing(w) PROVE Consistent(pairing', grants', opened')
  <2>1. /\ UNCHANGED <<opened, grants>>
        /\ \/ pairing' = p
           \/ p.active # NoWindow /\ pairing' = Taken(p, "cancelled")
    BY <1>5 DEF CancelPairing, IsActive
  <2> HIDE DEF p
  <2> QED
    BY <1>1, <2>1, TakenConsistent
<1>6. ASSUME NEW w \in Windows, OutcomeForgotten(w) PROVE Consistent(pairing', grants', opened')
  <2> DEFINE q == [pairing EXCEPT !.outcomes[w] = "none"]
  <2>1. pairing' = q /\ UNCHANGED <<opened, grants>>
    BY <1>6 DEF OutcomeForgotten
  <2>2. q = [active |-> pairing.active, outcomes |-> [pairing.outcomes EXCEPT ![w] = "none"],
             requests |-> pairing.requests, created |-> pairing.created]
    <3> DEFINE outcomes == [pairing.outcomes EXCEPT ![w] = "none"]
    <3>1. q = [pairing EXCEPT !.outcomes = outcomes]
      BY <1>1 DEF PairingOK
    <3> HIDE DEF q, outcomes
    <3>2. q = [active |-> pairing.active, outcomes |-> outcomes, requests |-> pairing.requests,
               created |-> pairing.created]
      BY <1>1, <3>1 DEF PairingOK
    <3> QED
      BY <3>2 DEF outcomes
  <2> HIDE DEF q
  <2>3. PairingOK(q) /\ \A v \in Windows : q.outcomes[v] \in {pairing.outcomes[v], "none"}
    BY <1>1, <2>2 DEF PairingOK
  <2>4. q.active = pairing.active /\ q.requests = pairing.requests /\ q.created = pairing.created
    BY <2>2
  <2> QED
    BY <1>1, <2>1, <2>3, <2>4, WindowConsistent
<1> QED
  BY <1>2, <1>3, <1>4, <1>5, <1>6

LEMMA RequestSteps ==
  ASSUME PairingIInv,
         \/ LookAtRequests \/ PairingRestarts
         \/ \E r \in 1 .. MaxRequests : ResolveNothing(r) \/ Reject(r) \/ RequestForgotten(r)
  PROVE  Consistent(pairing', grants', opened')
<1>1. /\ Consistent(pairing, grants, opened) /\ PairingOK(pairing) /\ opened \in Nat
  BY DEF PairingIInv, Consistent
<1>2. CASE LookAtRequests
  BY <1>1, <1>2, RequestsExpiredConsistent DEF LookAtRequests
<1>3. CASE PairingRestarts
  <2> DEFINE none == [r \in {} |-> {}]
             q == [active |-> NoWindow, outcomes |-> [w \in Windows |-> "none"],
                   requests |-> none, created |-> pairing.created]
  <2>1. pairing' = q /\ UNCHANGED <<opened, grants>>
    <3>1. pairing' = [pairing EXCEPT !.active = NoWindow, !.requests = none,
                                     !.outcomes = [w \in Windows |-> "none"]]
      BY <1>3 DEF PairingRestarts
    <3> HIDE DEF none
    <3> QED
      BY <1>1, <1>3, <3>1 DEF PairingOK, PairingRestarts
  <2>2. DOMAIN none = {} /\ none \in [DOMAIN none -> Request]
    OBVIOUS
  <2> HIDE DEF none
  <2>3. PairingOK(q)
    BY <1>1, <2>2 DEF PairingOK
  <2>4. FreshWhileActive(q, grants, opened)
    BY <1>1 DEF Consistent, FreshWhileActive, IsActive
  <2>5. Truthful(q, grants) /\ Answered(q, grants)
    BY <1>1, <2>2 DEF Consistent, Truthful, Answered
  <2> QED
    BY <1>1, <2>1, <2>3, <2>4, <2>5 DEF Consistent
<1>4. ASSUME NEW r \in 1 .. MaxRequests, ResolveNothing(r) \/ Reject(r)
      PROVE  Consistent(pairing', grants', opened')
  <2> DEFINE p == Resolving(r)
  <2>1. /\ UNCHANGED <<opened, grants>>
        /\ \/ pairing' = p
           \/ /\ r \in DOMAIN p.requests /\ p.requests[r].state = "pending"
              /\ \E st \in {"rejected", "expired"} : pairing' = [p EXCEPT !.requests[r].state = st]
    BY <1>4 DEF ResolveNothing, Reject, Resolvable
  <2>2. Consistent(p, grants, opened)
    BY ResolvingConsistent
  <2> HIDE DEF p
  <2> QED
    <3>1. CASE pairing' = p
      BY <1>1, <2>1, <2>2, <3>1
    <3>2. ASSUME r \in DOMAIN p.requests, p.requests[r].state = "pending",
                 NEW st \in {"rejected", "expired"}, pairing' = [p EXCEPT !.requests[r].state = st]
          PROVE  Consistent(pairing', grants', opened')
      <4> DEFINE q == [p EXCEPT !.requests[r].state = st]
      <4>1. Consistent(q, grants, opened)
        BY <1>1, <2>2, <3>2, RefusedConsistent
      <4>2. pairing' = q
        BY <3>2
      <4> HIDE DEF q
      <4> QED
        BY <2>1, <4>1, <4>2
    <3> QED
      BY <2>1, <3>1, <3>2
<1>5. ASSUME NEW r \in 1 .. MaxRequests, RequestForgotten(r)
      PROVE  Consistent(pairing', grants', opened')
  <2> DEFINE S == DOMAIN pairing.requests \ {r}
  <2>1. /\ UNCHANGED <<opened, grants>>
        /\ pairing' = [pairing EXCEPT !.requests = [q \in S |-> pairing.requests[q]]]
    BY <1>1, <1>5 DEF RequestForgotten, PairingOK
  <2>2. S \in SUBSET DOMAIN pairing.requests
    OBVIOUS
  <2> HIDE DEF S
  <2> QED
    BY <1>1, <2>1, <2>2, ForgottenConsistent
<1> QED
  BY <1>2, <1>3, <1>4, <1>5

-----------------------------------------------------------------------------
LEMMA PairingInitIInv == PairingInit => PairingIInv
<1> SUFFICES ASSUME PairingInit PROVE PairingIInv
  OBVIOUS
<1>1. StoreIInv
  BY StoreInitIInv DEF PairingInit
<1> DEFINE none == [r \in {} |-> {}]
<1>2. pairing = [active |-> NoWindow, outcomes |-> [w \in Windows |-> "none"],
                 requests |-> none, created |-> 0]
  BY DEF PairingInit
<1>3. DOMAIN none = {} /\ none \in [DOMAIN none -> Request]
  OBVIOUS
<1> HIDE DEF none
<1>4. PairingOK(pairing)
  BY <1>2, <1>3 DEF PairingOK
<1>5. Consistent(pairing, grants, opened)
  BY <1>2, <1>3, <1>4
  DEF PairingInit, Consistent, FreshWhileActive, UsedOnce, Truthful, Answered, IsActive
<1> QED
  BY <1>1, <1>5 DEF PairingInit, PairingIInv

LEMMA PairingStepIInv == PairingIInv /\ [PairingNext]_pairingVars => PairingIInv'
<1> SUFFICES ASSUME PairingIInv, [PairingNext]_pairingVars PROVE PairingIInv'
  OBVIOUS
<1>1. ASSUME NEW w \in Windows,
             RequireInvitation(w) \/ Publish(w) \/ CancelPairing(w) \/ OutcomeForgotten(w)
      PROVE  opened' = opened /\ (Publish(w) => UNCHANGED <<pairing, grants>>)
  BY <1>1 DEF RequireInvitation, Publish, CancelPairing, OutcomeForgotten
<1>2. ASSUME NEW w \in Windows, NEW c \in Clients,
             CompletePairing(w, c) \/ \E b \in Bindings : CreateInvitationRequest(w, b, c)
      PROVE  opened' = opened
  BY <1>2 DEF CompletePairing, CreateInvitationRequest
<1>3. ASSUME NEW c \in Clients, NEW n \in Nonces, CreateRequest(c, n) PROVE opened' = opened
  BY <1>3 DEF CreateRequest
<1>4. ASSUME NEW r \in 1 .. MaxRequests,
             ResolveNothing(r) \/ Reject(r) \/ Accept(r) \/ RequestDeadline(r) \/ RequestForgotten(r)
      PROVE  opened' = opened /\ (RequestDeadline(r) => UNCHANGED <<pairing, grants>>)
  BY <1>4 DEF ResolveNothing, Reject, Accept, RequestDeadline, RequestForgotten
<1>5. ASSUME BeginPairing PROVE opened' \in 0 .. MaxWindows
  BY <1>5 DEF BeginPairing, PairingIInv
<1>6. ASSUME LookAtPairing \/ LookAtRequests \/ WindowDeadline \/ PairingRestarts \/ UNCHANGED pairingVars
      PROVE  opened' = opened /\ (WindowDeadline \/ UNCHANGED pairingVars => UNCHANGED <<pairing, grants>>)
  BY <1>6 DEF LookAtPairing, LookAtRequests, WindowDeadline, PairingRestarts, pairingVars
<1>7. opened' \in 0 .. MaxWindows
  BY <1>1, <1>2, <1>3, <1>4, <1>5, <1>6 DEF PairingNext, PairingIInv
<1>8. ASSUME UNCHANGED <<pairing, grants, opened>> PROVE Consistent(pairing', grants', opened')
  BY <1>8 DEF PairingIInv
<1>9. Consistent(pairing', grants', opened')
  BY <1>1, <1>4, <1>6, <1>8, WindowSteps, RequestSteps, CompleteConsistent, CreateConsistent,
     AcceptConsistent DEF PairingNext
<1> QED
  BY <1>7, <1>9, PairingStepStores DEF PairingIInv

THEOREM PairingInvariance == PairingSpec => []PairingIInv
BY PairingInitIInv, PairingStepIInv, PTL DEF PairingSpec

-----------------------------------------------------------------------------
(* Types, and the limit of the requests that wait.                         *)

Pending(p) == {r \in DOMAIN p.requests : p.requests[r].state = "pending"}

TypesRest ==
  /\ published \subseteq 1 .. opened
  /\ late = [windows |-> late.windows, requests |-> late.requests]
  /\ late.windows \subseteq 1 .. opened
  /\ late.requests \subseteq 1 .. pairing.created
  /\ grants \subseteq Grants
  /\ Cardinality(Pending(pairing)) <= MaxPending

\* No request of q waits that did not in p, and none is new.
Settles(p, q) == q.created = p.created /\ Pending(q) \subseteq Pending(p)

LEMMA WindowExpiredSettles ==
  ASSUME NEW p, PairingOK(p)
  PROVE  WindowExpired(p).created = p.created /\ WindowExpired(p).requests = p.requests
BY DEF PairingOK, WindowExpired, Taken

LEMMA RequestsExpiredSettles ==
  ASSUME NEW p, PairingOK(p) PROVE Settles(p, RequestsExpired(p))
<1> DEFINE requests == [r \in DOMAIN p.requests |->
             IF p.requests[r].state = "pending" /\ r \in late.requests
             THEN [p.requests[r] EXCEPT !.state = "expired"] ELSE p.requests[r]]
<1>1. RequestsExpired(p) = [p EXCEPT !.requests = requests]
  BY DEF RequestsExpired
<1>2. p.requests \in [DOMAIN p.requests -> Request]
  BY DEF PairingOK
<1>3. \A r \in DOMAIN p.requests : requests[r].state = "pending" => p.requests[r].state = "pending"
  BY <1>2 DEF Request
<1>4. DOMAIN requests = DOMAIN p.requests
  OBVIOUS
<1> HIDE DEF requests
<1>5. RequestsExpired(p).requests = requests /\ RequestsExpired(p).created = p.created
  BY <1>1 DEF PairingOK
<1> QED
  BY <1>3, <1>4, <1>5 DEF Settles, Pending

\* With fewer that wait, or one more within the limit, the limit holds.
LEMMA FewerPending ==
  ASSUME NEW p, PairingOK(p), Cardinality(Pending(p)) <= MaxPending, NEW q, Settles(p, q)
  PROVE  Cardinality(Pending(q)) <= MaxPending
<1>1. IsFiniteSet(Pending(p))
  <2>1. p.created \in Nat /\ Pending(p) \subseteq 1 .. p.created
    BY DEF PairingOK, Pending
  <2>2. IsFiniteSet(1 .. p.created)
    BY <2>1, FS_Interval
  <2> QED
    BY <2>1, <2>2, FS_Subset
<1>2. /\ Cardinality(Pending(q)) <= Cardinality(Pending(p))
      /\ Cardinality(Pending(q)) \in Nat /\ Cardinality(Pending(p)) \in Nat
  BY <1>1, FS_Subset, FS_CardinalityType DEF Settles
<1> QED
  BY <1>2

LEMMA OneMorePending ==
  ASSUME NEW p, PairingOK(p), Creatable(p), NEW request
  PROVE  /\ Cardinality(Pending(Added(p, request))) <= MaxPending
         /\ Added(p, request).created = p.created + 1
<1> DEFINE n == p.created + 1
           q == Added(p, request)
<1>1. p.created \in Nat /\ DOMAIN p.requests \subseteq 1 .. p.created
  BY DEF PairingOK
<1>2. IsFiniteSet(Pending(p)) /\ Cardinality(Pending(p)) < MaxPending
  <2>1. Pending(p) \subseteq 1 .. p.created
    BY <1>1 DEF Pending
  <2>2. IsFiniteSet(1 .. p.created)
    BY <1>1, FS_Interval
  <2>3. IsFiniteSet(Pending(p))
    BY <2>1, <2>2, FS_Subset
  <2> QED
    BY <2>3 DEF Creatable, Pending
<1>3. /\ q.created = n
      /\ q.requests = [r \in DOMAIN p.requests \cup {n} |-> IF r = n THEN request ELSE p.requests[r]]
  BY DEF PairingOK, Added
<1>4. Pending(q) \subseteq Pending(p) \cup {n}
  BY <1>3 DEF Pending
<1> HIDE DEF n, q
<1>5. /\ IsFiniteSet(Pending(p) \cup {n})
      /\ Cardinality(Pending(p) \cup {n}) <= Cardinality(Pending(p)) + 1
      /\ Cardinality(Pending(p)) \in Nat
  <2> DEFINE S == Pending(p)
  <2>1. Cardinality(S) \in Nat
    BY <1>2, FS_CardinalityType
  <2>2. IsFiniteSet(S \cup {n}) /\ Cardinality(S \cup {n}) = IF n \in S THEN Cardinality(S) ELSE Cardinality(S) + 1
    BY <1>2, FS_AddElement
  <2> HIDE DEF S
  <2>3. Cardinality(S \cup {n}) <= Cardinality(S) + 1
    BY <2>1, <2>2
  <2> QED
    BY <2>1, <2>2, <2>3 DEF S
<1>6. /\ Cardinality(Pending(q)) <= Cardinality(Pending(p) \cup {n})
      /\ Cardinality(Pending(q)) \in Nat /\ Cardinality(Pending(p) \cup {n}) \in Nat
  BY <1>4, <1>5, FS_Subset, FS_CardinalityType
<1>7. Cardinality(Pending(q)) <= MaxPending
  BY <1>2, <1>5, <1>6
<1> QED
  BY <1>3, <1>7 DEF n, q

\* Every step but the making of a request lets none wait that did not.
LEMMA StepSettles ==
  ASSUME PairingIInv,
         \/ BeginPairing \/ LookAtPairing \/ LookAtRequests \/ WindowDeadline \/ PairingRestarts
         \/ \E w \in Windows :
              RequireInvitation(w) \/ Publish(w) \/ CancelPairing(w) \/ OutcomeForgotten(w)
         \/ \E w \in Windows, c \in Clients : CompletePairing(w, c)
         \/ \E r \in 1 .. MaxRequests :
              ResolveNothing(r) \/ Reject(r) \/ Accept(r) \/ RequestDeadline(r) \/ RequestForgotten(r)
         \/ UNCHANGED pairingVars
  PROVE  Settles(pairing, pairing')
<1> DEFINE p == WindowExpired(pairing)
<1>0. /\ PairingOK(pairing) /\ opened \in Nat /\ Consistent(pairing, grants, opened)
      /\ PairingOK(p) /\ p.created = pairing.created /\ p.requests = pairing.requests
  BY WindowExpiredConsistent, WindowExpiredSettles DEF PairingIInv, Consistent
<1>1. ASSUME pairing' = pairing PROVE Settles(pairing, pairing')
  BY <1>1 DEF Settles
<1>2. \A q, o : PairingOK(q) => Taken(q, o).created = q.created /\ Taken(q, o).requests = q.requests
  BY DEF PairingOK, Taken
<1>3. ASSUME pairing'.created = pairing.created, pairing'.requests = pairing.requests
      PROVE  Settles(pairing, pairing')
  BY <1>3 DEF Settles, Pending
<1>4. CASE BeginPairing
  <2>1. CASE pairing' = p
    BY <1>0, <1>3, <2>1
  <2>2. CASE pairing' = [p EXCEPT !.active = [id |-> opened + 1, invitationOnly |-> FALSE]]
    <3> HIDE DEF p
    <3> QED
      BY <1>0, <1>3, <2>2 DEF PairingOK
  <2> QED
    BY <1>4, <2>1, <2>2 DEF BeginPairing
<1>5. CASE LookAtPairing
  BY <1>0, <1>3, <1>5 DEF LookAtPairing
<1>6. CASE LookAtRequests
  BY <1>0, <1>6, RequestsExpiredSettles DEF LookAtRequests
<1>7. CASE PairingRestarts
  BY <1>0, <1>7 DEF PairingRestarts, PairingOK, Settles, Pending
<1>8. ASSUME NEW w \in Windows, RequireInvitation(w) \/ OutcomeForgotten(w)
      PROVE  Settles(pairing, pairing')
  BY <1>0, <1>3, <1>8 DEF RequireInvitation, OutcomeForgotten, PairingOK
<1>9. ASSUME NEW w \in Windows, CancelPairing(w) PROVE Settles(pairing, pairing')
  <2>1. pairing' = p \/ pairing' = Taken(p, "cancelled")
    BY <1>9 DEF CancelPairing
  <2> HIDE DEF p
  <2> QED
    BY <1>0, <1>2, <1>3, <2>1
<1>10. ASSUME NEW w \in Windows, NEW c \in Clients, CompletePairing(w, c)
       PROVE  Settles(pairing, pairing')
  <2>1. pairing' = pairing \/ pairing' = p \/ pairing' = Taken(pairing, "succeeded")
    BY <1>10 DEF CompletePairing
  <2> HIDE DEF p
  <2> QED
    BY <1>0, <1>2, <1>3, <2>1
<1>11. ASSUME NEW r \in 1 .. MaxRequests, ResolveNothing(r) \/ Reject(r) \/ Accept(r)
       PROVE  Settles(pairing, pairing')
  <2> DEFINE e == RequestsExpired(pairing)
             x == Resolving(r)
  <2>1. Settles(pairing, e) /\ PairingOK(e)
    BY <1>0, RequestsExpiredSettles, RequestsExpiredConsistent DEF Consistent
  <2>2. PairingOK(x)
    BY ResolvingConsistent DEF Consistent
  <2>3. x.created = e.created /\ x.requests = e.requests
    <3> HIDE DEF e
    <3>1. WindowExpired(e).created = e.created /\ WindowExpired(e).requests = e.requests
      BY <2>1, WindowExpiredSettles
    <3>2. x \in {e, WindowExpired(e)}
      BY DEF Resolving, e
    <3> HIDE DEF x
    <3> QED
      BY <3>1, <3>2
  <2>4. Settles(pairing, x)
    <3> HIDE DEF x, e
    <3> QED
      BY <2>1, <2>3 DEF Settles, Pending
  <2> HIDE DEF e
  <2>5. ASSUME r \in DOMAIN x.requests,
               NEW st \in {"accepted", "rejected", "expired"}
        PROVE  LET q == [x EXCEPT !.requests[r].state = st]
               IN  /\ Settles(pairing, q)
                   /\ Settles(pairing, Taken(q, "succeeded"))
    <3> HIDE DEF x
    <3> DEFINE requests == [x.requests EXCEPT ![r].state = st]
               q == [x EXCEPT !.requests = requests]
    <3>1. [x EXCEPT !.requests[r].state = st] = q
      BY <2>2 DEF PairingOK
    <3>2. \A o \in DOMAIN x.requests : requests[o].state = "pending" => x.requests[o].state = "pending"
      BY <2>2, <2>5 DEF PairingOK, Request
    <3>3. DOMAIN requests = DOMAIN x.requests
      OBVIOUS
    <3> HIDE DEF requests
    <3>4. q = [active |-> x.active, outcomes |-> x.outcomes, requests |-> requests, created |-> x.created]
      BY <2>2 DEF PairingOK
    <3> HIDE DEF q
    <3>5. /\ q.created = x.created /\ q.requests = requests
          /\ Taken(q, "succeeded").created = x.created /\ Taken(q, "succeeded").requests = requests
      BY <3>4 DEF Taken
    <3> QED
      BY <2>4, <3>1, <3>2, <3>3, <3>5 DEF Settles, Pending
  <2>6. \/ pairing' = x
        \/ /\ r \in DOMAIN x.requests
           /\ \E st \in {"accepted", "rejected", "expired"} :
                LET q == [x EXCEPT !.requests[r].state = st]
                IN  pairing' = q \/ pairing' = Taken(q, "succeeded")
    BY <1>11 DEF ResolveNothing, Reject, Accept, Resolvable
  <2> HIDE DEF x
  <2> QED
    BY <2>4, <2>5, <2>6, Zenon
<1>12. ASSUME NEW r \in 1 .. MaxRequests, RequestForgotten(r) PROVE Settles(pairing, pairing')
  BY <1>0, <1>12 DEF RequestForgotten, PairingOK, Settles, Pending
<1>13. ASSUME \/ WindowDeadline \/ UNCHANGED pairingVars
              \/ \E r \in 1 .. MaxRequests : RequestDeadline(r)
              \/ \E w \in Windows : Publish(w)
       PROVE  pairing' = pairing
  BY <1>13 DEF WindowDeadline, RequestDeadline, Publish, pairingVars
<1> QED
  BY <1>1, <1>4, <1>5, <1>6, <1>7, <1>8, <1>9, <1>10, <1>11, <1>12, <1>13

\* A request is made within the limit only.
LEMMA StepCreates ==
  ASSUME PairingIInv, TypesRest, NEW c \in Clients,
         \/ \E n \in Nonces : CreateRequest(c, n)
         \/ \E w \in Windows, b \in Bindings : CreateInvitationRequest(w, b, c)
  PROVE  /\ Cardinality(Pending(pairing')) <= MaxPending
         /\ pairing'.created \in Nat /\ pairing.created <= pairing'.created
<1> DEFINE p == RequestsExpired(WindowExpired(pairing))
<1>1. /\ PairingOK(pairing) /\ PairingOK(p) /\ Settles(pairing, p)
      /\ pairing.created \in Nat
  <2>1. PairingOK(pairing) /\ opened \in Nat /\ Consistent(pairing, grants, opened)
    BY DEF PairingIInv, Consistent
  <2> DEFINE e == WindowExpired(pairing)
  <2>2. /\ Consistent(e, grants, opened) /\ PairingOK(e)
        /\ e.created = pairing.created /\ e.requests = pairing.requests
    BY <2>1, WindowExpiredConsistent DEF Consistent
  <2> HIDE DEF e
  <2>3. Settles(e, RequestsExpired(e)) /\ PairingOK(RequestsExpired(e))
    BY <2>1, <2>2, RequestsExpiredSettles, RequestsExpiredConsistent DEF Consistent
  <2>4. Settles(pairing, RequestsExpired(e))
    BY <2>2, <2>3 DEF Settles, Pending
  <2> QED
    BY <2>1, <2>3, <2>4 DEF e, PairingOK
<1>2. pairing' = p \/ (Creatable(p) /\ \E request : pairing' = Added(p, request))
  <2>1. ASSUME NEW n \in Nonces, CreateRequest(c, n)
        PROVE  pairing' = p \/ (Creatable(p) /\ \E request : pairing' = Added(p, request))
    BY <2>1 DEF CreateRequest
  <2>2. ASSUME NEW w \in Windows, NEW b \in Bindings, CreateInvitationRequest(w, b, c)
        PROVE  pairing' = p \/ (Creatable(p) /\ \E request : pairing' = Added(p, request))
    BY <2>2 DEF CreateInvitationRequest
  <2> QED
    BY <2>1, <2>2
<1> HIDE DEF p
<1>3. Cardinality(Pending(p)) <= MaxPending /\ p.created = pairing.created
  BY <1>1, FewerPending DEF TypesRest, Settles
<1>4. CASE pairing' = p
  BY <1>1, <1>3, <1>4
<1>5. ASSUME Creatable(p), NEW request, pairing' = Added(p, request)
      PROVE  /\ Cardinality(Pending(pairing')) <= MaxPending
             /\ pairing'.created \in Nat /\ pairing.created <= pairing'.created
  BY <1>1, <1>3, <1>5, OneMorePending
<1> QED
  BY <1>2, <1>4, <1>5

\* A grant that is recorded is one of its kind.
LEMMA GrantRecorded ==
  ASSUME grants \subseteq Grants, issued \in Nat, NEW client, NEW route \in Routes,
         NEW w \in Windows \cup {NoWindow}, NEW r \in 0 .. MaxRequests,
         Issue(client, TRUE), Granted(route, w, r)
  PROVE  grants' \subseteq Grants
<1>1. issued' \in Ids
  BY IssueAssumption DEF Issue, Ids
<1>2. [id |-> issued', route |-> route, window |-> w, request |-> r] \in Grants
  BY <1>1 DEF Grants
<1> QED
  BY <1>2 DEF Granted

LEMMA StepGrants == PairingIInv /\ TypesRest /\ [PairingNext]_pairingVars => grants' \subseteq Grants
<1> SUFFICES ASSUME PairingIInv, TypesRest, [PairingNext]_pairingVars PROVE grants' \subseteq Grants
  OBVIOUS
<1>0. grants \subseteq Grants /\ issued \in Nat /\ 0 \in 0 .. MaxRequests
  BY IssueAssumption, PairingAssumption DEF TypesRest, PairingIInv, StoreIInv, StoreTypeOK
<1>1. ASSUME NEW w \in Windows, NEW c \in Clients, CompletePairing(w, c) PROVE grants' \subseteq Grants
  <2>1. grants' = grants \/ (Issue(c, TRUE) /\ Granted("exchange", w, 0))
    BY <1>1 DEF CompletePairing
  <2>2. "exchange" \in Routes
    BY DEF Routes
  <2> QED
    BY <1>0, <2>1, <2>2, GrantRecorded
<1>2. ASSUME NEW r \in 1 .. MaxRequests, Accept(r) PROVE grants' \subseteq Grants
  <2> DEFINE p == Resolving(r)
             route == IF Invited(p.requests[r]) THEN "invitation" ELSE "approval"
  <2>1. /\ p.requests \in [DOMAIN p.requests -> Request] /\ r \in DOMAIN p.requests
        /\ \/ grants' = grants
           \/ Issue(p.requests[r].client, TRUE) /\ Granted(route, p.requests[r].window, r)
    BY <1>2, ResolvingConsistent DEF Consistent, PairingOK, Accept, Resolvable
  <2> HIDE DEF p
  <2>2. p.requests[r].window \in Windows \cup {NoWindow} /\ route \in Routes
    BY <2>1 DEF Request, Routes
  <2> HIDE DEF route
  <2>3. r \in 0 .. MaxRequests
    BY <1>0
  <2> QED
    BY <1>0, <2>1, <2>2, <2>3, GrantRecorded
<1>3. ASSUME \/ BeginPairing \/ LookAtPairing \/ LookAtRequests \/ WindowDeadline \/ PairingRestarts
             \/ UNCHANGED pairingVars
             \/ \E w \in Windows :
                  RequireInvitation(w) \/ Publish(w) \/ CancelPairing(w) \/ OutcomeForgotten(w)
      PROVE  grants' = grants
  BY <1>3 DEF BeginPairing, LookAtPairing, LookAtRequests, WindowDeadline, PairingRestarts, pairingVars,
     RequireInvitation, Publish, CancelPairing, OutcomeForgotten
<1>4. ASSUME NEW c \in Clients, NEW n \in Nonces, CreateRequest(c, n) PROVE grants' = grants
  BY <1>4 DEF CreateRequest
<1>5. ASSUME NEW w \in Windows, NEW b \in Bindings, NEW c \in Clients,
             CreateInvitationRequest(w, b, c)
      PROVE  grants' = grants
  BY <1>5 DEF CreateInvitationRequest
<1>6. ASSUME NEW r \in 1 .. MaxRequests,
             ResolveNothing(r) \/ Reject(r) \/ RequestDeadline(r) \/ RequestForgotten(r)
      PROVE  grants' = grants
  BY <1>6 DEF ResolveNothing, Reject, RequestDeadline, RequestForgotten
<1> QED
  BY <1>0, <1>1, <1>2, <1>3, <1>4, <1>5, <1>6 DEF PairingNext

LEMMA StepTimes ==
  ASSUME PairingIInv, TypesRest, [PairingNext]_pairingVars
  PROVE  /\ published' \subseteq 1 .. opened'
         /\ late' = [windows |-> late'.windows, requests |-> late'.requests]
         /\ late'.windows \subseteq 1 .. opened'
         /\ late'.requests \subseteq late.requests \cup (DOMAIN pairing.requests)
<1>0. /\ opened \in Nat /\ TypesRest /\ PairingOK(pairing) /\ FreshWhileActive(pairing, grants, opened)
  BY DEF PairingIInv, Consistent
<1>1. ASSUME UNCHANGED <<published, late, opened>>
      PROVE  /\ published' \subseteq 1 .. opened'
             /\ late' = [windows |-> late'.windows, requests |-> late'.requests]
             /\ late'.windows \subseteq 1 .. opened'
             /\ late'.requests \subseteq late.requests \cup (DOMAIN pairing.requests)
  BY <1>0, <1>1 DEF TypesRest
<1>2. CASE BeginPairing
  <2>1. opened' \in {opened, opened + 1} /\ UNCHANGED <<published, late>>
    BY <1>2 DEF BeginPairing
  <2>2. 1 .. opened \subseteq 1 .. opened'
    BY <1>0, <2>1
  <2> QED
    BY <1>0, <2>1, <2>2 DEF TypesRest
<1>3. ASSUME NEW w \in Windows, Publish(w)
      PROVE  /\ published' \subseteq 1 .. opened' /\ UNCHANGED <<opened, late>>
  BY <1>0, <1>3 DEF Publish, TypesRest
<1>4. CASE WindowDeadline
  <2>1. pairing.active.id \in 1 .. opened
    BY <1>0, <1>4 DEF WindowDeadline, PairingOK, Window, FreshWhileActive
  <2>2. /\ late' = [late EXCEPT !.windows = @ \cup {pairing.active.id}]
        /\ UNCHANGED <<published, opened>>
    BY <1>4 DEF WindowDeadline
  <2> QED
    BY <1>0, <2>1, <2>2 DEF TypesRest
<1>5. ASSUME NEW r \in 1 .. MaxRequests, RequestDeadline(r)
      PROVE  /\ published' \subseteq 1 .. opened'
             /\ late' = [windows |-> late'.windows, requests |-> late'.requests]
             /\ late'.windows \subseteq 1 .. opened'
             /\ late'.requests \subseteq late.requests \cup (DOMAIN pairing.requests)
  BY <1>0, <1>5 DEF RequestDeadline, TypesRest
<1>6. ASSUME \/ LookAtPairing \/ LookAtRequests \/ PairingRestarts \/ UNCHANGED pairingVars
             \/ \E w \in Windows : RequireInvitation(w) \/ CancelPairing(w) \/ OutcomeForgotten(w)
      PROVE  UNCHANGED <<published, late, opened>>
  BY <1>6 DEF LookAtPairing, LookAtRequests, PairingRestarts, pairingVars, RequireInvitation, CancelPairing,
     OutcomeForgotten
<1>7. ASSUME NEW c \in Clients, NEW n \in Nonces, CreateRequest(c, n)
      PROVE  UNCHANGED <<published, late, opened>>
  BY <1>7 DEF CreateRequest
<1>8. ASSUME NEW w \in Windows, NEW c \in Clients,
             CompletePairing(w, c) \/ \E b \in Bindings : CreateInvitationRequest(w, b, c)
      PROVE  UNCHANGED <<published, late, opened>>
  BY <1>8 DEF CompletePairing, CreateInvitationRequest
<1>9. ASSUME NEW r \in 1 .. MaxRequests,
             ResolveNothing(r) \/ Reject(r) \/ Accept(r) \/ RequestForgotten(r)
      PROVE  UNCHANGED <<published, late, opened>>
  BY <1>9 DEF ResolveNothing, Reject, Accept, RequestForgotten
<1> QED
  BY <1>0, <1>1, <1>2, <1>3, <1>4, <1>5, <1>6, <1>7, <1>8, <1>9 DEF PairingNext, TypesRest

LEMMA StepTypes == PairingIInv /\ TypesRest /\ [PairingNext]_pairingVars => TypesRest'
<1> SUFFICES ASSUME PairingIInv, TypesRest, [PairingNext]_pairingVars PROVE TypesRest'
  OBVIOUS
<1>0. PairingOK(pairing) /\ pairing.created \in Nat /\ DOMAIN pairing.requests \subseteq 1 .. pairing.created
  BY DEF PairingIInv, Consistent, PairingOK
<1>1. ASSUME Settles(pairing, pairing')
      PROVE  /\ Cardinality(Pending(pairing')) <= MaxPending
             /\ pairing'.created \in Nat /\ pairing.created <= pairing'.created
  BY <1>0, <1>1, FewerPending DEF TypesRest, Settles
<1>2. /\ Cardinality(Pending(pairing')) <= MaxPending
      /\ pairing'.created \in Nat /\ pairing.created <= pairing'.created
  BY <1>1, StepSettles, StepCreates DEF PairingNext
<1>3. 1 .. pairing.created \subseteq 1 .. pairing'.created
  BY <1>0, <1>2
<1>4. late'.requests \subseteq 1 .. pairing'.created
  BY <1>0, <1>3, StepTimes DEF TypesRest
<1> QED
  BY <1>2, <1>4, StepTimes, StepGrants DEF TypesRest, Pending

LEMMA PairingInitTypes == PairingInit => TypesRest
<1> SUFFICES ASSUME PairingInit PROVE TypesRest
  OBVIOUS
<1>1. Pending(pairing) = {} /\ pairing.created = 0 /\ opened = 0
  BY DEF PairingInit, Pending
<1>2. Cardinality(Pending(pairing)) <= MaxPending
  BY <1>1, FS_EmptySet, PairingAssumption
<1>3. /\ late.windows = {} /\ late.requests = {} /\ published = {} /\ grants = {}
      /\ late = [windows |-> late.windows, requests |-> late.requests]
  BY DEF PairingInit
<1> QED
  BY <1>1, <1>2, <1>3 DEF TypesRest

\* PairingState is what PairingTypeOK says, with no more requests waiting than
\* MAX_PAIRING_REQUEST_RECORDS (access.rs).
THEOREM PairingTypeCorrect == PairingSpec => []PairingTypeOK
<1>1. PairingIInv /\ TypesRest => PairingTypeOK
  BY DEF PairingIInv, StoreIInv, Consistent, PairingOK, TypesRest, PairingTypeOK, Pending
<1> QED
  BY <1>1, PairingInitTypes, StepTypes, PairingInvariance, PTL DEF PairingSpec

\* A set with at most, or exactly, one element.
LEMMA Singles ==
  ASSUME NEW S, \A g, h \in S : g = h
  PROVE  /\ Cardinality(S) <= 1
         /\ Cardinality(S) = IF S = {} THEN 0 ELSE 1
<1>1. CASE S = {}
  BY <1>1, FS_EmptySet
<1>2. ASSUME NEW g \in S PROVE Cardinality(S) = 1
  <2>1. S = {g}
    BY <1>2
  <2> QED
    BY <2>1, FS_Singleton
<1> QED
  BY <1>1, <1>2

\* A window's secret is turned into at most one credential, whatever routes,
\* retries, answers and deadlines interleave (access.rs, complete_pairing and
\* resolve_pairing_request).
THEOREM OneGrant == PairingSpec => []OneGrantPerInvitation
<1>1. PairingIInv => OneGrantPerInvitation
  <2> SUFFICES ASSUME PairingIInv, NEW w \in Windows PROVE Cardinality(Used(w)) <= 1
    BY DEF OneGrantPerInvitation
  <2>1. \A g, h \in Used(w) : g = h
    BY DEF PairingIInv, Consistent, UsedOnce, UsedBy, Used
  <2> QED
    BY <2>1, Singles
<1> QED
  BY <1>1, PairingInvariance, PTL

\* No credential came or comes of a window reported cancelled or expired
\* (access.rs, cancel_pairing, expire_locked, pairing_status).
THEOREM OutcomesAreTrue == PairingSpec => []OutcomeTruthful
<1>1. PairingIInv => OutcomeTruthful
  BY DEF PairingIInv, Consistent, Truthful, UsedBy, Used, OutcomeTruthful
<1> QED
  BY <1>1, PairingInvariance, PTL

\* A request that is answered as accepted gave exactly one credential, any
\* other none (access.rs, resolve_pairing_request, pairing_request_status).
THEOREM AnswersAreTrue == PairingSpec => []AnswersAreGrants
<1>1. PairingIInv => AnswersAreGrants
  <2> SUFFICES ASSUME PairingIInv, NEW r \in DOMAIN pairing.requests
               PROVE  Cardinality({g \in grants : g.request = r})
                        = IF pairing.requests[r].state = "accepted" THEN 1 ELSE 0
    BY DEF AnswersAreGrants
  <2> DEFINE S == {g \in grants : g.request = r}
  <2>1. \A g, h \in S : g = h
    BY DEF PairingIInv, Consistent, Answered
  <2>2. S = {} <=> pairing.requests[r].state # "accepted"
    BY DEF PairingIInv, Consistent, Answered
  <2>3. Cardinality(S) = IF S = {} THEN 0 ELSE 1
    <3> HIDE DEF S
    <3> QED
      BY <2>1, Singles
  <2> QED
    BY <2>2, <2>3
<1> QED
  BY <1>1, PairingInvariance, PTL

\* The credentials' file is never behind what was reported, in pairings too
\* (access.rs, issue).
THEOREM PairingFileNeverBehind == PairingSpec => []DiskNeverBehind
<1>1. PairingIInv => DiskNeverBehind
  BY DEF PairingIInv, StoreIInv
<1> QED
  BY <1>1, PairingInvariance, PTL

-----------------------------------------------------------------------------
(* The refinement: what a step makes of the active window.                 *)

OpenIn(p)      == {w \in Windows : IsActive(p, w)}
SameWindow(p, q) == OpenIn(q) = OpenIn(p) /\ q.outcomes = p.outcomes

EndsWindow(p, q, w, how) ==
  /\ OpenIn(p) = {w}
  /\ OpenIn(q) = {}
  /\ q.outcomes = [p.outcomes EXCEPT ![w] = how]

\* Nothing happens to it, or it is found expired.
Passes(p, q) == SameWindow(p, q) \/ \E w \in Windows : EndsWindow(p, q, w, "expired")

\* No credential was given that is still to be drawn.
GrantsPast == \A g \in grants : g.id <= issued

LEMMA OpenIsActive ==
  ASSUME NEW p, PairingOK(p)
  PROVE  OpenIn(p) = IF p.active = NoWindow THEN {} ELSE {p.active.id}
BY DEF OpenIn, IsActive, PairingOK, Window

LEMMA TakenEnds ==
  ASSUME NEW p, PairingOK(p), p.active # NoWindow, NEW how
  PROVE  EndsWindow(p, Taken(p, how), p.active.id, how)
<1> DEFINE id == p.active.id
           u == [p EXCEPT !.active = NoWindow]
<1>1. u = [active |-> NoWindow, outcomes |-> p.outcomes, requests |-> p.requests,
           created |-> p.created]
  BY DEF PairingOK
<1>2. Taken(p, how) = [u EXCEPT !.outcomes[id] = how]
  BY DEF Taken, PairingOK
<1>3. OpenIn(p) = {id}
  BY OpenIsActive
<1> HIDE DEF u, id
<1>4. Taken(p, how) = [active |-> NoWindow, outcomes |-> [p.outcomes EXCEPT ![id] = how],
                       requests |-> p.requests, created |-> p.created]
  BY <1>1, <1>2
<1>5. OpenIn(Taken(p, how)) = {} /\ Taken(p, how).outcomes = [p.outcomes EXCEPT ![id] = how]
  BY <1>4 DEF OpenIn, IsActive
<1> QED
  BY <1>3, <1>5 DEF EndsWindow, id

LEMMA WindowExpiredPasses ==
  ASSUME NEW p, PairingOK(p)
  PROVE  Passes(p, WindowExpired(p))
<1>1. CASE p.active # NoWindow /\ p.active.id \in late.windows
  <2>1. p.active.id \in Windows
    BY <1>1 DEF PairingOK, Window
  <2> QED
    BY <1>1, <2>1, TakenEnds DEF WindowExpired, Passes
<1>2. CASE ~(p.active # NoWindow /\ p.active.id \in late.windows)
  BY <1>2 DEF WindowExpired, Passes, SameWindow
<1> QED
  BY <1>1, <1>2

\* Changes of the requests are none of the window.
LEMMA RequestsKeepWindow ==
  ASSUME NEW p, PairingOK(p)
  PROVE  /\ SameWindow(p, RequestsExpired(p))
         /\ \A r, st : SameWindow(p, [p EXCEPT !.requests[r].state = st])
         /\ \A request : SameWindow(p, Added(p, request))
         /\ \A requests : SameWindow(p, [p EXCEPT !.requests = requests])
<1>1. \A requests : SameWindow(p, [p EXCEPT !.requests = requests])
  BY DEF PairingOK, SameWindow, OpenIn, IsActive
<1>2. SameWindow(p, RequestsExpired(p))
  BY <1>1 DEF RequestsExpired
<1>3. \A r, st : SameWindow(p, [p EXCEPT !.requests[r].state = st])
  <2> TAKE r, st
  <2>1. [p EXCEPT !.requests[r].state = st]
          = [p EXCEPT !.requests = [p.requests EXCEPT ![r].state = st]]
    BY DEF PairingOK
  <2> QED
    BY <1>1, <2>1
<1>4. \A request : SameWindow(p, Added(p, request))
  <2> TAKE request
  <2>1. /\ Added(p, request).active = p.active
        /\ Added(p, request).outcomes = p.outcomes
    BY DEF PairingOK, Added
  <2> QED
    BY <2>1 DEF SameWindow, OpenIn, IsActive
<1> QED
  BY <1>1, <1>2, <1>3, <1>4

\* Expiry first and a request afterwards, or the other way around.
LEMMA PassesOn ==
  ASSUME NEW p, NEW q, NEW s
  PROVE  /\ Passes(p, q) /\ SameWindow(q, s) => Passes(p, s)
         /\ SameWindow(p, q) /\ Passes(q, s) => Passes(p, s)
         /\ Passes(p, q) /\ OpenIn(q) # {} => SameWindow(p, q)
         /\ SameWindow(p, q) => Passes(p, q)
BY DEF Passes, SameWindow, EndsWindow

LEMMA ResolvingPasses ==
  ASSUME PairingIInv, NEW r
  PROVE  Passes(pairing, Resolving(r))
<1> DEFINE p == RequestsExpired(pairing)
<1>1. PairingOK(pairing) /\ PairingOK(p)
  BY RequestsExpiredConsistent DEF PairingIInv, Consistent
<1>2. SameWindow(pairing, p)
  BY <1>1, RequestsKeepWindow
<1> HIDE DEF p
<1>3. Passes(p, WindowExpired(p))
  BY <1>1, WindowExpiredPasses
<1>4. Resolving(r) \in {p, WindowExpired(p)}
  BY DEF Resolving, p
<1> QED
  BY <1>2, <1>3, <1>4, PassesOn

-----------------------------------------------------------------------------
(* The refinement: steps.                                                  *)

InvitationStep == Invitation!Next \/ UNCHANGED Invitation!vars

LEMMA WindowsKnown ==
  ASSUME PairingIInv
  PROVE  /\ PairingOK(pairing) /\ opened \in 0 .. MaxWindows
         /\ ActiveWindows = OpenIn(pairing) /\ ActiveWindows \subseteq 1 .. opened
         /\ pairing.outcomes \in [Windows -> Outcomes]
<1>1. PairingOK(pairing) /\ FreshWhileActive(pairing, grants, opened) /\ opened \in 0 .. MaxWindows
  BY DEF PairingIInv, Consistent
<1>2. ActiveWindows = OpenIn(pairing)
  BY DEF ActiveWindows, OpenIn
<1>3. OpenIn(pairing) \subseteq 1 .. opened
  BY <1>1, OpenIsActive DEF PairingOK, Window, FreshWhileActive
<1> QED
  BY <1>1, <1>2, <1>3 DEF PairingOK

\* The window ends, whatever else is done.
LEMMA EndsImplements ==
  ASSUME PairingIInv, NEW w \in Windows, NEW how, EndsWindow(pairing, pairing', w, how),
         opened' = opened
  PROVE  Invitation!Ends(w, how)
<1>1. ActiveWindows = {w} /\ ActiveWindows' = {} /\ w \in 1 .. opened
  BY WindowsKnown DEF EndsWindow, ActiveWindows, OpenIn
<1>2. pairing'.outcomes = [pairing.outcomes EXCEPT ![w] = how]
  BY DEF EndsWindow
<1>3. PastWindows' = PastWindows \cup {w}
  BY <1>1 DEF PastWindows
<1> QED
  BY <1>1, <1>2, <1>3 DEF Invitation!Ends

LEMMA PassesImplements ==
  ASSUME PairingIInv, Passes(pairing, pairing'), opened' = opened, GivenBy' = GivenBy
  PROVE  InvitationStep
<1>1. CASE SameWindow(pairing, pairing')
  <2>1. ActiveWindows' = ActiveWindows /\ pairing'.outcomes = pairing.outcomes
    BY <1>1 DEF SameWindow, ActiveWindows, OpenIn
  <2> QED
    BY <2>1 DEF InvitationStep, Invitation!vars, PastWindows
<1>2. ASSUME NEW w \in Windows, EndsWindow(pairing, pairing', w, "expired") PROVE InvitationStep
  BY <1>2, EndsImplements DEF InvitationStep, Invitation!Next, Invitation!Close
<1> QED
  BY <1>1, <1>2 DEF Passes

\* The secret gives a credential, a new one.
LEMMA GiveImplements ==
  ASSUME PairingIInv, TypesRest, GrantsPast, NEW w \in Windows,
         EndsWindow(pairing, pairing', w, "succeeded"), opened' = opened,
         NEW client, Issue(client, TRUE),
         NEW route \in {"exchange", "invitation"}, NEW r, Granted(route, w, r)
  PROVE  InvitationStep
<1> DEFINE g == [id |-> issued', route |-> route, window |-> w, request |-> r]
<1>1. issued \in Nat /\ issued' = issued + 1 /\ issued' \in Ids
  BY IssueAssumption DEF PairingIInv, StoreIInv, StoreTypeOK, Issue, Ids
<1>2. grants' = grants \cup {g} /\ \A h \in grants : h.id \in Nat /\ h.id # issued'
  BY <1>1 DEF Granted, GrantsPast, TypesRest, Grants, Ids
<1>3. Used(w) = {}
  <2>1. IsActive(pairing, w)
    BY DEF EndsWindow, OpenIn
  <2> QED
    BY <2>1 DEF PairingIInv, Consistent, FreshWhileActive, UsedBy, Used
<1>4. \A v \in Windows : Used(v)' = IF v = w THEN {g} ELSE Used(v)
  BY <1>2, <1>3 DEF Used
<1>5. GivenBy' = [GivenBy EXCEPT ![w] = {issued'}]
  <2>1. {h.id : h \in {g}} = {issued'}
    OBVIOUS
  <2> HIDE DEF g
  <2>2. \A v \in Windows : {h.id : h \in Used(v)'} = IF v = w THEN {issued'} ELSE {h.id : h \in Used(v)}
    BY <1>4, <2>1
  <2> QED
    BY <2>2 DEF GivenBy
<1>6. \A v \in Windows : issued' \notin GivenBy[v]
  BY <1>2 DEF GivenBy, Used
<1>7. Invitation!Ends(w, "succeeded")
  BY EndsImplements
<1> QED
  BY <1>1, <1>5, <1>6, <1>7 DEF InvitationStep, Invitation!Next, Invitation!Give

LEMMA GivenStays ==
  ASSUME \/ grants' = grants
         \/ \E w, r : Granted("approval", w, r)
  PROVE  GivenBy' = GivenBy
<1>1. \A w \in Windows : Used(w)' = Used(w)
  BY DEF Granted, Used
<1> QED
  BY <1>1 DEF GivenBy

LEMMA BeginImplements ==
  ASSUME PairingIInv, BeginPairing
  PROVE  InvitationStep
<1> DEFINE p == WindowExpired(pairing)
<1>1. Passes(pairing, p) /\ PairingOK(p) /\ OpenIn(p) = (IF p.active = NoWindow THEN {} ELSE {p.active.id})
  <2>1. PairingOK(pairing) /\ PairingOK(p)
    BY WindowExpiredConsistent DEF PairingIInv, Consistent
  <2> QED
    BY <2>1, WindowExpiredPasses, OpenIsActive
<1>2. GivenBy' = GivenBy
  BY GivenStays DEF BeginPairing
<1>3. CASE p.active # NoWindow
  BY <1>1, <1>2, <1>3, PassesImplements DEF BeginPairing
<1>4. CASE p.active = NoWindow
  <2> DEFINE w == opened + 1
             a == [id |-> w, invitationOnly |-> FALSE]
  <2>1. w \in Windows /\ opened' = w /\ opened \in Nat /\ pairing' = [p EXCEPT !.active = a]
    BY <1>4, WindowsKnown DEF BeginPairing
  <2>2. pairing' = [active |-> a, outcomes |-> p.outcomes, requests |-> p.requests, created |-> p.created]
    BY <1>1, <2>1 DEF PairingOK
  <2>3. a # NoWindow
    <3>1. a \in Window
      BY <2>1 DEF Window
    <3> HIDE DEF a
    <3> QED
      BY <3>1, PairingAssumption
  <2>4. ActiveWindows' = {w} /\ pairing'.outcomes = p.outcomes
    BY <2>1, <2>2, <2>3 DEF ActiveWindows, IsActive
  <2>5. ActiveWindows \subseteq 1 .. opened
    BY WindowsKnown
  <2>6. PastWindows' = PastWindows \cup ActiveWindows
    BY <2>1, <2>4, <2>5 DEF PastWindows
  <2>7. w \notin ActiveWindows \cup PastWindows
    BY <2>1, <2>5 DEF PastWindows
  <2>8. pairing'.outcomes = [v \in Windows |-> IF v \in ActiveWindows THEN "expired" ELSE pairing.outcomes[v]]
    <3> HIDE DEF p
    <3>1. pairing.outcomes \in [Windows -> Outcomes] /\ ActiveWindows = OpenIn(pairing)
      BY WindowsKnown
    <3>2. CASE SameWindow(pairing, p)
      BY <1>1, <1>4, <2>4, <3>1, <3>2 DEF SameWindow
    <3>3. ASSUME NEW v \in Windows, EndsWindow(pairing, p, v, "expired")
          PROVE  p.outcomes = [u \in Windows |-> IF u \in ActiveWindows THEN "expired"
                                                                       ELSE pairing.outcomes[u]]
      BY <3>1, <3>3 DEF EndsWindow
    <3> QED
      BY <1>1, <2>4, <3>2, <3>3 DEF Passes
  <2> HIDE DEF w
  <2> QED
    BY <1>2, <2>1, <2>4, <2>6, <2>7, <2>8 DEF InvitationStep, Invitation!Next, Invitation!Open
<1> QED
  BY <1>3, <1>4

LEMMA CompleteImplements ==
  ASSUME PairingIInv, TypesRest, GrantsPast, NEW w \in Windows, NEW c \in Clients, CompletePairing(w, c)
  PROVE  InvitationStep
<1>1. PairingOK(pairing) /\ opened' = opened
  BY WindowsKnown DEF CompletePairing
<1>2. CASE pairing' \in {pairing, WindowExpired(pairing)} /\ grants' = grants
  <2>1. Passes(pairing, pairing')
    BY <1>1, <1>2, WindowExpiredPasses DEF Passes, SameWindow
  <2> QED
    BY <1>1, <1>2, <2>1, GivenStays, PassesImplements
<1>3. CASE /\ IsActive(pairing, w) /\ Issue(c, TRUE)
           /\ pairing' = Taken(pairing, "succeeded") /\ Granted("exchange", w, 0)
  <2>1. EndsWindow(pairing, pairing', w, "succeeded")
    BY <1>1, <1>3, TakenEnds DEF IsActive
  <2> QED
    BY <1>1, <1>3, <2>1, GiveImplements
<1> QED
  BY <1>2, <1>3 DEF CompletePairing

LEMMA CreateImplements ==
  ASSUME PairingIInv, NEW c \in Clients,
         \/ \E n \in Nonces : CreateRequest(c, n)
         \/ \E w \in Windows, b \in Bindings : CreateInvitationRequest(w, b, c)
  PROVE  InvitationStep
<1> DEFINE q == WindowExpired(pairing)
           p == RequestsExpired(q)
<1>1. /\ UNCHANGED <<opened, grants>>
      /\ pairing' = p \/ \E request : pairing' = Added(p, request)
  <2>1. ASSUME NEW n \in Nonces, CreateRequest(c, n)
        PROVE  /\ UNCHANGED <<opened, grants>>
               /\ pairing' = p \/ \E request : pairing' = Added(p, request)
    BY <2>1 DEF CreateRequest
  <2>2. ASSUME NEW w \in Windows, NEW b \in Bindings, CreateInvitationRequest(w, b, c)
        PROVE  /\ UNCHANGED <<opened, grants>>
               /\ pairing' = p \/ \E request : pairing' = Added(p, request)
    BY <2>2 DEF CreateInvitationRequest
  <2> QED
    BY <2>1, <2>2
<1>2. opened \in Nat /\ Consistent(q, grants, opened) /\ PairingOK(q)
  BY WindowExpiredConsistent DEF PairingIInv, Consistent
<1>3. Passes(pairing, q)
  BY WindowsKnown, WindowExpiredPasses
<1> HIDE DEF q
<1>4. PairingOK(p) /\ SameWindow(q, p)
  BY <1>2, RequestsExpiredConsistent, RequestsKeepWindow DEF Consistent
<1> HIDE DEF p
<1>5. Passes(pairing, p)
  BY <1>3, <1>4, PassesOn
<1>6. Passes(pairing, pairing')
  BY <1>1, <1>4, <1>5, RequestsKeepWindow, PassesOn
<1> QED
  BY <1>1, <1>6, GivenStays, PassesImplements

LEMMA AnswerImplements ==
  ASSUME PairingIInv, TypesRest, GrantsPast, NEW r \in 1 .. MaxRequests,
         ResolveNothing(r) \/ Reject(r) \/ Accept(r)
  PROVE  InvitationStep
<1> DEFINE p == Resolving(r)
           request == p.requests[r]
           accepted == [p EXCEPT !.requests[r].state = "accepted"]
<1>1. Consistent(p, grants, opened) /\ PairingOK(p) /\ Passes(pairing, p)
  BY ResolvingConsistent, ResolvingPasses DEF Consistent
<1>2. opened' = opened
  BY DEF ResolveNothing, Reject, Accept
<1>3. \A st : Passes(pairing, [p EXCEPT !.requests[r].state = st])
  <2> HIDE DEF p
  <2> QED
    BY <1>1, RequestsKeepWindow, PassesOn
<1>4. CASE ResolveNothing(r) \/ Reject(r)
  <2>1. Passes(pairing, pairing') /\ grants' = grants
    BY <1>1, <1>3, <1>4 DEF ResolveNothing, Reject
  <2> QED
    BY <1>2, <2>1, GivenStays, PassesImplements
<1>5. CASE Accept(r) /\ pairing' = p /\ grants' = grants
  BY <1>1, <1>2, <1>5, GivenStays, PassesImplements
<1>6. ASSUME r \in DOMAIN p.requests, ~Overtaken(p, r), Issue(request.client, TRUE),
             pairing' = (IF IsActive(p, request.window) THEN Taken(accepted, "succeeded") ELSE accepted),
             Granted(IF Invited(request) THEN "invitation" ELSE "approval", request.window, r)
      PROVE  InvitationStep
  <2>1. CASE ~IsActive(p, request.window)
    <3>1. GivenBy' = GivenBy
      BY <1>6, <2>1, GivenStays DEF Overtaken
    <3>2. pairing' = accepted
      BY <1>6, <2>1
    <3> QED
      BY <1>2, <1>3, <3>1, <3>2, PassesImplements
  <2>2. CASE IsActive(p, request.window)
    <3>1. p.active # NoWindow /\ p.active.id = request.window /\ request.window \in Windows
      BY <1>1, <2>2 DEF IsActive, PairingOK, Window
    <3>2. pairing' = Taken(accepted, "succeeded")
      BY <1>6, <2>2
    <3>3. EndsWindow(pairing, pairing', request.window, "succeeded")
      <4>1. SameWindow(pairing, p)
        BY <1>1, <3>1, OpenIsActive, PassesOn
      <4>2. PairingOK(accepted) /\ accepted.active = p.active /\ SameWindow(p, accepted)
        <5>1. p.requests \in [DOMAIN p.requests -> Request]
          BY <1>1 DEF PairingOK
        <5>2. [p.requests EXCEPT ![r].state = "accepted"] \in [DOMAIN p.requests -> Request]
          BY <1>6, <5>1 DEF Request
        <5> DEFINE requests == [p.requests EXCEPT ![r].state = "accepted"]
        <5>3. accepted = [p EXCEPT !.requests = requests]
          BY <1>1 DEF PairingOK
        <5>4. DOMAIN requests = DOMAIN p.requests
          OBVIOUS
        <5>5. SameWindow(p, accepted)
          <6> HIDE DEF p
          <6> QED
            BY <1>1, RequestsKeepWindow
        <5> HIDE DEF accepted, p, requests
        <5>6. accepted = [active |-> p.active, outcomes |-> p.outcomes, requests |-> requests,
                          created |-> p.created]
          BY <1>1, <5>3 DEF PairingOK
        <5>7. PairingOK(accepted)
          BY <1>1, <5>2, <5>4, <5>6 DEF PairingOK, requests
        <5> QED
          BY <5>5, <5>6, <5>7
      <4> HIDE DEF accepted, p
      <4>3. EndsWindow(accepted, Taken(accepted, "succeeded"), request.window, "succeeded")
        BY <3>1, <4>2, TakenEnds
      <4> QED
        BY <3>2, <4>1, <4>2, <4>3 DEF EndsWindow, SameWindow
    <3>4. CASE Invited(request)
      BY <1>2, <1>6, <3>1, <3>3, <3>4, GiveImplements
    <3>5. CASE ~Invited(request)
      <4>1. GivenBy' = GivenBy
        BY <1>6, <3>5, GivenStays
      <4>2. Invitation!Ends(request.window, "succeeded")
        BY <1>2, <3>1, <3>3, EndsImplements
      <4> QED
        BY <3>1, <4>1, <4>2 DEF InvitationStep, Invitation!Next, Invitation!Close
    <3> QED
      BY <3>4, <3>5
  <2> QED
    BY <2>1, <2>2
<1> QED
  BY <1>4, <1>5, <1>6 DEF Accept, Resolvable

LEMMA OtherImplements ==
  ASSUME PairingIInv,
         \/ LookAtPairing \/ LookAtRequests \/ WindowDeadline \/ PairingRestarts \/ UNCHANGED pairingVars
         \/ \E w \in Windows : RequireInvitation(w) \/ Publish(w) \/ CancelPairing(w) \/ OutcomeForgotten(w)
         \/ \E r \in 1 .. MaxRequests : RequestDeadline(r) \/ RequestForgotten(r)
  PROVE  InvitationStep
<1>0. PairingOK(pairing) /\ opened \in Nat
  BY WindowsKnown
<1>1. ASSUME Passes(pairing, pairing'), UNCHANGED <<opened, grants>> PROVE InvitationStep
  BY <1>1, GivenStays, PassesImplements
<1>2. ASSUME UNCHANGED <<pairing, opened, grants>> PROVE InvitationStep
  BY <1>1, <1>2 DEF Passes, SameWindow
<1>3. CASE LookAtPairing
  BY <1>0, <1>1, <1>3, WindowExpiredPasses DEF LookAtPairing
<1>4. CASE LookAtRequests
  BY <1>0, <1>1, <1>4, RequestsKeepWindow, PassesOn DEF LookAtRequests
<1>5. CASE WindowDeadline \/ UNCHANGED pairingVars
  BY <1>2, <1>5 DEF WindowDeadline, pairingVars
<1>6. CASE PairingRestarts
  <2> DEFINE none == [w \in Windows |-> "none"]
  <2>1. pairing'.active = NoWindow /\ pairing'.outcomes = none /\ UNCHANGED <<opened, grants>>
    BY <1>0, <1>6 DEF PairingRestarts, PairingOK
  <2>2. ActiveWindows' = {}
    BY <2>1 DEF ActiveWindows, IsActive
  <2>3. PastWindows' = PastWindows \cup ActiveWindows
    BY <2>1, <2>2, WindowsKnown DEF PastWindows
  <2> QED
    BY <2>1, <2>2, <2>3, GivenStays DEF InvitationStep, Invitation!Next, Invitation!Restart
<1>7. ASSUME NEW w \in Windows, RequireInvitation(w) PROVE InvitationStep
  <2>1. /\ pairing.active \in Window
        /\ pairing' = [pairing EXCEPT !.active = [pairing.active EXCEPT !.invitationOnly = TRUE]]
        /\ UNCHANGED <<opened, grants>>
    BY <1>0, <1>7 DEF RequireInvitation, IsActive, PairingOK
  <2> DEFINE a == [pairing.active EXCEPT !.invitationOnly = TRUE]
  <2>2. a.id = pairing.active.id /\ a \in Window
    BY <2>1 DEF Window
  <2> HIDE DEF a
  <2>3. pairing'.active = a /\ pairing'.outcomes = pairing.outcomes
    BY <1>0, <2>1 DEF PairingOK, a
  <2>4. SameWindow(pairing, pairing')
    BY <1>7, <2>2, <2>3, PairingAssumption DEF SameWindow, OpenIn, IsActive, RequireInvitation
  <2> QED
    BY <1>1, <2>1, <2>4 DEF Passes
<1>8. ASSUME NEW w \in Windows, Publish(w) PROVE InvitationStep
  BY <1>2, <1>8 DEF Publish
<1>9. ASSUME NEW w \in Windows, CancelPairing(w) PROVE InvitationStep
  <2> DEFINE p == WindowExpired(pairing)
  <2>1. Passes(pairing, p) /\ PairingOK(p) /\ UNCHANGED <<opened, grants>>
    BY <1>0, <1>9, WindowExpiredPasses, WindowExpiredConsistent DEF PairingIInv, Consistent, CancelPairing
  <2>2. CASE pairing' = p
    BY <1>1, <2>1, <2>2
  <2>3. CASE IsActive(p, w) /\ pairing' = Taken(p, "cancelled")
    <3> HIDE DEF p
    <3>1. EndsWindow(p, pairing', w, "cancelled") /\ OpenIn(p) # {}
      BY <2>1, <2>3, TakenEnds DEF IsActive, EndsWindow
    <3>2. EndsWindow(pairing, pairing', w, "cancelled")
      BY <2>1, <3>1, PassesOn DEF EndsWindow, SameWindow
    <3> QED
      BY <2>1, <3>2, EndsImplements, GivenStays DEF InvitationStep, Invitation!Next, Invitation!Close
  <2> QED
    BY <1>9, <2>2, <2>3 DEF CancelPairing
<1>10. ASSUME NEW w \in Windows, OutcomeForgotten(w) PROVE InvitationStep
  <2>1. /\ pairing'.active = pairing.active
        /\ pairing'.outcomes = [pairing.outcomes EXCEPT ![w] = "none"]
        /\ UNCHANGED <<opened, grants>>
    BY <1>0, <1>10 DEF OutcomeForgotten, PairingOK
  <2>2. w \notin ActiveWindows
    BY <1>10 DEF OutcomeForgotten, PairingIInv, Consistent, FreshWhileActive, ActiveWindows
  <2>3. ActiveWindows' = ActiveWindows
    BY <2>1 DEF ActiveWindows, IsActive
  <2> QED
    BY <2>1, <2>2, <2>3, GivenStays
    DEF InvitationStep, Invitation!Next, Invitation!Forget, PastWindows
<1>11. ASSUME NEW r \in 1 .. MaxRequests, RequestDeadline(r) PROVE InvitationStep
  BY <1>2, <1>11 DEF RequestDeadline
<1>12. ASSUME NEW r \in 1 .. MaxRequests, RequestForgotten(r) PROVE InvitationStep
  <2>1. SameWindow(pairing, pairing') /\ UNCHANGED <<opened, grants>>
    BY <1>0, <1>12, RequestsKeepWindow DEF RequestForgotten, PairingOK
  <2> QED
    BY <1>1, <2>1 DEF Passes
<1> QED
  BY <1>3, <1>4, <1>5, <1>6, <1>7, <1>8, <1>9, <1>10, <1>11, <1>12

LEMMA StepGrantsPast ==
  PairingIInv /\ TypesRest /\ GrantsPast /\ [PairingNext]_pairingVars => GrantsPast'
<1> SUFFICES ASSUME PairingIInv, TypesRest, GrantsPast, [PairingNext]_pairingVars PROVE GrantsPast'
  OBVIOUS
<1>1. issued \in Nat /\ issued' \in Nat /\ issued <= issued'
  BY PairingStepStores, IssueAssumption DEF PairingIInv, StoreIInv, StoreTypeOK, Forward
<1>2. grants' = grants \/ \E route, w, r : Granted(route, w, r)
  BY DEF PairingNext, BeginPairing, LookAtPairing, LookAtRequests, WindowDeadline, PairingRestarts, pairingVars,
     RequireInvitation, Publish, CancelPairing, OutcomeForgotten, CompletePairing, CreateInvitationRequest,
     CreateRequest, ResolveNothing, Reject, Accept, RequestDeadline, RequestForgotten
<1>3. \A g \in grants' : g \in grants \/ g.id = issued'
  BY <1>2 DEF Granted
<1>4. \A g \in grants : g.id \in Nat
  BY DEF TypesRest, Grants, Ids
<1> QED
  BY <1>1, <1>3, <1>4 DEF GrantsPast

\* Every window is opened once and over once, and its secret gives a
\* credential only in the step that ends it: exchanges, requests, answers,
\* deadlines, cancellations and restarts implement InvitationLife
\* (access.rs, RemoteAccessManager).
THEOREM PairingRefinement == PairingSpec => InvitationSpec
<1>1. PairingInit => Invitation!Init /\ TypesRest /\ GrantsPast
  <2> SUFFICES ASSUME PairingInit PROVE Invitation!Init /\ GrantsPast
    BY PairingInitTypes
  <2>1. pairing.active = NoWindow /\ pairing.outcomes = [w \in Windows |-> "none"] /\ opened = 0 /\ grants = {}
    BY DEF PairingInit
  <2>2. ActiveWindows = {} /\ PastWindows = {}
    BY <2>1 DEF ActiveWindows, PastWindows, IsActive
  <2>3. GivenBy = [w \in Windows |-> {}]
    BY <2>1 DEF GivenBy, Used
  <2> QED
    BY <2>1, <2>2, <2>3 DEF Invitation!Init, GrantsPast
<1>2. PairingIInv /\ TypesRest /\ GrantsPast /\ [PairingNext]_pairingVars => [Invitation!Next]_(Invitation!vars)
  BY BeginImplements, CompleteImplements, CreateImplements, AnswerImplements, OtherImplements
  DEF PairingNext, InvitationStep
<1> QED
  BY <1>1, <1>2, StepTypes, StepGrantsPast, PairingInvariance, PTL
  DEF PairingSpec, InvitationSpec, Invitation!Spec
=============================================================================
