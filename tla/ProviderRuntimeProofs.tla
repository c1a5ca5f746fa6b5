----------------------- MODULE ProviderRuntimeProofs -----------------------
(***************************************************************************)
(* The safety properties of ProviderRuntime, proved for any instances,     *)
(* turns and requests, and any number of resets.                           *)
(*                                                                         *)
(* What the activity of an instance says must be read with the generation  *)
(* it was said in.  Sound relates one view to the adapter's turns and to   *)
(* what was said: an end is only recorded of a turn that ended, a turn     *)
(* said to run in this generation is known, one said to have ended is      *)
(* ended and holds nothing, and a lost send is remembered.                 *)
(***************************************************************************)
EXTENDS ProviderRuntime, TLAPS

\* T: the adapter's turns; A, E, L: announced, told and lost.
Sound(v, i, T, A, E, L) ==
  /\ \A t \in Of(i) :
       /\ v.turns[t] = "ended" => T[t] = "ended"
       /\ A[t] # Never => A[t] <= v.generation
       /\ A[t] = v.generation => v.turns[t] # "unknown"
       /\ E[t] # Never => E[t] <= v.generation
       /\ E[t] = v.generation =>
            v.turns[t] = "ended" /\ v.approvals[t] # "pending" /\ v.conversation # t
  /\ L[i] # Never => L[i] <= v.generation
  /\ L[i] = v.generation => v.uncertain

ViewsSound == \A i \in Instances : Sound(view[i], i, turn, announced, told, lost)

\* The gate is held from the first stop to the last start of a release.
GateClosed == monitor.phase # "rest" => Guards = {} /\ monitor.at \in Instances

IInv == TypeOK /\ ViewsSound /\ GateClosed

-----------------------------------------------------------------------------
(* The operators of the activity.                                          *)

\* All but the idle window and the entry's origin.
SameWork(v, w) ==
  /\ w.turns = v.turns /\ w.approvals = v.approvals /\ w.conversation = v.conversation
  /\ w.uncertain = v.uncertain /\ w.generation = v.generation

LEMMA SameWorkSound ==
  ASSUME NEW v, NEW w, SameWork(v, w), NEW i, NEW T, NEW A, NEW E, NEW L,
         Sound(v, i, T, A, E, L)
  PROVE  Sound(w, i, T, A, E, L)
BY DEF SameWork, Sound

LEMMA ReconciledWork ==
  ASSUME NEW v \in View
  PROVE  Reconciled(v) \in View /\ SameWork(v, Reconciled(v))
BY DEF Reconciled, View, SameWork

LEMMA TouchedWork ==
  ASSUME NEW v \in View
  PROVE  Touched(v) \in View /\ SameWork(v, Touched(v))
<1>1. [v EXCEPT !.idle = "none"] \in View /\ SameWork(v, [v EXCEPT !.idle = "none"])
  BY DEF View, SameWork
<1> QED
  BY <1>1, ReconciledWork DEF Touched, SameWork

\* A turn is seen by its instance, as it is or as it was.
LEMMA TurnSeenSound ==
  ASSUME NEW v \in View, NEW i \in Instances, NEW t \in Of(i), NEW active \in BOOLEAN,
         NEW T, NEW A \in [Turns -> 0 .. Never], NEW E \in [Turns -> 0 .. Never],
         NEW L, NEW A2, NEW E2,
         T[t] \in (IF active THEN {"running", "ended"} ELSE {"ended"}),
         Sound(v, i, T, A, E, L),
         A2 = IF active THEN [A EXCEPT ![t] = v.generation] ELSE A,
         E2 = IF active THEN E ELSE [E EXCEPT ![t] = v.generation]
  PROVE  /\ TurnSeen(v, t, active) \in View
         /\ TurnSeen(v, t, active).generation = v.generation
         /\ Sound(TurnSeen(v, t, active), i, T, A2, E2, L)
<1> DEFINE w == [v EXCEPT
                  !.turns[t] = IF active /\ @ # "ended" THEN "active" ELSE "ended",
                  !.approvals[t] = IF ~active /\ @ = "pending" THEN "settled" ELSE @,
                  !.conversation = IF ~active /\ @ \in {"open", t} THEN None ELSE @]
<1>0. t \in Turns /\ Of(i) \subseteq Turns /\ None # t
  BY RuntimeAssumption DEF Of
<1>1. /\ w \in View
      /\ w.generation = v.generation /\ w.uncertain = v.uncertain
      /\ w.turns = [v.turns EXCEPT ![t] = IF active /\ @ # "ended" THEN "active" ELSE "ended"]
      /\ w.approvals = [v.approvals EXCEPT ![t] = IF ~active /\ @ = "pending" THEN "settled" ELSE @]
      /\ w.conversation = IF ~active /\ v.conversation \in {"open", t} THEN None ELSE v.conversation
  BY <1>0 DEF View
<1>2. TurnSeen(v, t, active) = Reconciled(w)
  BY DEF TurnSeen
<1> HIDE DEF w
<1>3. Sound(w, i, T, A2, E2, L)
  <2>1. v.generation \in 0 .. MaxGenerations
    BY DEF View
  <2>2. ASSUME NEW u \in Of(i)
        PROVE  /\ w.turns[u] = "ended" => T[u] = "ended"
               /\ A2[u] # Never => A2[u] <= w.generation
               /\ A2[u] = w.generation => w.turns[u] # "unknown"
               /\ E2[u] # Never => E2[u] <= w.generation
               /\ E2[u] = w.generation =>
                    w.turns[u] = "ended" /\ w.approvals[u] # "pending" /\ w.conversation # u
    <3>1. CASE u = t
      BY <1>0, <1>1, <2>1, <3>1, RuntimeAssumption DEF Sound, View
    <3>2. CASE u # t
      BY <1>0, <1>1, <2>1, <2>2, <3>2, RuntimeAssumption DEF Sound, View
    <3> QED
      BY <3>1, <3>2
  <2> QED
    BY <1>1, <2>2 DEF Sound
<1> QED
  BY <1>1, <1>2, <1>3, ReconciledWork, SameWorkSound DEF SameWork

LEMMA ApprovalSeenSound ==
  ASSUME NEW v \in View, NEW i \in Instances, NEW t \in Of(i), NEW pending \in BOOLEAN,
         NEW T, NEW A, NEW E, NEW L, Sound(v, i, T, A, E, L)
  PROVE  ApprovalSeen(v, t, pending) \in View /\ Sound(ApprovalSeen(v, t, pending), i, T, A, E, L)
<1> DEFINE w == [v EXCEPT
                  !.approvals[t] = IF pending /\ v.turns[t] # "ended" /\ @ # "settled"
                                   THEN "pending" ELSE "settled"]
<1>0. t \in Turns /\ Of(i) \subseteq Turns
  BY DEF Of
<1>1. /\ w \in View
      /\ w.generation = v.generation /\ w.uncertain = v.uncertain
      /\ w.turns = v.turns /\ w.conversation = v.conversation
      /\ w.approvals = [v.approvals EXCEPT
           ![t] = IF pending /\ v.turns[t] # "ended" /\ @ # "settled" THEN "pending" ELSE "settled"]
  BY <1>0 DEF View
<1>2. ApprovalSeen(v, t, pending) = Reconciled(w)
  BY DEF ApprovalSeen
<1> HIDE DEF w
<1>3. Sound(w, i, T, A, E, L)
  BY <1>0, <1>1 DEF Sound, View
<1> QED
  BY <1>1, <1>2, <1>3, ReconciledWork, SameWorkSound

LEMMA ConversationSeenSound ==
  ASSUME NEW v \in View, NEW i \in Instances, NEW t \in Of(i) \cup {"open"}, NEW busy \in BOOLEAN,
         NEW T, NEW A, NEW E, NEW L, Sound(v, i, T, A, E, L)
  PROVE  ConversationSeen(v, t, busy) \in View /\ Sound(ConversationSeen(v, t, busy), i, T, A, E, L)
<1> DEFINE c == IF busy /\ (t = "open" \/ v.turns[t] # "ended") THEN t ELSE None
           w == [v EXCEPT !.conversation = c]
<1>0. Of(i) \subseteq Turns /\ None \notin Turns /\ "open" \notin Turns
  BY RuntimeAssumption DEF Of
<1>1. /\ w \in View
      /\ w.generation = v.generation /\ w.uncertain = v.uncertain
      /\ w.turns = v.turns /\ w.approvals = v.approvals /\ w.conversation = c
  BY <1>0 DEF View
<1>2. ConversationSeen(v, t, busy) = Reconciled(w)
  BY DEF ConversationSeen
<1> HIDE DEF w
<1>3. \A u \in Of(i) : v.turns[u] = "ended" /\ v.conversation # u => c # u
  BY <1>0
<1>4. Sound(w, i, T, A, E, L)
  BY <1>0, <1>1, <1>3 DEF Sound, View
<1> QED
  BY <1>1, <1>2, <1>4, ReconciledWork, SameWorkSound

\* A start, stop or error of the instance; a stop begins a generation in
\* which nothing was said yet.
LEMMA StatusSeenSound ==
  ASSUME NEW v \in View, NEW i \in Instances, NEW status \in Statuses,
         status = "down" => v.generation < MaxGenerations,
         NEW T, NEW A \in [Turns -> 0 .. Never], NEW E \in [Turns -> 0 .. Never],
         NEW L \in [Instances -> 0 .. Never], Sound(v, i, T, A, E, L)
  PROVE  StatusSeen(v, status) \in View /\ Sound(StatusSeen(v, status), i, T, A, E, L)
<1> DEFINE b == IF status = "down" THEN Blank(v.generation + 1) ELSE v
           r == status = "ready"
           w == [b EXCEPT !.ready = r, !.known = "routed", !.idle = IF r THEN @ ELSE "none"]
<1>0. Of(i) \subseteq Turns /\ None \notin Turns
  BY RuntimeAssumption DEF Of
<1>1. b \in View /\ Sound(b, i, T, A, E, L)
  <2>1. CASE status = "down"
    <3>1. v.generation \in Nat /\ v.generation + 1 \in 0 .. MaxGenerations
      BY <2>1, RuntimeAssumption DEF View
    <3>2. /\ Blank(v.generation + 1) \in View
          /\ Blank(v.generation + 1).generation = v.generation + 1
          /\ \A t \in Turns : Blank(v.generation + 1).turns[t] = "unknown"
      BY <3>1 DEF Blank, View
    <3>3. \A n \in 0 .. Never : n # Never => n \in Nat
      BY RuntimeAssumption DEF Never
    <3>4. v.generation + 1 # Never
      BY <3>1, RuntimeAssumption DEF Never
    <3>5. \A n \in 0 .. Never : (n # Never => n <= v.generation) =>
             n # v.generation + 1 /\ (n # Never => n <= v.generation + 1)
      BY <3>1, <3>3, <3>4
    <3>6. \A t \in Of(i) : A[t] \in 0 .. Never /\ E[t] \in 0 .. Never
      BY <1>0
    <3> QED
      BY <1>0, <2>1, <3>2, <3>5, <3>6 DEF Sound
  <2>2. CASE status # "down"
    BY <2>2
  <2> QED
    BY <2>1, <2>2
<1> HIDE DEF b
<1>2. w \in View /\ SameWork(b, w)
  BY <1>1 DEF View, SameWork
<1>3. StatusSeen(v, status) = Reconciled(w)
  BY DEF StatusSeen, b
<1> HIDE DEF w
<1> QED
  BY <1>1, <1>2, <1>3, ReconciledWork, SameWorkSound

\* A send whose outcome is unknown.
LEMMA LostSound ==
  ASSUME NEW v \in View, NEW i \in Instances,
         NEW T, NEW A, NEW E, NEW L \in [Instances -> 0 .. Never], Sound(v, i, T, A, E, L)
  PROVE  LET w == Reconciled([v EXCEPT !.uncertain = TRUE])
         IN  w \in View /\ Sound(w, i, T, A, E, [L EXCEPT ![i] = v.generation])
<1> DEFINE w == [v EXCEPT !.uncertain = TRUE]
<1>0. v.generation \in Nat
  BY RuntimeAssumption DEF View
<1>1. /\ w \in View /\ w.generation = v.generation /\ w.uncertain = TRUE
      /\ w.turns = v.turns /\ w.approvals = v.approvals /\ w.conversation = v.conversation
  BY DEF View
<1> HIDE DEF w
<1>2. Sound(w, i, T, A, E, [L EXCEPT ![i] = v.generation])
  BY <1>0, <1>1 DEF Sound
<1> QED
  BY <1>1, <1>2, ReconciledWork, SameWorkSound DEF w

\* One instance's view and what was said of it change, the others' do not.
LEMMA OthersSound ==
  ASSUME NEW i \in Instances,
         view \in [Instances -> View], ViewsSound,
         turn' = turn, NEW w, view' = [view EXCEPT ![i] = w],
         Sound(w, i, turn, announced', told', lost'),
         \A t \in Turns : Owner[t] # i => announced'[t] = announced[t] /\ told'[t] = told[t],
         \A j \in Instances : j # i => lost'[j] = lost[j]
  PROVE  ViewsSound'
<1>1. ASSUME NEW j \in Instances PROVE Sound(view'[j], j, turn', announced', told', lost')
  <2>1. CASE j = i
    BY <2>1
  <2>2. CASE j # i
    <3>1. view'[j] = view[j] /\ lost'[j] = lost[j]
      BY <2>2
    <3>2. \A t \in Of(j) : announced'[t] = announced[t] /\ told'[t] = told[t]
      BY <2>2 DEF Of
    <3> QED
      BY <3>1, <3>2 DEF ViewsSound, Sound
  <2> QED
    BY <2>1, <2>2
<1> QED
  BY <1>1 DEF ViewsSound

-----------------------------------------------------------------------------
(* The steps that change a view.                                           *)

ViewsOK ==
  /\ view \in [Instances -> View]
  /\ announced \in [Turns -> 0 .. Never] /\ told \in [Turns -> 0 .. Never]
  /\ lost \in [Instances -> 0 .. Never]
  /\ ViewsSound

\* What is seen with nothing said.
LEMMA SeesQuietly ==
  ASSUME ViewsOK, turn' = turn, UNCHANGED history, NEW i \in Instances, NEW w \in View, Sees(i, w),
         Sound(w, i, turn, announced, told, lost)
  PROVE  ViewsOK'
<1>1. ViewsSound'
  BY OthersSound DEF ViewsOK, Sees, history
<1> QED
  BY <1>1 DEF ViewsOK, Sees, history

\* What is said of a turn is as its instance sees it.
LEMMA SaysSound ==
  ASSUME ViewsOK, NEW t \in Turns, NEW active \in BOOLEAN, Says(t, active),
         turn[t] \in (IF active THEN {"running", "ended"} ELSE {"ended"})
  PROVE  LET i == Owner[t]
             w == TurnSeen(view[i], t, active)
         IN  /\ i \in Instances /\ w \in View
             /\ Sound(w, i, turn, announced', told', lost)
             /\ \A u \in Turns : Owner[u] # i => announced'[u] = announced[u] /\ told'[u] = told[u]
             /\ announced' \in [Turns -> 0 .. Never] /\ told' \in [Turns -> 0 .. Never]
<1> DEFINE i == Owner[t]
<1>1. i \in Instances /\ t \in Of(i) /\ view[i] \in View
  BY RuntimeAssumption DEF Of, ViewsOK
<1>2. view[i].generation \in 0 .. Never
  BY <1>1, RuntimeAssumption DEF View, Never
<1>3. /\ announced' = IF active THEN [announced EXCEPT ![t] = view[i].generation] ELSE announced
      /\ told' = IF active THEN told ELSE [told EXCEPT ![t] = view[i].generation]
  BY DEF Says
<1>4. announced' \in [Turns -> 0 .. Never] /\ told' \in [Turns -> 0 .. Never]
  BY <1>2, <1>3 DEF ViewsOK
<1>5. /\ TurnSeen(view[i], t, active) \in View
      /\ Sound(TurnSeen(view[i], t, active), i, turn, announced', told', lost)
  BY <1>1, <1>3, TurnSeenSound DEF ViewsOK, ViewsSound
<1>6. \A u \in Turns : Owner[u] # i => announced'[u] = announced[u] /\ told'[u] = told[u]
  BY <1>3 DEF ViewsOK
<1> HIDE DEF i
<1> QED
  BY <1>1, <1>4, <1>5, <1>6 DEF i

\* What is seen of a turn whose state is said, with more seen of it at once.
LEMMA SeesSaid ==
  ASSUME ViewsOK, turn' = turn, lost' = lost, NEW t \in Turns, NEW active \in BOOLEAN,
         Says(t, active), turn[t] \in (IF active THEN {"running", "ended"} ELSE {"ended"}),
         NEW w \in View, Sees(Owner[t], w), Sound(w, Owner[t], turn, announced', told', lost)
  PROVE  ViewsOK'
<1>1. /\ Owner[t] \in Instances
      /\ \A u \in Turns : Owner[u] # Owner[t] => announced'[u] = announced[u] /\ told'[u] = told[u]
      /\ announced' \in [Turns -> 0 .. Never] /\ told' \in [Turns -> 0 .. Never]
  BY SaysSound
<1>2. ViewsSound'
  BY <1>1, OthersSound DEF ViewsOK, Sees
<1> QED
  BY <1>1, <1>2 DEF ViewsOK, Sees

\* An answer also restarts the idle window of the business requests.
LEMMA RecordsSound ==
  ASSUME NEW w \in View, NEW i, NEW A, NEW E, NEW L, Sound(w, i, turn, A, E, L), NEW kind
  PROVE  LET u == IF kind \in {"turn", "business"} THEN Touched(w) ELSE w
         IN  u \in View /\ Sound(u, i, turn, A, E, L)
BY TouchedWork, SameWorkSound

LEMMA AnswerSound ==
  ASSUME TypeOK, ViewsOK, NEW c \in Calls, Answer(c) PROVE ViewsOK'
<1> DEFINE i == call[c].on
           v == view[i]
           k == call[c].kind
           Records(w) == Sees(i, IF k \in {"turn", "business"} THEN Touched(w) ELSE w)
<1>0. /\ i \in Instances /\ v \in View /\ Sound(v, i, turn, announced, told, lost)
      /\ turn' = turn
  BY DEF TypeOK, Call, ViewsOK, ViewsSound, Answer
<1>1. CASE Records(v) /\ UNCHANGED history
  BY <1>0, <1>1, RecordsSound, SeesQuietly, Zenon
<1>2. ASSUME NEW t \in Of(i), NEW active \in BOOLEAN,
             turn[t] \in (IF active THEN {"running", "ended"} ELSE {"ended"}),
             Records(TurnSeen(v, t, active)), Says(t, active), UNCHANGED lost
      PROVE  ViewsOK'
  <2> DEFINE w == TurnSeen(v, t, active)
             u == IF k \in {"turn", "business"} THEN Touched(w) ELSE w
  <2>1. t \in Turns /\ Owner[t] = i
    BY <1>2 DEF Of
  <2>2. w \in View /\ Sound(w, i, turn, announced', told', lost)
    BY <1>2, <2>1, SaysSound, Zenon
  <2>3. Sees(i, u)
    BY <1>2
  <2> HIDE DEF w, i, v, k
  <2>4. u \in View /\ Sound(u, i, turn, announced', told', lost)
    BY <2>2, RecordsSound, Zenon
  <2> HIDE DEF u
  <2> QED
    BY <1>0, <1>2, <2>1, <2>3, <2>4, SeesSaid
<1>3. CASE /\ Records(MutationSeen(v, c))
           /\ lost' = IF v.ready /\ v.generation = call[c].mark
                      THEN [lost EXCEPT ![i] = v.generation] ELSE lost
           /\ UNCHANGED <<announced, told>>
  <2>1. CASE v.ready /\ v.generation = call[c].mark
    <3> DEFINE w == Reconciled([v EXCEPT !.uncertain = TRUE])
               u == IF k \in {"turn", "business"} THEN Touched(w) ELSE w
    <3>1. lost' = [lost EXCEPT ![i] = v.generation] /\ Sees(i, u)
      BY <1>3, <2>1 DEF MutationSeen
    <3>2. w \in View /\ Sound(w, i, turn, announced, told, lost')
      BY <1>0, <3>1, LostSound DEF ViewsOK
    <3>3. lost' \in [Instances -> 0 .. Never]
      BY <1>0, <3>1, RuntimeAssumption DEF ViewsOK, View, Never
    <3>4. \A j \in Instances : j # i => lost'[j] = lost[j]
      BY <3>1 DEF ViewsOK
    <3> HIDE DEF w, i, v, k
    <3>5. u \in View /\ Sound(u, i, turn, announced, told, lost')
      BY <3>2, RecordsSound, Zenon
    <3> HIDE DEF u
    <3>6. ViewsSound'
      BY <1>0, <1>3, <3>1, <3>4, <3>5, OthersSound DEF ViewsOK, Sees
    <3> QED
      BY <1>3, <3>1, <3>3, <3>5, <3>6 DEF ViewsOK, Sees
  <2>2. CASE ~(v.ready /\ v.generation = call[c].mark)
    <3>1. Records(v) /\ UNCHANGED history
      BY <1>3, <2>2 DEF MutationSeen, history
    <3> QED
      BY <1>1, <3>1
  <2> QED
    BY <2>1, <2>2
<1>4. ASSUME NEW st \in Statuses, MayChange(i, st), Records(StatusSeen(v, st)), UNCHANGED history
      PROVE  ViewsOK'
  <2> DEFINE w == StatusSeen(v, st)
             u == IF k \in {"turn", "business"} THEN Touched(w) ELSE w
  <2>1. w \in View /\ Sound(w, i, turn, announced, told, lost)
    BY <1>0, <1>4, StatusSeenSound DEF ViewsOK, MayChange
  <2>2. Sees(i, u)
    BY <1>4
  <2> HIDE DEF w, i, v, k
  <2>3. u \in View /\ Sound(u, i, turn, announced, told, lost)
    BY <2>1, RecordsSound, Zenon
  <2> HIDE DEF u
  <2> QED
    BY <1>0, <1>4, <2>2, <2>3, SeesQuietly
<1> QED
  BY <1>1, <1>2, <1>3, <1>4 DEF Answer

LEMMA PublishSound ==
  ASSUME TypeOK, ViewsOK,
         \/ \E t \in Turns : PublishTurn(t) \/ PublishApproval(t)
         \/ \E i \in Instances : PublishConversation(i) \/ PublishStatus(i)
  PROVE  ViewsOK'
<1>0. \A i \in Instances : view[i] \in View /\ Sound(view[i], i, turn, announced, told, lost)
  BY DEF ViewsOK, ViewsSound
<1>1. ASSUME NEW t \in Turns, PublishTurn(t) PROVE ViewsOK'
  <2>1. PICK active \in BOOLEAN :
          /\ turn[t] \in (IF active THEN {"running", "ended"} ELSE {"ended"})
          /\ Sees(Owner[t], TurnSeen(view[Owner[t]], t, active)) /\ Says(t, active)
    BY <1>1 DEF PublishTurn
  <2> DEFINE w == TurnSeen(view[Owner[t]], t, active)
  <2>2. w \in View /\ Sound(w, Owner[t], turn, announced', told', lost)
    BY <2>1, SaysSound, Zenon
  <2>3. turn' = turn /\ lost' = lost /\ Sees(Owner[t], w)
    BY <1>1, <2>1 DEF PublishTurn
  <2> HIDE DEF w
  <2> QED
    BY <2>1, <2>2, <2>3, SeesSaid
<1>2. ASSUME NEW t \in Turns, PublishApproval(t) PROVE ViewsOK'
  <2>1. PICK pending \in BOOLEAN : Sees(Owner[t], ApprovalSeen(view[Owner[t]], t, pending))
    BY <1>2 DEF PublishApproval
  <2>2. Owner[t] \in Instances /\ t \in Of(Owner[t])
    BY RuntimeAssumption DEF Of
  <2> DEFINE w == ApprovalSeen(view[Owner[t]], t, pending)
  <2>3. w \in View /\ Sound(w, Owner[t], turn, announced, told, lost)
    BY <1>0, <2>2, ApprovalSeenSound
  <2>4. turn' = turn /\ UNCHANGED history /\ Sees(Owner[t], w)
    BY <1>2, <2>1 DEF PublishApproval
  <2> HIDE DEF w
  <2> QED
    BY <2>2, <2>3, <2>4, SeesQuietly
<1>3. ASSUME NEW i \in Instances, PublishConversation(i) PROVE ViewsOK'
  <2>1. ASSUME NEW busy \in BOOLEAN, Sees(i, ConversationSeen(view[i], "open", busy)),
               UNCHANGED <<announced, told>>
        PROVE  ViewsOK'
    <3> DEFINE w == ConversationSeen(view[i], "open", busy)
    <3>1. w \in View /\ Sound(w, i, turn, announced, told, lost)
      BY <1>0, ConversationSeenSound
    <3>2. turn' = turn /\ UNCHANGED history /\ Sees(i, w)
      BY <1>3, <2>1 DEF PublishConversation, history
    <3> HIDE DEF w
    <3> QED
      BY <3>1, <3>2, SeesQuietly
  <2>2. ASSUME NEW t \in Of(i), NEW active \in BOOLEAN, NEW busy \in BOOLEAN,
               turn[t] \in (IF active THEN {"running", "ended"} ELSE {"ended"}),
               Sees(i, ConversationSeen(TurnSeen(view[i], t, active), t, busy)), Says(t, active)
        PROVE  ViewsOK'
    <3> DEFINE x == TurnSeen(view[i], t, active)
               w == ConversationSeen(x, t, busy)
    <3>1. t \in Turns /\ Owner[t] = i
      BY <2>2 DEF Of
    <3>2. x \in View /\ Sound(x, i, turn, announced', told', lost)
      BY <2>2, <3>1, SaysSound, Zenon
    <3>3. turn' = turn /\ lost' = lost /\ Sees(i, w)
      BY <1>3, <2>2 DEF PublishConversation
    <3> HIDE DEF x
    <3>4. w \in View /\ Sound(w, i, turn, announced', told', lost)
      BY <3>2, ConversationSeenSound
    <3> HIDE DEF w
    <3> QED
      BY <2>2, <3>1, <3>3, <3>4, SeesSaid
  <2> QED
    BY <1>3, <2>1, <2>2 DEF PublishConversation
<1>4. ASSUME NEW i \in Instances, PublishStatus(i) PROVE ViewsOK'
  <2>1. PICK st \in Statuses : MayChange(i, st) /\ Sees(i, StatusSeen(view[i], st))
    BY <1>4 DEF PublishStatus
  <2> DEFINE w == StatusSeen(view[i], st)
  <2>2. w \in View /\ Sound(w, i, turn, announced, told, lost)
    BY <1>0, <2>1, StatusSeenSound DEF ViewsOK, MayChange
  <2>3. turn' = turn /\ UNCHANGED history /\ Sees(i, w)
    BY <1>4, <2>1 DEF PublishStatus
  <2> HIDE DEF w
  <2> QED
    BY <2>2, <2>3, SeesQuietly
<1> QED
  BY <1>1, <1>2, <1>3, <1>4

LEMMA MonitorSound ==
  ASSUME TypeOK, ViewsOK, GateClosed,
         (\E i \in Instances : Elapse(i)) \/ StopReplies \/ StartReplies
  PROVE  ViewsOK'
<1>0. \A i \in Instances : view[i] \in View /\ Sound(view[i], i, turn, announced, told, lost)
  BY DEF ViewsOK, ViewsSound
<1>1. ASSUME NEW i \in Instances, Elapse(i) PROVE ViewsOK'
  <2> DEFINE w == [view[i] EXCEPT !.idle = "elapsed"]
  <2>1. w \in View /\ SameWork(view[i], w)
    BY <1>0 DEF View, SameWork
  <2>2. turn' = turn /\ UNCHANGED history /\ Sees(i, w)
    BY <1>1 DEF Elapse
  <2> HIDE DEF w
  <2> QED
    BY <1>0, <2>1, <2>2, SameWorkSound, SeesQuietly
<1>2. ASSUME NEW i \in Instances, NEW st \in Statuses, MayChange(i, st), turn' = turn,
             UNCHANGED history,
             Sees(i, StatusSeen(view[i], st)) \/ Sees(i, Touched(StatusSeen(view[i], st)))
      PROVE  ViewsOK'
  <2> DEFINE w == StatusSeen(view[i], st)
  <2>1. w \in View /\ Sound(w, i, turn, announced, told, lost)
    BY <1>0, <1>2, StatusSeenSound DEF ViewsOK, MayChange
  <2>2. Touched(w) \in View /\ Sound(Touched(w), i, turn, announced, told, lost)
    BY <2>1, TouchedWork, SameWorkSound, Zenon
  <2>3. CASE Sees(i, w)
    <3> HIDE DEF w
    <3> QED
      BY <1>2, <2>1, <2>3, SeesQuietly
  <2>4. CASE Sees(i, Touched(w))
    <3> DEFINE u == Touched(w)
    <3>1. u \in View /\ Sound(u, i, turn, announced, told, lost) /\ Sees(i, u)
      BY <2>2, <2>4
    <3> HIDE DEF u
    <3> QED
      BY <1>2, <3>1, SeesQuietly
  <2> QED
    BY <1>2, <2>3, <2>4
<1>3. ASSUME UNCHANGED <<view, turn, history>> PROVE ViewsOK'
  BY <1>3 DEF ViewsOK, ViewsSound, history
<1>4. ASSUME StopReplies \/ StartReplies PROVE monitor.at \in Instances /\ turn' = turn /\ UNCHANGED history
  BY <1>4 DEF StopReplies, StartReplies, GateClosed
<1>5. CASE StopReplies
  <2>1. CASE Sees(monitor.at, Touched(view[monitor.at]))
    <3> DEFINE u == Touched(view[monitor.at])
    <3>1. u \in View /\ Sound(u, monitor.at, turn, announced, told, lost)
      BY <1>0, <1>4, <1>5, TouchedWork, SameWorkSound
    <3>2. Sees(monitor.at, u)
      BY <2>1
    <3> HIDE DEF u
    <3> QED
      BY <1>4, <1>5, <3>1, <3>2, SeesQuietly
  <2>2. ASSUME NEW st \in Statuses, MayChange(monitor.at, st),
               Sees(monitor.at, Touched(StatusSeen(view[monitor.at], st)))
        PROVE  ViewsOK'
    BY <1>2, <1>4, <1>5, <2>2
  <2> QED
    BY <1>5, <2>1, <2>2 DEF StopReplies
<1>6. CASE StartReplies
  <2>1. ASSUME NEW st \in Statuses, MayChange(monitor.at, st),
               Sees(monitor.at, StatusSeen(view[monitor.at], st))
        PROVE  ViewsOK'
    BY <1>2, <1>4, <1>6, <2>1
  <2> QED
    BY <1>3, <1>4, <1>6, <2>1 DEF StartReplies
<1> QED
  BY <1>1, <1>5, <1>6

\* The adapter's turns only go on.
LEMMA TurnMovesSound ==
  ASSUME ViewsOK, turn \in [Turns -> {"none", "running", "ended"}], NEW t \in Turns, TurnMoves(t)
  PROVE  ViewsOK'
<1>1. UNCHANGED <<view, history>>
  BY DEF TurnMoves
<1>2. \A u \in Turns : turn[u] = "ended" => turn'[u] = "ended"
  BY DEF TurnMoves
<1>3. \A i \in Instances : Of(i) \subseteq Turns
  BY DEF Of
<1> QED
  BY <1>1, <1>2, <1>3 DEF ViewsOK, ViewsSound, Sound, history

LEMMA StepViews == IInv /\ [Next]_vars => ViewsOK'
<1> SUFFICES ASSUME IInv, [Next]_vars PROVE ViewsOK'
  OBVIOUS
<1>1. TypeOK /\ ViewsOK /\ GateClosed
  BY DEF IInv, TypeOK, ViewsOK
<1>2. ASSUME UNCHANGED <<view, turn, history>> PROVE ViewsOK'
  BY <1>1, <1>2 DEF ViewsOK, ViewsSound, history
<1>3. ASSUME NEW c \in Calls,
             Arrive(c) \/ Register(c) \/ Admit(c) \/ Dispatch(c) \/ Cancel(c)
      PROVE  UNCHANGED <<view, turn, history>>
  BY <1>3 DEF Arrive, Register, Admit, Dispatch, Cancel
<1>4. End \/ Release \/ UNCHANGED vars => UNCHANGED <<view, turn, history>>
  BY DEF End, Release, vars
<1>5. turn \in [Turns -> {"none", "running", "ended"}]
  BY <1>1 DEF TypeOK
<1> QED
  BY <1>1, <1>2, <1>3, <1>4, <1>5, AnswerSound, PublishSound, MonitorSound, TurnMovesSound DEF Next

-----------------------------------------------------------------------------
(* The requests and the release.                                           *)

ServedOK ==
  /\ turn \in [Turns -> {"none", "running", "ended"}]
  /\ call \in [Calls -> Call]
  /\ handles \subseteq Calls
  /\ closed \in BOOLEAN /\ serving \in BOOLEAN

MonitorOK ==
  monitor \in [phase : {"rest", "stopping", "starting"}, at : Instances \cup {None},
               todo : SUBSET Instances, fresh : BOOLEAN]

LEMMA NeverIsNat == MaxGenerations \in Nat /\ Never \in Nat /\ 0 \in 0 .. Never
BY RuntimeAssumption DEF Never

LEMMA StepServed == IInv /\ [Next]_vars => ServedOK'
<1> SUFFICES ASSUME IInv, [Next]_vars PROVE ServedOK'
  OBVIOUS
<1> USE DEF ServedOK, Call, Kinds, Stages, At, Finished, served
<1>0. ServedOK /\ view \in [Instances -> View]
  BY DEF IInv, TypeOK
<1>1. ASSUME NEW c \in Calls PROVE Finished(c) \in Call
  BY <1>0, <1>1, NeverIsNat
<1>2. ASSUME NEW c \in Calls, Arrive(c) \/ Register(c) \/ Admit(c) \/ Cancel(c) PROVE ServedOK'
  <2>1. CASE Arrive(c)
    BY <1>0, <2>1, NeverIsNat DEF Arrive
  <2>2. CASE Register(c)
    BY <1>0, <2>2 DEF Register
  <2>3. CASE Admit(c)
    <3>1. call' = [call EXCEPT ![c].stage = "admitted"]
      BY <2>3 DEF Admit
    <3> QED
      BY <1>0, <2>3, <3>1 DEF Admit
  <2>4. CASE Cancel(c)
    <3>1. call' = [call EXCEPT ![c] = Finished(c)]
      BY <2>4 DEF Cancel
    <3> HIDE DEF Finished
    <3> QED
      BY <1>0, <1>1, <2>4, <3>1 DEF Cancel
  <2> QED
    BY <1>2, <2>1, <2>2, <2>3, <2>4
<1>3. ASSUME NEW c \in Calls, Dispatch(c) PROVE ServedOK'
  <2>1. \A i \in Instances : Mark(view[i]) \in 0 .. Never
    BY <1>0, NeverIsNat DEF Mark, View, Never
  <2>2. CASE closed
    <3>1. call' = [call EXCEPT ![c] = Finished(c)] /\ UNCHANGED <<handles, closed>>
      BY <1>3, <2>2 DEF Dispatch
    <3> HIDE DEF Finished
    <3> QED
      BY <1>0, <1>1, <1>3, <3>1 DEF Dispatch
  <2>3. CASE ~closed /\ call[c].kind = "shutdown"
    <3>1. /\ closed' = TRUE /\ handles' = {}
          /\ call' = [d \in Calls |-> IF d = c THEN [call[d] EXCEPT !.stage = "running"]
                                     ELSE IF d \in handles THEN Finished(d)
                                     ELSE call[d]]
      BY <1>3, <2>3 DEF Dispatch
    <3>2. [call[c] EXCEPT !.stage = "running"] \in Call
      BY <1>0
    <3> HIDE DEF Finished, Call
    <3> QED
      BY <1>0, <1>1, <1>3, <3>1, <3>2 DEF Dispatch
  <2>4. CASE ~closed /\ call[c].kind # "shutdown"
    <3> DEFINE m == Mark(view[call[c].on])
    <3>1. /\ call' = [call EXCEPT ![c].stage = "running", ![c].mark = m]
          /\ UNCHANGED <<handles, closed>>
      BY <1>3, <2>4 DEF Dispatch
    <3>2. m \in 0 .. Never
      BY <1>0, <2>1
    <3> HIDE DEF m
    <3>3. [call[c] EXCEPT !.stage = "running", !.mark = m] \in Call
      BY <1>0, <3>2
    <3>4. call' = [call EXCEPT ![c] = [call[c] EXCEPT !.stage = "running", !.mark = m]]
      BY <1>0, <3>1
    <3> HIDE DEF Call
    <3>5. call' \in [Calls -> Call]
      BY <1>0, <3>3, <3>4
    <3> QED
      BY <1>0, <1>3, <3>1, <3>5 DEF Dispatch
  <2> QED
    BY <2>2, <2>3, <2>4
<1>4. ASSUME NEW c \in Calls, Answer(c) PROVE ServedOK'
  <2>1. UNCHANGED <<turn, handles, closed, serving>> /\ At(c, "over")
    BY <1>4 DEF Answer
  <2> QED
    BY <1>0, <1>1, <2>1
<1>5. CASE End
  BY <1>0, <1>1, <1>5 DEF End
<1>6. ASSUME NEW t \in Turns, TurnMoves(t) PROVE ServedOK'
  BY <1>0, <1>6 DEF TurnMoves
<1>7. ASSUME NEW t \in Turns, PublishTurn(t) \/ PublishApproval(t) PROVE ServedOK'
  BY <1>0, <1>7 DEF PublishTurn, PublishApproval
<1>8. ASSUME NEW i \in Instances, PublishConversation(i) \/ PublishStatus(i) \/ Elapse(i)
      PROVE  ServedOK'
  BY <1>0, <1>8 DEF PublishConversation, PublishStatus, Elapse
<1>9. CASE Release \/ StopReplies \/ StartReplies \/ UNCHANGED vars
  BY <1>0, <1>9 DEF Release, StopReplies, StartReplies, vars
<1> QED
  BY <1>2, <1>3, <1>4, <1>5, <1>6, <1>7, <1>8, <1>9 DEF Next

LEMMA StopsOK ==
  ASSUME MonitorOK, NEW todo \in SUBSET Instances, Stops(todo)
  PROVE  /\ MonitorOK'
         /\ monitor'.phase # "rest" => monitor'.at \in todo /\ monitor'.todo \subseteq todo
<1>1. CASE todo = {}
  BY <1>1 DEF MonitorOK, Stops
<1>2. ASSUME NEW i \in todo,
             monitor' = [monitor EXCEPT !.phase = "stopping", !.at = i, !.todo = todo \ {i}]
      PROVE  /\ MonitorOK'
             /\ monitor'.phase # "rest" => monitor'.at \in todo /\ monitor'.todo \subseteq todo
  BY <1>2 DEF MonitorOK
<1> QED
  BY <1>1, <1>2 DEF Stops

LEMMA StepMonitor == IInv /\ [Next]_vars => MonitorOK' /\ GateClosed'
<1> SUFFICES ASSUME IInv, [Next]_vars PROVE MonitorOK' /\ GateClosed'
  OBVIOUS
<1>0. MonitorOK /\ GateClosed /\ ServedOK
  BY DEF IInv, TypeOK, MonitorOK, ServedOK
<1>1. ASSUME Guards' \subseteq Guards, monitor' = monitor PROVE MonitorOK' /\ GateClosed'
  BY <1>0, <1>1 DEF MonitorOK, GateClosed
<1>2. ASSUME NEW c \in Calls, Admit(c) PROVE MonitorOK' /\ GateClosed'
  BY <1>0, <1>2 DEF Admit, MonitorOK, GateClosed
<1>3. ASSUME NEW c \in Calls, Arrive(c) \/ Register(c) \/ Dispatch(c) \/ Answer(c) \/ Cancel(c)
      PROVE  Guards' \subseteq Guards /\ monitor' = monitor
  <2> USE DEF Guards, At, Finished, ServedOK
  <2>1. CASE Arrive(c) \/ Register(c)
    BY <1>0, <2>1 DEF Arrive, Register
  <2>2. CASE Dispatch(c)
    <3>1. /\ monitor' = monitor /\ c \in Guards
          /\ \A d \in Calls \ {c} : call'[d] = call[d] \/ call'[d].stage = "over"
      <4>0. monitor' = monitor /\ c \in Guards
        BY <2>2 DEF Dispatch
      <4>1. CASE closed
        BY <1>0, <2>2, <4>0, <4>1 DEF Dispatch
      <4>2. CASE ~closed /\ call[c].kind = "shutdown"
        <5>1. \A d \in Calls \ {c} : call'[d] = IF d \in handles THEN Finished(d) ELSE call[d]
          BY <2>2, <4>2 DEF Dispatch
        <5>2. \A d \in Calls : Finished(d).stage = "over"
          BY <1>0 DEF Call
        <5> QED
          BY <4>0, <5>1, <5>2
      <4>3. CASE ~closed /\ call[c].kind # "shutdown"
        <5>1. \A d \in Calls \ {c} : call'[d] = call[d]
          BY <1>0, <2>2, <4>3 DEF Dispatch
        <5> QED
          BY <4>0, <5>1
      <4> QED
        BY <4>1, <4>2, <4>3
    <3> QED
      BY <3>1
  <2>3. CASE Answer(c)
    <3>1. At(c, "over") /\ monitor' = monitor
      BY <2>3 DEF Answer
    <3> QED
      BY <1>0, <3>1
  <2>4. CASE Cancel(c)
    BY <1>0, <2>4 DEF Cancel
  <2> QED
    BY <1>3, <2>1, <2>2, <2>3, <2>4
<1>4. CASE End
  BY <1>0, <1>4 DEF End, MonitorOK, GateClosed
<1>5. ASSUME NEW t \in Turns, TurnMoves(t) \/ PublishTurn(t) \/ PublishApproval(t)
      PROVE  Guards' \subseteq Guards /\ monitor' = monitor
  BY <1>5 DEF TurnMoves, PublishTurn, PublishApproval, served, Guards
<1>6. ASSUME NEW i \in Instances, PublishConversation(i) \/ Elapse(i)
      PROVE  Guards' \subseteq Guards /\ monitor' = monitor
  BY <1>6 DEF PublishConversation, Elapse, served, Guards
<1>7. ASSUME NEW i \in Instances, PublishStatus(i) PROVE MonitorOK' /\ GateClosed'
  <2>1. call' = call /\ monitor' = [monitor EXCEPT !.fresh = @ /\ monitor.at # i]
    BY <1>7 DEF PublishStatus, served
  <2>2. (monitor.fresh /\ monitor.at # i) \in BOOLEAN
    BY <1>0 DEF MonitorOK
  <2>3. MonitorOK' /\ monitor'.phase = monitor.phase /\ monitor'.at = monitor.at
    BY <1>0, <2>1, <2>2 DEF MonitorOK
  <2> QED
    BY <1>0, <2>1, <2>3 DEF GateClosed, Guards
<1>8. CASE Release
  <2>1. IdleRoutes \in SUBSET Instances
    BY DEF IdleRoutes
  <2> QED
    BY <1>0, <1>8, <2>1, StopsOK DEF Release, GateClosed, Guards, served
<1>9. CASE StopReplies \/ StartReplies
  <2>1. /\ call' = call
        /\ \/ Stops(monitor.todo)
           \/ monitor' = [monitor EXCEPT !.phase = "starting", !.fresh = TRUE]
        /\ monitor.phase # "rest"
    BY <1>9 DEF StopReplies, StartReplies, served
  <2>2. CASE Stops(monitor.todo)
    <3>1. monitor.todo \in SUBSET Instances
      BY <1>0 DEF MonitorOK
    <3> QED
      BY <1>0, <2>1, <2>2, <3>1, StopsOK DEF GateClosed, Guards
  <2>3. CASE monitor' = [monitor EXCEPT !.phase = "starting", !.fresh = TRUE]
    BY <1>0, <2>1, <2>3 DEF MonitorOK, GateClosed, Guards
  <2> QED
    BY <2>1, <2>2, <2>3
<1>10. UNCHANGED vars => Guards' \subseteq Guards /\ monitor' = monitor
  BY DEF vars, served, Guards
<1> QED
  BY <1>1, <1>2, <1>3, <1>4, <1>5, <1>6, <1>7, <1>8, <1>9, <1>10 DEF Next

-----------------------------------------------------------------------------
LEMMA InitIInv == Init => IInv
<1> SUFFICES ASSUME Init PROVE IInv
  OBVIOUS
<1>1. Blank(0) \in View
  BY RuntimeAssumption DEF Blank, View
<1>2. 0 # Never /\ Never \in 0 .. Never /\ 0 \in 0 .. Never
  BY RuntimeAssumption DEF Never
<1>3. \A i \in Instances : Of(i) \subseteq Turns
  BY DEF Of
<1>4. ViewsSound
  BY <1>2, <1>3 DEF Init, ViewsSound, Sound, Blank
<1>5. (CHOOSE i \in Instances : TRUE) \in Instances
  BY RuntimeAssumption
<1>6. TypeOK
  BY <1>1, <1>2, <1>5 DEF Init, TypeOK, Call, Kinds, Stages
<1>7. GateClosed
  BY DEF Init, GateClosed
<1> QED
  BY <1>4, <1>6, <1>7 DEF IInv

LEMMA StepIInv == IInv /\ [Next]_vars => IInv'
BY StepViews, StepServed, StepMonitor DEF IInv, TypeOK, ViewsOK, ServedOK, MonitorOK

THEOREM Invariance == Spec => []IInv
BY InitIInv, StepIInv, PTL DEF Spec

\* Views, requests, handles and the monitor are what TypeOK says (activity.rs,
\* mux.rs, idle.rs).
THEOREM TypeCorrect == Spec => []TypeOK
<1>1. IInv => TypeOK
  BY DEF IInv
<1> QED
  BY <1>1, Invariance, PTL

\* A turn that was said to have ended in this generation holds its instance
\* no more, whatever late answers and events come (activity.rs).
THEOREM EndedHoldNothing == Spec => []EndedTurnsHoldNothing
<1>1. IInv => EndedTurnsHoldNothing
  <2> SUFFICES ASSUME IInv, NEW t \in Turns, told[t] = view[Owner[t]].generation
               PROVE  /\ view[Owner[t]].turns[t] = "ended"
                      /\ view[Owner[t]].approvals[t] # "pending"
                      /\ view[Owner[t]].conversation # t
    BY DEF EndedTurnsHoldNothing
  <2>1. Owner[t] \in Instances /\ t \in Of(Owner[t])
    BY RuntimeAssumption DEF Of
  <2> QED
    BY <2>1 DEF IInv, ViewsSound, Sound
<1> QED
  BY <1>1, Invariance, PTL

\* A release meets no admitted request, no running turn that was spoken of
\* and no send of unknown outcome (mux.rs, activity.rs, idle.rs).
THEOREM ReleaseSparesWork == Spec => IdleStopSparesWork
<1> DEFINE Spares ==
      /\ monitor'.phase = "stopping" => Guards = {} /\ Guards' = {}
      /\ monitor.phase = "rest" /\ monitor'.phase = "stopping" =>
           \A i \in {monitor'.at} \cup monitor'.todo :
             /\ \A t \in Of(i) : ~Working(t)
             /\ lost[i] # view[i].generation
<1>1. ASSUME IInv, IInv', Next PROVE Spares
  <2>1. ASSUME NEW i \in IdleRoutes
        PROVE  (\A t \in Of(i) : ~Working(t)) /\ lost[i] # view[i].generation
    <3>1. i \in Instances /\ ~Busy(view[i]) /\ view[i] \in View
      BY <1>1 DEF IdleRoutes, IInv, TypeOK
    <3>2. Sound(view[i], i, turn, announced, told, lost)
      BY <1>1, <3>1 DEF IInv, ViewsSound
    <3>3. lost[i] # view[i].generation
      BY <3>1, <3>2 DEF Sound, Busy
    <3>4. ASSUME NEW t \in Of(i), Working(t) PROVE FALSE
      <4>1. t \in Turns /\ Owner[t] = i
        BY DEF Of
      <4>2. view[i].turns[t] \in {"active", "ended"}
        BY <3>1, <3>2, <3>4, <4>1 DEF Sound, Working, View
      <4> QED
        BY <3>1, <3>2, <3>4, <4>1, <4>2 DEF Sound, Working, Busy
    <3> QED
      BY <3>3, <3>4
  <2>2. ASSUME monitor.phase = "rest", monitor'.phase = "stopping"
        PROVE  Release
    <3>1. ASSUME NEW c \in Calls,
                 Arrive(c) \/ Register(c) \/ Admit(c) \/ Dispatch(c) \/ Answer(c) \/ Cancel(c)
          PROVE  monitor' = monitor
      BY <3>1 DEF Arrive, Register, Admit, Dispatch, Answer, Cancel
    <3>2. ASSUME NEW t \in Turns, TurnMoves(t) \/ PublishTurn(t) \/ PublishApproval(t)
          PROVE  monitor' = monitor
      BY <3>2 DEF TurnMoves, PublishTurn, PublishApproval
    <3>3. ASSUME NEW i \in Instances, PublishConversation(i) \/ PublishStatus(i) \/ Elapse(i)
          PROVE  monitor'.phase = monitor.phase
      BY <1>1, <3>3 DEF PublishConversation, PublishStatus, Elapse, IInv, TypeOK
    <3>4. End => monitor'.phase = "rest"
      BY <1>1 DEF End, IInv, TypeOK
    <3> QED
      BY <1>1, <2>2, <3>1, <3>2, <3>3, <3>4 DEF Next, StopReplies, StartReplies
  <2>3. ASSUME Release
        PROVE  /\ Guards = {}
               /\ monitor'.phase = "stopping" => {monitor'.at} \cup monitor'.todo \subseteq IdleRoutes
    <3>1. MonitorOK /\ IdleRoutes \in SUBSET Instances
      BY <1>1 DEF IInv, TypeOK, MonitorOK, IdleRoutes
    <3> QED
      BY <2>3, <3>1, StopsOK DEF Release
  <2>4. monitor'.phase = "stopping" => Guards = {} /\ Guards' = {}
    BY <1>1, <2>2, <2>3 DEF IInv, GateClosed
  <2> QED
    BY <2>1, <2>2, <2>3, <2>4
<1>2. ASSUME IInv, IInv', [Next]_vars PROVE [Spares]_vars
  BY <1>1, <1>2
<1> QED
  BY <1>2, Invariance, PTL DEF Spec, IdleStopSparesWork
=============================================================================
