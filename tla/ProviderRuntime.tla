--------------------------- MODULE ProviderRuntime --------------------------
(***************************************************************************)
(* The runtime of a Provider process in the Provider SDK                   *)
(* (codepet-provider-sdk/src/runtime): the serving of requests (mux.rs),   *)
(* what it knows of the work under way (activity.rs) and the release of    *)
(* idle instances (idle.rs).                                               *)
(*                                                                         *)
(* A request holds the gate for reading until its answer is recorded; a    *)
(* release tries the gate for writing, and never waits for it.  The start  *)
(* of a turn runs in a task of its own, so it goes on when its stream is   *)
(* cancelled.  The adapter behind the runtime is external: its turns begin *)
(* and end when they like, what it says of them may be late, and it may    *)
(* change the status of an instance at any time.                           *)
(*                                                                         *)
(* A turn belongs to one conversation and has one approval; an instance    *)
(* has one conversation.  The idle window is counting or has elapsed.      *)
(***************************************************************************)
EXTENDS Naturals, FiniteSets

CONSTANTS
  Instances, Turns, Calls,  \* instances, their turns, requests of the Host
  Owner,                    \* the instance of each turn
  None,
  Permits,                  \* max_concurrent_requests
  Restarts,                 \* StdioServerOptions.restart_after_idle
  MaxGenerations            \* Bounds the status changes that reset an instance.

ASSUME RuntimeAssumption ==
  /\ Owner \in [Turns -> Instances] /\ Instances # {}
  /\ None \notin Instances \cup Turns \cup {"open"} /\ "open" \notin Turns
  /\ Permits \in Nat \ {0} /\ MaxGenerations \in Nat \ {0} /\ Restarts \in BOOLEAN

VARIABLES
  view,       \* Activity.instances
  turn,       \* the adapter's turns
  call,       \* each request: what it is and how far it is
  handles,    \* executions: detached starts whose abort handle was pushed
  closed,     \* dispatch_closed
  serving,    \* the loop of serve_mux_with_io runs
  monitor,    \* the release of idle instances
  announced,  \* history: the generation in which a turn was said to run
  told,       \* history: the generation in which its end was said
  lost        \* history: the last generation in which a send's outcome was unknown

history == <<announced, told, lost>>
served  == <<call, handles, closed, serving>>
vars    == <<view, turn, served, monitor, history>>

-----------------------------------------------------------------------------
(* Activity.                                                               *)

Of(i) == {t \in Turns : Owner[t] = i}

Blank(generation) ==
  [ready |-> FALSE, known |-> "never", idle |-> "none",
   turns |-> [t \in Turns |-> "unknown"], approvals |-> [t \in Turns |-> "none"],
   conversation |-> None, uncertain |-> FALSE, generation |-> generation]

Busy(v) ==
  \/ \E t \in Turns : v.turns[t] = "active" \/ v.approvals[t] = "pending"
  \/ v.conversation # None \/ v.uncertain

\* reconcile_idle, which ends all that makes or changes an entry: an idle
\* window begins when the last work is over.
Reconciled(v) ==
  [v EXCEPT !.known = IF @ = "never" THEN "heard" ELSE @,
            !.idle = IF Busy(v) THEN "none"
                     ELSE IF v.ready /\ @ = "none" THEN "counting" ELSE @]

\* Mutant of Touched: the next window does not begin.
TouchedOnly(v) == [v EXCEPT !.idle = "none"]

\* touch: of an instance that has an entry.
Touched(v) == IF v.known = "never" THEN v ELSE Reconciled([v EXCEPT !.idle = "none"])

\* Mutant of TurnSeen: the end of any turn settles an unknown send.
TurnSeenSettles(v, t, active) ==
  Reconciled([v EXCEPT
    !.turns[t] = IF active /\ @ # "ended" THEN "active" ELSE "ended",
    !.approvals[t] = IF ~active /\ @ = "pending" THEN "settled" ELSE @,
    !.conversation = IF ~active /\ @ \in {"open", t} THEN None ELSE @,
    !.uncertain = @ /\ active])

\* turn: an end is final, and takes the turn's approvals and conversation.
TurnSeen(v, t, active) ==
  Reconciled([v EXCEPT
    !.turns[t] = IF active /\ @ # "ended" THEN "active" ELSE "ended",
    !.approvals[t] = IF ~active /\ @ = "pending" THEN "settled" ELSE @,
    !.conversation = IF ~active /\ @ \in {"open", t} THEN None ELSE @])

\* Mutant of ApprovalSeen: whether its turn has ended is not asked.
ApprovalSeenAlways(v, t, pending) ==
  Reconciled([v EXCEPT !.approvals[t] = IF pending /\ @ # "settled" THEN "pending" ELSE "settled"])

\* approval: one of a turn that has ended is not waited for.
ApprovalSeen(v, t, pending) ==
  Reconciled([v EXCEPT
    !.approvals[t] = IF pending /\ v.turns[t] # "ended" /\ @ # "settled"
                     THEN "pending" ELSE "settled"])

\* conversation: busy with a turn, with none, or idle.
ConversationSeen(v, t, busy) ==
  Reconciled([v EXCEPT
    !.conversation = IF busy /\ (t = "open" \/ v.turns[t] # "ended") THEN t ELSE None])

\* apply_instance: a start, stop or error begins a new generation.
StatusSeen(v, status) ==
  LET w == IF status = "down" THEN Blank(v.generation + 1) ELSE v
      r == status = "ready"
  IN  Reconciled([w EXCEPT !.ready = r, !.known = "routed", !.idle = IF r THEN @ ELSE "none"])

Sees(i, v) == view' = [view EXCEPT ![i] = v]
Statuses   == {"ready", "down", "other"}
MayChange(i, status) == status = "down" => view[i].generation < MaxGenerations

\* Announces and ends: what was said of a turn, and in which generation.
Never == MaxGenerations + 1
Says(t, active) ==
  LET g == view[Owner[t]].generation
  IN  /\ announced' = IF active THEN [announced EXCEPT ![t] = g] ELSE announced
      /\ told' = IF active THEN told ELSE [told EXCEPT ![t] = g]

-----------------------------------------------------------------------------
(* Requests.                                                               *)

\* "other" requests read, create an instance or interrupt a turn; those of
\* the control lane but the shutdown are taken to be of the normal lane.
Kinds  == {"turn", "business", "other", "shutdown"}
Stages == {"new", "arrived", "admitted", "running", "over"}
Detached(c) == call[c].kind = "turn"      \* TurnStart, TurnSteer
Guards      == {c \in Calls : call[c].stage \in {"admitted", "running"}}
InLane(c)   == {d \in Calls : call[d].stage = "running"
                              /\ (call[d].kind = "shutdown") = (call[c].kind = "shutdown")}

\* What a finished request was is of no use any more.
Finished(c) == [call[c] EXCEPT !.kind = "other", !.stage = "over", !.mark = 0]

At(c, stage) ==
  call' = [call EXCEPT ![c] = IF stage = "over" THEN Finished(c) ELSE [@ EXCEPT !.stage = stage]]

\* A stream with a request is received; its work is spawned if it starts a
\* turn, and the handle of that is pushed by the stream's task (Register).
Arrive(c) ==
  /\ serving /\ call[c].stage = "new"
  /\ \E k \in Kinds, i \in Instances :
       call' = [call EXCEPT ![c] = [kind |-> k, on |-> i, stage |-> "arrived", mark |-> 0]]
  /\ UNCHANGED <<view, turn, handles, closed, serving, monitor, history>>

Register(c) ==
  /\ Detached(c) /\ c \notin handles
  /\ handles' = {d \in handles : call[d].stage # "over"} \cup {c}
  /\ UNCHANGED <<view, turn, call, closed, serving, monitor, history>>

\* The gate is read; the release of idle instances may hold it.
Admit(c) ==
  /\ call[c].stage = "arrived" /\ monitor.phase = "rest"
  /\ At(c, "admitted")
  /\ UNCHANGED <<view, turn, handles, closed, serving, monitor, history>>

\* mutation: a send to an instance without an entry is not followed.
Mark(v) == IF v.known = "never" THEN Never ELSE v.generation

\* With a permit of its lane the request goes to the adapter; a shutdown
\* closes the dispatch and aborts the detached starts.
Dispatch(c) ==
  /\ call[c].stage = "admitted" /\ Cardinality(InLane(c)) < Permits
  /\ IF closed THEN At(c, "over") /\ UNCHANGED <<handles, closed>>
     ELSE IF call[c].kind = "shutdown"
     THEN /\ closed' = TRUE /\ handles' = {}
          /\ call' = [d \in Calls |-> IF d = c THEN [call[d] EXCEPT !.stage = "running"]
                                     ELSE IF d \in handles THEN Finished(d)
                                     ELSE call[d]]
     ELSE /\ call' = [call EXCEPT ![c].stage = "running", ![c].mark = Mark(view[call[c].on])]
          /\ UNCHANGED <<handles, closed>>
  /\ UNCHANGED <<view, turn, serving, monitor, history>>

\* mutation_response: a send whose outcome is unknown keeps its instance.
MutationSeen(v, c) ==
  IF v.ready /\ v.generation = call[c].mark THEN Reconciled([v EXCEPT !.uncertain = TRUE]) ELSE v

\* The answer is recorded before the guard is given up: a turn, an unknown
\* outcome, an instance that was created; a business request is an activity.
Answer(c) ==
  /\ call[c].stage = "running" /\ call[c].kind # "shutdown"
  /\ LET i == call[c].on
         v == view[i]
         Records(w) == Sees(i, IF call[c].kind \in {"turn", "business"} THEN Touched(w) ELSE w)
     IN  \/ Records(v) /\ UNCHANGED history
         \/ /\ call[c].kind \in {"turn", "other"}
            /\ \E t \in Of(i), active \in BOOLEAN :
                 /\ turn[t] \in (IF active THEN {"running", "ended"} ELSE {"ended"})
                 /\ Records(TurnSeen(v, t, active)) /\ Says(t, active) /\ UNCHANGED lost
         \/ /\ Detached(c) /\ Records(MutationSeen(v, c))
            /\ lost' = IF v.ready /\ v.generation = call[c].mark
                       THEN [lost EXCEPT ![i] = v.generation] ELSE lost
            /\ UNCHANGED <<announced, told>>
         \/ /\ call[c].kind = "other" /\ v.known # "routed"
            /\ \E s \in Statuses : MayChange(i, s) /\ Records(StatusSeen(v, s))
            /\ UNCHANGED history
  /\ At(c, "over")
  /\ UNCHANGED <<turn, handles, closed, serving, monitor>>

\* The Host cancels the stream or its lifetime ends: the work is dropped
\* with it, and its guard, unless it is detached.
Cancel(c) ==
  /\ call[c].stage \in {"arrived", "admitted", "running"} /\ ~Detached(c)
  /\ At(c, "over")
  /\ UNCHANGED <<view, turn, handles, closed, serving, monitor, history>>

\* The loop ends, by an answered shutdown or for good: what it knows of is
\* aborted, and the monitor in whatever it does.
End ==
  /\ serving
  /\ serving' = FALSE /\ closed' = TRUE /\ handles' = {}
  /\ call' = [c \in Calls |-> IF Detached(c) /\ c \notin handles THEN call[c]
                              ELSE Finished(c)]
  /\ monitor' = [monitor EXCEPT !.phase = "rest", !.at = None, !.todo = {}]
  /\ UNCHANGED <<view, turn, history>>

-----------------------------------------------------------------------------
(* The adapter, as long as the loop runs: what comes later changes an      *)
(* activity that nothing reads.                                            *)

TurnMoves(t) ==
  /\ serving
  /\ \/ turn[t] = "none" /\ turn' = [turn EXCEPT ![t] = "running"]
     \/ turn[t] = "running" /\ turn' = [turn EXCEPT ![t] = "ended"]
  /\ UNCHANGED <<view, served, monitor, history>>

\* ObservedEvents::publish, event: of a turn, at once or late.
PublishTurn(t) ==
  /\ serving
  /\ \E active \in BOOLEAN :
       /\ turn[t] \in (IF active THEN {"running", "ended"} ELSE {"ended"})
       /\ Sees(Owner[t], TurnSeen(view[Owner[t]], t, active)) /\ Says(t, active)
  /\ UNCHANGED <<turn, served, monitor, lost>>

PublishApproval(t) ==
  /\ serving
  /\ turn[t] # "none"
  /\ \E pending \in BOOLEAN : Sees(Owner[t], ApprovalSeen(view[Owner[t]], t, pending))
  /\ UNCHANGED <<turn, served, monitor, history>>

PublishConversation(i) ==
  /\ serving
  /\ \/ \E busy \in BOOLEAN :
          Sees(i, ConversationSeen(view[i], "open", busy)) /\ UNCHANGED <<announced, told>>
     \/ \E t \in Of(i), active, busy \in BOOLEAN :
          /\ turn[t] \in (IF active THEN {"running", "ended"} ELSE {"ended"})
          /\ Sees(i, ConversationSeen(TurnSeen(view[i], t, active), t, busy)) /\ Says(t, active)
  /\ UNCHANGED <<turn, served, monitor, lost>>

PublishStatus(i) ==
  /\ serving
  /\ \E s \in Statuses : MayChange(i, s) /\ Sees(i, StatusSeen(view[i], s))
  /\ monitor' = [monitor EXCEPT !.fresh = @ /\ monitor.at # i]
  /\ UNCHANGED <<turn, served, history>>

-----------------------------------------------------------------------------
(* The release of idle instances.                                          *)

Elapse(i) ==
  /\ serving
  /\ view[i].idle = "counting"
  /\ Sees(i, [view[i] EXCEPT !.idle = "elapsed"])
  /\ UNCHANGED <<turn, served, monitor, history>>

IdleRoutes == {i \in Instances : view[i].ready /\ ~Busy(view[i]) /\ view[i].idle = "elapsed"}

\* maintain_idle: the instances are listed once, then stopped in turn.
Stops(todo) ==
  IF todo = {} THEN monitor' = [monitor EXCEPT !.phase = "rest", !.at = None, !.todo = {}]
  ELSE \E i \in todo :
         monitor' = [monitor EXCEPT !.phase = "stopping", !.at = i, !.todo = todo \ {i}]

Release ==
  /\ serving /\ monitor.phase = "rest"
  /\ Guards = {} /\ IdleRoutes # {}
  /\ Stops(IdleRoutes)
  /\ UNCHANGED <<view, turn, served, history>>

\* The answer of a stop is taken as it is; one that failed is tried again
\* after another window.
StopReplies ==
  /\ monitor.phase = "stopping"
  /\ LET i == monitor.at
     IN  \/ /\ \E s \in Statuses : MayChange(i, s) /\ Sees(i, Touched(StatusSeen(view[i], s)))
            /\ IF Restarts THEN monitor' = [monitor EXCEPT !.phase = "starting", !.fresh = TRUE]
               ELSE Stops(monitor.todo)
         \/ Sees(i, Touched(view[i])) /\ Stops(monitor.todo)
  /\ UNCHANGED <<turn, served, history>>

\* A status seen since the start was asked for is newer than its answer.
StartReplies ==
  /\ monitor.phase = "starting"
  /\ LET i == monitor.at
     IN  \/ UNCHANGED view
         \/ \E s \in Statuses :
              monitor.fresh /\ MayChange(i, s) /\ Sees(i, StatusSeen(view[i], s))
  /\ Stops(monitor.todo)
  /\ UNCHANGED <<turn, served, history>>

-----------------------------------------------------------------------------
Init ==
  /\ view = [i \in Instances |-> Blank(0)]
  /\ turn = [t \in Turns |-> "none"]
  /\ call = [c \in Calls |-> [kind |-> "other", on |-> CHOOSE i \in Instances : TRUE,
                             stage |-> "new", mark |-> 0]]
  /\ handles = {} /\ closed = FALSE /\ serving = TRUE
  /\ monitor = [phase |-> "rest", at |-> None, todo |-> {}, fresh |-> FALSE]
  /\ announced = [t \in Turns |-> Never] /\ told = [t \in Turns |-> Never]
  /\ lost = [i \in Instances |-> Never]

Next ==
  \/ \E c \in Calls : \/ Arrive(c) \/ Register(c) \/ Admit(c) \/ Dispatch(c) \/ Answer(c)
                      \/ Cancel(c)
  \/ \E t \in Turns : TurnMoves(t) \/ PublishTurn(t) \/ PublishApproval(t)
  \/ \E i \in Instances : PublishConversation(i) \/ PublishStatus(i) \/ Elapse(i)
  \/ End \/ Release \/ StopReplies \/ StartReplies

\* Time passes, the monitor's clock ticks, and an adapter answers a stop or
\* a start; nothing else has to happen.
Fairness ==
  /\ \A i \in Instances : WF_vars(Elapse(i))
  /\ WF_vars(Release) /\ WF_vars(StopReplies) /\ WF_vars(StartReplies)

Spec == Init /\ [][Next]_vars /\ Fairness

-----------------------------------------------------------------------------
View == [ready : BOOLEAN, known : {"never", "heard", "routed"}, idle : {"none", "counting", "elapsed"},
         turns : [Turns -> {"unknown", "active", "ended"}],
         approvals : [Turns -> {"none", "pending", "settled"}],
         conversation : {None, "open"} \cup Turns, uncertain : BOOLEAN,
         generation : 0 .. MaxGenerations]
Call == [kind : Kinds, on : Instances, stage : Stages, mark : 0 .. Never]

TypeOK ==
  /\ view \in [Instances -> View]
  /\ turn \in [Turns -> {"none", "running", "ended"}]
  /\ call \in [Calls -> Call]
  /\ handles \subseteq Calls
  /\ closed \in BOOLEAN /\ serving \in BOOLEAN
  /\ monitor \in [phase : {"rest", "stopping", "starting"}, at : Instances \cup {None},
                  todo : SUBSET Instances, fresh : BOOLEAN]
  /\ announced \in [Turns -> 0 .. Never] /\ told \in [Turns -> 0 .. Never]
  /\ lost \in [Instances -> 0 .. Never]

Working(t) == turn[t] = "running" /\ announced[t] = view[Owner[t]].generation

\* An instance is released only while no request is between its admission
\* and its recorded answer, and when it is chosen neither a turn runs that
\* the adapter spoke of nor has a send's outcome been left unknown since the
\* instance was last started, stopped or failed (mux.rs work, activity.rs
\* idle_routes and mutation_response, idle.rs maintain_idle).
IdleStopSparesWork ==
  [][/\ monitor'.phase = "stopping" => Guards = {} /\ Guards' = {}
     /\ monitor.phase = "rest" /\ monitor'.phase = "stopping" =>
          \A i \in {monitor'.at} \cup monitor'.todo :
            /\ \A t \in Of(i) : ~Working(t)
            /\ lost[i] # view[i].generation]_vars

\* A turn whose end was said in this generation of its instance holds the
\* instance no more: late answers, approvals and conversations of it do not
\* make it work again (activity.rs turn, approval, conversation, response).
EndedTurnsHoldNothing ==
  \A t \in Turns :
    LET v == view[Owner[t]]
    IN  told[t] = v.generation =>
          v.turns[t] = "ended" /\ v.approvals[t] # "pending" /\ v.conversation # t

\* An instance that stays ready without work, and is not kept by requests,
\* is released again and again until it stops (idle.rs run, activity.rs
\* reconcile_idle and touch).
Quiet(i) == serving /\ view[i].ready /\ ~Busy(view[i]) /\ Guards = {}
QuietInstancesAreReleased ==
  \A i \in Instances :
    <>[]Quiet(i) => []<>(monitor.phase = "stopping" /\ monitor.at = i)
=============================================================================
