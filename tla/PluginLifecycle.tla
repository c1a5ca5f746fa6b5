-------------------------- MODULE PluginLifecycle --------------------------
(***************************************************************************)
(* The life of one Provider plugin inside PluginManager                    *)
(* (codepet-host/src/providers/manager.rs): the PluginEntry guarded by the *)
(* plugin table's lock, the child processes spawned for it, and the tasks  *)
(* that act on it concurrently:                                            *)
(*                                                                         *)
(*   - the operator: whoever holds the plugin's plugin_operations mutex    *)
(*     (start_enabled, restart_plugin, ensure_historical_route_ready);     *)
(*   - the Host's shutdown, which takes no such mutex, with the time limit *)
(*     after which it is dropped and force_kill_all takes over;            *)
(*   - per process, the event loop and the exit watcher.                   *)
(*                                                                         *)
(* One action is what runs between two awaits.  A process is named by the  *)
(* generation it was spawned in; 0 stands for "no process".                *)
(***************************************************************************)
EXTENDS Naturals, Sequences

CONSTANT MaxOperations   \* Bounds the operations begun on the plugin.

ASSUME MaxOperationsAssumption == MaxOperations \in Nat

VARIABLES
  shuttingDown,  \* PluginManagerInner.shutting_down
  state,         \* PluginEntry.state
  process,       \* PluginEntry.process
  diagnostic,    \* PluginEntry.diagnostic: none, or an error and its retryability
  procs,         \* the PluginProcess of each generation so far
  operations,    \* how many operations have begun (the bound)
  opPc,          \* where the operator is
  opKind,        \* which operation it performs
  opGen,         \* the generation its start_plugin works on
  stop,          \* the stop_plugin call of the operator and that of the shutdown
  shutdownPc,    \* where the Host's shutdown is
  forced,        \* the process force_kill_all waits for
  listening,     \* processes whose event loop runs
  rejecting,     \* event loops about to record the event they refused
  condemning,    \* event loops about to kill their process
  watching       \* processes whose exit watcher runs

entryVars == <<state, process, diagnostic>>
opVars    == <<operations, opPc, opKind, opGen>>
sdVars    == <<shuttingDown, shutdownPc, forced>>
taskVars  == <<listening, rejecting, condemning, watching>>
vars      == <<entryVars, procs, opVars, stop, sdVars, taskVars>>

-----------------------------------------------------------------------------
States      == {"Starting", "Ready", "Stopped", "Crashed"}
Errors      == {"retryable", "fatal"}
ProcStates  == {"unborn", "up", "closing", "dying", "gone"}
Stoppers    == {"operator", "shutdown"}
OpPcs       == {"idle", "stopping", "prepare", "initialize", "describe",
                "killing", "tasks"}
OpKinds     == {"start", "restart", "recover"}
StopPcs     == {"none", "mark", "shutdown", "wait", "crash", "ok", "err"}
ShutdownPcs == {"idle", "stopping", "force", "forcing", "done"}

\* PluginEntry.generation counts the starts and stops; procs has one entry for each.
generation  == Len(procs)
Generations == 1 .. Len(procs)

\* The child of generation g has not been reaped.
Alive(g) == procs[g] \in {"up", "closing", "dying"}

\* PluginProcess::is_available
Available(g) == g # 0 /\ procs[g] = "up"

\* A stop_plugin call: how far it is, the process it stops, whether it asked first.
StopCalls == [pc : StopPcs, proc : {0} \cup Generations, first : BOOLEAN]
NoStop    == [pc |-> "none", proc |-> 0, first |-> FALSE]
StopCall  == [pc |-> "mark", proc |-> 0, first |-> FALSE]

TypeOK ==
  /\ shuttingDown \in BOOLEAN
  /\ state \in States
  /\ procs \in Seq(ProcStates)
  /\ process \in {0} \cup Generations
  /\ diagnostic \in {"none"} \cup Errors
  /\ operations \in 0 .. MaxOperations
  /\ opPc \in OpPcs
  /\ opKind \in OpKinds
  /\ opGen \in {0} \cup Generations
  /\ stop \in [Stoppers -> StopCalls]
  /\ shutdownPc \in ShutdownPcs
  /\ forced \in {0} \cup Generations
  /\ listening \subseteq Generations
  /\ rejecting \subseteq Generations
  /\ condemning \subseteq Generations
  /\ watching \subseteq Generations

Init ==
  /\ shuttingDown = FALSE
  /\ state = "Stopped"
  /\ process = 0
  /\ diagnostic = "none"
  /\ procs = <<>>
  /\ operations = 0
  /\ opPc = "idle" /\ opKind = "start" /\ opGen = 0
  /\ stop = [x \in Stoppers |-> NoStop]
  /\ shutdownPc = "idle" /\ forced = 0
  /\ listening = {} /\ rejecting = {} /\ condemning = {} /\ watching = {}

-----------------------------------------------------------------------------
(***************************************************************************)
(* The child process: it may die at any time; its monitor reaps it.        *)
(***************************************************************************)

\* The child exits, or its transport fails and asks the monitor to kill it.
ProcessDies(g) ==
  /\ procs[g] \in {"up", "closing"}
  /\ procs' = [procs EXCEPT ![g] = "dying"]
  /\ UNCHANGED <<entryVars, opVars, stop, sdVars, taskVars>>

\* process_monitor publishes the exit.
ProcessReaped(g) ==
  /\ procs[g] = "dying"
  /\ procs' = [procs EXCEPT ![g] = "gone"]
  /\ UNCHANGED <<entryVars, opVars, stop, sdVars, taskVars>>

\* Mutant of Killed: a child already asked to shut down is not killed.
KilledUnlessClosing(g) ==
  IF procs[g] \in {"closing", "gone"} THEN procs ELSE [procs EXCEPT ![g] = "dying"]

\* PluginProcess::kill_now, by whoever wants the child of generation g gone.
Killed(g) == IF procs[g] = "gone" THEN procs ELSE [procs EXCEPT ![g] = "dying"]

-----------------------------------------------------------------------------
(***************************************************************************)
(* stop_plugin, called by the operator's restart and by the shutdown.      *)
(***************************************************************************)

\* Nothing to stop.
StopAlreadyStopped(x) ==
  /\ stop[x].pc = "mark"
  /\ state = "Stopped" /\ process = 0
  /\ stop' = [stop EXCEPT ![x].pc = "ok"]
  /\ UNCHANGED <<entryVars, procs, opVars, sdVars, taskVars>>

\* Under the table's lock: a new generation, Stopped, and a handle to the process.
StopMark(x) ==
  /\ stop[x].pc = "mark"
  /\ state # "Stopped" \/ process # 0
  /\ state' = "Stopped"
  /\ procs' = Append(procs, "unborn")
  /\ stop' = [stop EXCEPT ![x] = [pc    |-> IF process = 0 THEN "ok" ELSE "shutdown",
                                  proc  |-> process,
                                  first |-> FALSE]]
  /\ UNCHANGED <<process, diagnostic, opVars, sdVars, taskVars>>

\* PluginProcess::shutdown: only the first caller sends provider.shutdown.
StopRequest(x) ==
  /\ stop[x].pc = "shutdown"
  /\ LET p == stop[x].proc IN
       /\ procs' = IF procs[p] = "up" THEN [procs EXCEPT ![p] = "closing"] ELSE procs
       /\ stop' = [stop EXCEPT ![x] = [pc |-> "wait", proc |-> p, first |-> procs[p] = "up"]]
  /\ UNCHANGED <<entryVars, opVars, sdVars, taskVars>>

\* The shutdown deadline passes first.
StopDeadline(x) ==
  /\ stop[x].pc = "wait"
  /\ procs[stop[x].proc] = "closing"
  /\ procs' = Killed(stop[x].proc)
  /\ UNCHANGED <<entryVars, opVars, stop, sdVars, taskVars>>

\* The exit is known and the shutdown counts as graceful: the entry's process is
\* cleared, whichever process that is.
StopSucceeds(x) ==
  /\ stop[x].pc = "wait"
  /\ procs[stop[x].proc] = "gone"
  /\ process' = 0
  /\ stop' = [stop EXCEPT ![x].pc = "ok"]
  /\ UNCHANGED <<state, diagnostic, procs, opVars, sdVars, taskVars>>

\* The process is gone but declined or missed the request.
StopFails(x) ==
  /\ stop[x].pc = "wait"
  /\ procs[stop[x].proc] = "gone"
  /\ stop[x].first
  /\ process' = IF process = stop[x].proc THEN 0 ELSE process
  /\ stop' = [stop EXCEPT ![x].pc = "crash"]
  /\ UNCHANGED <<state, diagnostic, procs, opVars, sdVars, taskVars>>

\* ... and the failure is then recorded as a crash.
StopRecordsFailure(x) ==
  /\ stop[x].pc = "crash"
  /\ state' = "Crashed"
  /\ diagnostic' \in Errors
  /\ stop' = [stop EXCEPT ![x].pc = "err"]
  /\ UNCHANGED <<process, procs, opVars, sdVars, taskVars>>

StopStep(x) ==
  \/ StopAlreadyStopped(x) \/ StopMark(x) \/ StopRequest(x) \/ StopDeadline(x)
  \/ StopSucceeds(x) \/ StopFails(x) \/ StopRecordsFailure(x)

-----------------------------------------------------------------------------
(***************************************************************************)
(* The operator: at most one operation at a time holds the mutex.          *)
(***************************************************************************)

\* historical_route_recovery answers Plugin.
NeedsPluginRecovery ==
  /\ ~shuttingDown
  /\ \/ state = "Stopped"
     \/ state = "Crashed" /\ diagnostic # "fatal"
     \/ state = "Ready" /\ ~Available(process)

\* An operation takes the mutex; restarts stop the plugin first.
BeginOperation(kind) ==
  /\ opPc = "idle"
  /\ operations < MaxOperations
  /\ kind = "recover" => NeedsPluginRecovery
  /\ operations' = operations + 1
  /\ opKind' = kind
  /\ IF kind = "start"
     THEN opPc' = "prepare" /\ UNCHANGED stop
     ELSE /\ opPc' = "stopping"
          /\ stop' = [stop EXCEPT !["operator"] = StopCall]
  /\ UNCHANGED <<entryVars, procs, opGen, sdVars, taskVars>>

\* restart_plugin_locked goes on once the old process is out of the entry.
RestartContinues ==
  /\ opPc = "stopping"
  /\ stop["operator"].pc \in {"ok", "err"}
  /\ opPc' = IF stop["operator"].pc = "err" /\ process # 0 THEN "idle" ELSE "prepare"
  /\ stop' = [stop EXCEPT !["operator"] = NoStop]
  /\ UNCHANGED <<entryVars, procs, operations, opKind, opGen, sdVars, taskVars>>

\* start_plugin refuses during shutdown and over a live process, and has nothing
\* to do for a Ready plugin.
StartRefused ==
  /\ opPc = "prepare"
  /\ shuttingDown \/ process # 0
  /\ opPc' = "idle"
  /\ UNCHANGED <<entryVars, procs, operations, opKind, opGen, stop, sdVars, taskVars>>

\* Mutant of Spawn: no check that the entry has no process.
SpawnOverProcess ==
  /\ opPc = "prepare"
  /\ ~shuttingDown
  /\ procs' = Append(procs, "up")
  /\ state' = "Starting" /\ diagnostic' = "none" /\ process' = generation + 1
  /\ opPc' = "initialize" /\ opGen' = generation + 1
  /\ UNCHANGED <<operations, opKind, stop, sdVars, taskVars>>

\* Mutant of Spawn: the generation is not advanced.
SpawnSameGeneration ==
  /\ opPc = "prepare"
  /\ ~shuttingDown /\ process = 0
  /\ state' = "Starting" /\ diagnostic' = "none" /\ process' = generation + 1
  /\ opPc' = "initialize" /\ opGen' = generation + 1
  /\ UNCHANGED <<procs, operations, opKind, stop, sdVars, taskVars>>

\* Under the table's lock: a new generation, its process spawned and recorded.
Spawn ==
  /\ opPc = "prepare"
  /\ ~shuttingDown /\ process = 0
  /\ procs' = Append(procs, "up")
  /\ state' = "Starting" /\ diagnostic' = "none" /\ process' = generation + 1
  /\ opPc' = "initialize" /\ opGen' = generation + 1
  /\ UNCHANGED <<operations, opKind, stop, sdVars, taskVars>>

SpawnFails ==
  /\ opPc = "prepare"
  /\ ~shuttingDown /\ process = 0
  /\ procs' = Append(procs, "unborn")
  /\ state' = "Crashed" /\ diagnostic' \in Errors
  /\ opPc' = "idle"
  /\ UNCHANGED <<process, operations, opKind, opGen, stop, sdVars, taskVars>>

StartupIsCurrent ==
  ~shuttingDown /\ generation = opGen /\ state = "Starting" /\ process = opGen

\* provider.initialize is answered: go on only if nobody took the entry over.
Initialized ==
  /\ opPc = "initialize"
  /\ opPc' = IF StartupIsCurrent THEN "describe" ELSE "idle"
  /\ UNCHANGED <<entryVars, procs, operations, opKind, opGen, stop, sdVars, taskVars>>

\* initialize or describe fails: fail_started_process kills the process it owns.
StartupFails ==
  /\ opPc \in {"initialize", "describe"}
  /\ IF StartupIsCurrent
     THEN opPc' = "killing" /\ procs' = Killed(opGen)
     ELSE opPc' = "idle" /\ UNCHANGED procs
  /\ UNCHANGED <<entryVars, operations, opKind, opGen, stop, sdVars, taskVars>>

\* finish_start_failure, if the entry is still of that generation.
StartupFailureRecorded ==
  /\ opPc = "killing"
  /\ procs[opGen] = "gone"
  /\ opPc' = "idle"
  /\ IF generation = opGen
     THEN state' = "Crashed" /\ diagnostic' \in Errors /\ process' = 0
     ELSE UNCHANGED entryVars
  /\ UNCHANGED <<procs, operations, opKind, opGen, stop, sdVars, taskVars>>

\* Mutant of PublishReady: the shutdown gate is not looked at again.
PublishReadyUngated ==
  /\ opPc = "describe"
  /\ IF generation # opGen \/ process # opGen
     THEN opPc' = "idle" /\ UNCHANGED entryVars
     ELSE /\ opPc' = "tasks"
          /\ state' = "Ready" /\ diagnostic' = "none" /\ UNCHANGED process
  /\ UNCHANGED <<procs, operations, opKind, opGen, stop, sdVars, taskVars>>

\* provider.describe is answered: Ready, under the table's lock and its checks.
PublishReady ==
  /\ opPc = "describe"
  /\ IF shuttingDown \/ generation # opGen \/ process # opGen
     THEN opPc' = "idle" /\ UNCHANGED entryVars
     ELSE /\ opPc' = "tasks"
          /\ state' = "Ready" /\ diagnostic' = "none" /\ UNCHANGED process
  /\ UNCHANGED <<procs, operations, opKind, opGen, stop, sdVars, taskVars>>

\* After the Ready update is queued, spawn_process_tasks.
SpawnTasks ==
  /\ opPc = "tasks"
  /\ listening' = listening \cup {opGen}
  /\ watching' = watching \cup {opGen}
  /\ opPc' = "idle"
  /\ UNCHANGED <<entryVars, procs, operations, opKind, opGen, stop, sdVars,
                 rejecting, condemning>>

OperatorStep ==
  \/ RestartContinues \/ StartRefused \/ Spawn \/ SpawnFails \/ Initialized
  \/ StartupFails \/ StartupFailureRecorded \/ PublishReady \/ SpawnTasks

\* A recovery runs inside a remote client's request: when its session ends the
\* request's future, and the mutex guard in it, are dropped at the current await.
RecoveryDropped ==
  /\ opKind = "recover" /\ opPc # "idle"
  /\ opPc' = "idle"
  /\ stop' = [stop EXCEPT !["operator"] = NoStop]
  /\ UNCHANGED <<entryVars, procs, operations, opKind, opGen, sdVars, taskVars>>

-----------------------------------------------------------------------------
(***************************************************************************)
(* The tasks of a Ready process.                                           *)
(***************************************************************************)

IsCurrentProcess(g) == generation = g /\ state = "Ready" /\ process = g

\* The event loop finds its process current and the event unacceptable.
EventRejected(g) ==
  /\ g \in listening
  /\ IsCurrentProcess(g)
  /\ listening' = listening \ {g} /\ rejecting' = rejecting \cup {g}
  /\ UNCHANGED <<entryVars, procs, opVars, stop, sdVars, condemning, watching>>

\* The event loop finds its process replaced, or its queue closed.
EventLoopEnds(g) ==
  /\ g \in listening
  /\ ~IsCurrentProcess(g) \/ ~Available(g)
  /\ listening' = listening \ {g}
  /\ UNCHANGED <<entryVars, procs, opVars, stop, sdVars, rejecting, condemning, watching>>

\* set_plugin_state(Crashed): the generation is not looked at again.
EventCondemns(g) ==
  /\ g \in rejecting
  /\ state' = "Crashed" /\ diagnostic' \in Errors
  /\ rejecting' = rejecting \ {g} /\ condemning' = condemning \cup {g}
  /\ UNCHANGED <<process, procs, opVars, stop, sdVars, listening, watching>>

EventKills(g) ==
  /\ g \in condemning
  /\ procs' = Killed(g)
  /\ condemning' = condemning \ {g}
  /\ UNCHANGED <<entryVars, opVars, stop, sdVars, listening, rejecting, watching>>

\* Mutant of ExitWatched: the exit clears the process and leaves the state alone.
ExitWatchedKeepsState(g) ==
  /\ g \in watching
  /\ procs[g] = "gone"
  /\ watching' = watching \ {g}
  /\ process' = IF generation = g THEN 0 ELSE process
  /\ UNCHANGED <<state, diagnostic, procs, opVars, stop, sdVars, listening, rejecting,
                 condemning>>

\* The exit watcher clears the process of its own generation only.
ExitWatched(g) ==
  /\ g \in watching
  /\ procs[g] = "gone"
  /\ watching' = watching \ {g}
  /\ IF generation # g
     THEN UNCHANGED entryVars
     ELSE /\ process' = 0
          /\ IF state \in {"Stopped", "Crashed"}
             THEN UNCHANGED <<state, diagnostic>>
             ELSE state' = "Crashed" /\ diagnostic' = "retryable"
  /\ UNCHANGED <<procs, opVars, stop, sdVars, listening, rejecting, condemning>>

TaskStep(g) ==
  \/ EventRejected(g) \/ EventLoopEnds(g) \/ EventCondemns(g) \/ EventKills(g)
  \/ ExitWatched(g)

-----------------------------------------------------------------------------
(***************************************************************************)
(* The Host's shutdown: the gate, stop_plugin in a time limit, then        *)
(* force_kill_all when that failed or ran out of time.                     *)
(***************************************************************************)

ShutdownBegins ==
  /\ shutdownPc = "idle"
  /\ shuttingDown' = TRUE
  /\ shutdownPc' = "stopping"
  /\ stop' = [stop EXCEPT !["shutdown"] = StopCall]
  /\ UNCHANGED <<entryVars, procs, opVars, forced, taskVars>>

ShutdownStopped ==
  /\ shutdownPc = "stopping"
  /\ stop["shutdown"].pc \in {"ok", "err"}
  /\ shutdownPc' = IF stop["shutdown"].pc = "ok" THEN "done" ELSE "force"
  /\ stop' = [stop EXCEPT !["shutdown"] = NoStop]
  /\ UNCHANGED <<entryVars, procs, opVars, shuttingDown, forced, taskVars>>

\* The time limit drops PluginManager::shutdown wherever it is.
ShutdownTimesOut ==
  /\ shutdownPc = "stopping"
  /\ shutdownPc' = "force"
  /\ stop' = [stop EXCEPT !["shutdown"] = NoStop]
  /\ UNCHANGED <<entryVars, procs, opVars, shuttingDown, forced, taskVars>>

\* force_kill_all takes over the entry, if it has a process.
ForceKill ==
  /\ shutdownPc = "force"
  /\ IF process = 0
     THEN shutdownPc' = "done" /\ UNCHANGED <<state, procs, forced>>
     ELSE /\ shutdownPc' = "forcing"
          /\ state' = "Stopped"
          /\ procs' = Append(Killed(process), "unborn")
          /\ forced' = process
  /\ UNCHANGED <<process, diagnostic, opVars, stop, shuttingDown, taskVars>>

\* Mutant of ForceKilled: the kill is sent and its completion not awaited.
ForceKilledUnawaited ==
  /\ shutdownPc = "forcing"
  /\ process' = IF process = forced THEN 0 ELSE process
  /\ shutdownPc' = "done" /\ forced' = 0
  /\ UNCHANGED <<state, diagnostic, procs, opVars, stop, shuttingDown, taskVars>>

ForceKilled ==
  /\ shutdownPc = "forcing"
  /\ procs[forced] = "gone"
  /\ process' = IF process = forced THEN 0 ELSE process
  /\ shutdownPc' = "done" /\ forced' = 0
  /\ UNCHANGED <<state, diagnostic, procs, opVars, stop, shuttingDown, taskVars>>

ShutdownStep == ShutdownStopped \/ ShutdownTimesOut \/ ForceKill \/ ForceKilled

-----------------------------------------------------------------------------
Next ==
  \/ \E g \in Generations : ProcessDies(g) \/ ProcessReaped(g) \/ TaskStep(g)
  \/ \E kind \in OpKinds : BeginOperation(kind)
  \/ \E x \in Stoppers : StopStep(x)
  \/ OperatorStep
  \/ RecoveryDropped
  \/ ShutdownBegins
  \/ ShutdownStep

(***************************************************************************)
(* Tokio runs every ready task, RPCs and graceful stops have deadlines,    *)
(* and a killed child is reaped.  Nothing says that operations or the      *)
(* shutdown begin, or that a healthy child dies.                           *)
(***************************************************************************)
Fairness ==
  /\ WF_vars(OperatorStep)
  /\ WF_vars(ShutdownStep)
  /\ \A x \in Stoppers : WF_vars(StopStep(x))
  /\ WF_vars(\E g \in Generations : ProcessReaped(g))
  /\ WF_vars(\E g \in Generations : TaskStep(g))

Spec     == Init /\ [][Next]_vars
FairSpec == Spec /\ Fairness

-----------------------------------------------------------------------------
(***************************************************************************)
(* Properties                                                              *)
(***************************************************************************)

\* No child runs that the entry does not hold: whoever looks at the entry (a stop,
\* a shutdown, force_kill_all) sees every process there is to kill, and there is
\* never more than one.
NoInvisibleProcess == \A g \in Generations : Alive(g) => process = g

\* A plugin shown Starting or Ready has a process behind it, so that a stop or the
\* exit of that process can still bring it out of that state.
ActiveHasProcess == state \in {"Starting", "Ready"} => process # 0

\* When the Host's shutdown returns, no child is left and the plugin is not shown
\* as usable, whatever start, restart, recovery or crash it raced with.
ShutdownLeavesNothing ==
  shutdownPc = "done" =>
    /\ \A g \in Generations : ~Alive(g)
    /\ state \in {"Stopped", "Crashed"}

\* From the moment the shutdown gate is up, no step brings the plugin to Starting
\* or Ready: a start or recovery already under way cannot resurrect it.
NoResurrection ==
  [][shuttingDown /\ state' # state => state' \in {"Stopped", "Crashed"}]_vars

\* The shutdown returns, though processes hang and the operator does not let go.
ShutdownCompletes == shuttingDown ~> shutdownPc = "done"

\* A start that fails or is abandoned does not leave the plugin Starting: as long as
\* the Host is not shutting down, a Starting plugin has an operation that drives it.
StartingIsDriven ==
  state = "Starting" /\ ~shuttingDown =>
    /\ opPc \in {"initialize", "describe", "killing"}
    /\ opGen = generation
=============================================================================
