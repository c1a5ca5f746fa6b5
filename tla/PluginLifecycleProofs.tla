----------------------- MODULE PluginLifecycleProofs -----------------------
(***************************************************************************)
(* The safety properties of PluginLifecycle, proved for any number of      *)
(* operations and hence of generations.                                    *)
(*                                                                         *)
(* Several steps clear the entry's process without looking at which it is  *)
(* (the end of a stop, the failure of a start, the exit watcher).  IInv    *)
(* says why that is safe: while such a step is pending, the entry holds    *)
(* the process the step is about, or none.                                 *)
(***************************************************************************)
EXTENDS PluginLifecycle, TLAPS

Tasks == listening \cup rejecting \cup condemning \cup watching

Quiet == state \in {"Stopped", "Crashed"}

\* Whatever is referred to by the entry or by a task was really spawned.
ReferredIsSpawned ==
  /\ process # 0 => procs[process] # "unborn"
  /\ \A g \in Tasks : procs[g] # "unborn"

\* If the latest generation is that of a spawn, the entry holds its process or none.
LatestIsHeld ==
  generation # 0 /\ procs[generation] # "unborn" => process \in {0, generation}

\* A start under way has a generation that was spawned.
StartIsSpawned ==
  opPc \in {"initialize", "describe", "killing", "tasks"} =>
    opGen # 0 /\ procs[opGen] # "unborn"

\* Who runs a stop, and that the shutdown's runs behind the gate.
StopsHaveCallers ==
  /\ stop["operator"].pc # "none" <=> opPc = "stopping"
  /\ stop["shutdown"].pc # "none" <=> shutdownPc = "stopping"
  /\ shuttingDown <=> shutdownPc # "idle"

\* A stop that will clear the entry's process finds its own there, or none, and the
\* plugin stays quiet until then.
StopTargets ==
  \A x \in Stoppers :
    stop[x].pc \in {"shutdown", "wait"} =>
      /\ stop[x].proc # 0 /\ procs[stop[x].proc] # "unborn"
      /\ process \in {0, stop[x].proc}
      /\ Quiet

\* So does the forced kill, and what the shutdown has stopped stays stopped.
ShutdownTargets ==
  /\ shutdownPc = "forcing" =>
       /\ forced # 0 /\ procs[forced] # "unborn"
       /\ process \in {0, forced}
       /\ Quiet
  /\ stop["shutdown"].pc = "ok" \/ shutdownPc = "done" => process = 0 /\ Quiet

IInv ==
  /\ TypeOK
  /\ NoInvisibleProcess /\ ActiveHasProcess
  /\ ReferredIsSpawned /\ LatestIsHeld /\ StartIsSpawned
  /\ StopsHaveCallers /\ StopTargets /\ ShutdownTargets

-----------------------------------------------------------------------------
(***************************************************************************)
(* The process list: how it grows, and what a kill does to it.             *)
(***************************************************************************)
LEMMA Grown ==
  ASSUME NEW s \in Seq(ProcStates), NEW e \in ProcStates
  PROVE  /\ Append(s, e) \in Seq(ProcStates)
         /\ Len(Append(s, e)) = Len(s) + 1
         /\ \A i \in 1 .. Len(s) : Append(s, e)[i] = s[i]
         /\ Append(s, e)[Len(s) + 1] = e
OBVIOUS

LEMMA KilledKeeps ==
  ASSUME procs \in Seq(ProcStates), NEW g \in Generations
  PROVE  /\ Killed(g) \in Seq(ProcStates)
         /\ Len(Killed(g)) = Len(procs)
         /\ Killed(g)[g] = IF procs[g] = "gone" THEN "gone" ELSE "dying"
         /\ \A h \in Generations : h # g => Killed(g)[h] = procs[h]
BY DEF Killed, Generations, ProcStates

LEMMA InitIInv == Init => IInv
<1> SUFFICES ASSUME Init PROVE IInv
  OBVIOUS
<1> USE DEF Init
<1>1. procs \in Seq(ProcStates) /\ generation = 0 /\ Generations = {}
  BY DEF generation, Generations
<1>2. stop \in [Stoppers -> StopCalls]
  BY DEF NoStop, StopCalls, StopPcs
<1>3. TypeOK
  <2>1. state \in States /\ diagnostic \in {"none"} \cup Errors /\ shuttingDown \in BOOLEAN
    BY DEF States
  <2>2. opPc \in OpPcs /\ opKind \in OpKinds /\ shutdownPc \in ShutdownPcs
    BY DEF OpPcs, OpKinds, ShutdownPcs
  <2>3. operations \in 0 .. MaxOperations
    BY MaxOperationsAssumption
  <2> QED
    BY <1>1, <1>2, <2>1, <2>2, <2>3 DEF TypeOK
<1>4. StopsHaveCallers /\ StopTargets /\ ShutdownTargets
  BY DEF StopsHaveCallers, StopTargets, ShutdownTargets, NoStop, Stoppers
<1>5. NoInvisibleProcess /\ ActiveHasProcess
  BY <1>1 DEF NoInvisibleProcess, ActiveHasProcess
<1>6. ReferredIsSpawned /\ LatestIsHeld /\ StartIsSpawned
  BY <1>1 DEF ReferredIsSpawned, LatestIsHeld, StartIsSpawned, Tasks
<1> QED
  BY <1>3, <1>4, <1>5, <1>6 DEF IInv

\* Every step keeps the types.
LEMMA StepTypeOK == IInv /\ [Next]_vars => TypeOK'
<1> SUFFICES ASSUME IInv, [Next]_vars PROVE TypeOK'
  OBVIOUS
<1> USE MaxOperationsAssumption
    DEF IInv, TypeOK, StartIsSpawned, StopTargets, StopCalls, generation, Generations,
        States, Errors, ProcStates, Stoppers, OpPcs, OpKinds,
        StopPcs, ShutdownPcs, entryVars, opVars, sdVars, taskVars
<1>1. ASSUME NEW g \in Generations, ProcessDies(g) PROVE TypeOK'
  BY <1>1 DEF ProcessDies
<1>2. ASSUME NEW g \in Generations, ProcessReaped(g) PROVE TypeOK'
  BY <1>2 DEF ProcessReaped
<1>3. ASSUME NEW kind \in OpKinds, BeginOperation(kind) PROVE TypeOK'
  <2>1. stop' \in [Stoppers -> StopCalls]
    <3>1. StopCall \in StopCalls
      BY DEF StopCall
    <3>2. \/ stop' = stop
          \/ stop' = [stop EXCEPT !["operator"] = StopCall]
      BY <1>3 DEF BeginOperation
    <3> QED
      BY <3>1, <3>2
  <2> QED
    BY <1>3, <2>1 DEF BeginOperation
<1>4. ASSUME NEW x \in Stoppers, StopAlreadyStopped(x) PROVE TypeOK'
  BY <1>4 DEF StopAlreadyStopped
<1>5. ASSUME NEW x \in Stoppers, StopMark(x) PROVE TypeOK'
  <2>1. stop' \in [Stoppers -> StopCalls]
    BY <1>5 DEF StopMark, StopCalls
  <2>2. procs' \in Seq(ProcStates) /\ Len(procs') = Len(procs) + 1
    BY <1>5, Grown DEF StopMark
  <2> QED
    BY <1>5, <2>1, <2>2 DEF StopMark
<1>6. ASSUME NEW x \in Stoppers, StopRequest(x) PROVE TypeOK'
  <2>1. stop' \in [Stoppers -> StopCalls]
    BY <1>6 DEF StopRequest, StopCalls
  <2>2. procs' \in Seq(ProcStates) /\ Len(procs') = Len(procs)
    BY <1>6 DEF StopRequest
  <2> QED
    BY <1>6, <2>1, <2>2 DEF StopRequest
<1>7. ASSUME NEW x \in Stoppers, StopDeadline(x) PROVE TypeOK'
  BY <1>7 DEF StopDeadline, Killed
<1>8. ASSUME NEW x \in Stoppers, StopSucceeds(x) PROVE TypeOK'
  BY <1>8 DEF StopSucceeds
<1>9. ASSUME NEW x \in Stoppers, StopFails(x) PROVE TypeOK'
  BY <1>9 DEF StopFails
<1>10. ASSUME NEW x \in Stoppers, StopRecordsFailure(x) PROVE TypeOK'
  BY <1>10 DEF StopRecordsFailure
<1>11. CASE RestartContinues
  BY <1>11 DEF RestartContinues, NoStop
<1>12. CASE StartRefused
  BY <1>12 DEF StartRefused
<1>13. CASE Spawn
  BY <1>13 DEF Spawn
<1>14. CASE SpawnFails
  BY <1>14 DEF SpawnFails
<1>15. CASE Initialized
  BY <1>15 DEF Initialized
<1>16. CASE StartupFails
  BY <1>16 DEF StartupFails, Killed
<1>17. CASE StartupFailureRecorded
  BY <1>17 DEF StartupFailureRecorded
<1>18. CASE PublishReady
  BY <1>18 DEF PublishReady
<1>19. CASE SpawnTasks
  BY <1>19 DEF SpawnTasks
<1>20. CASE RecoveryDropped
  BY <1>20 DEF RecoveryDropped, NoStop
<1>21. ASSUME NEW g \in Generations, EventRejected(g) PROVE TypeOK'
  BY <1>21 DEF EventRejected
<1>22. ASSUME NEW g \in Generations, EventLoopEnds(g) PROVE TypeOK'
  BY <1>22 DEF EventLoopEnds
<1>23. ASSUME NEW g \in Generations, EventCondemns(g) PROVE TypeOK'
  BY <1>23 DEF EventCondemns
<1>24. ASSUME NEW g \in Generations, EventKills(g) PROVE TypeOK'
  BY <1>24 DEF EventKills, Killed
<1>25. ASSUME NEW g \in Generations, ExitWatched(g) PROVE TypeOK'
  BY <1>25 DEF ExitWatched
<1>26. CASE ShutdownBegins
  <2>1. StopCall \in StopCalls
    BY DEF StopCall
  <2> QED
    BY <1>26, <2>1 DEF ShutdownBegins
<1>27. CASE ShutdownStopped
  BY <1>27 DEF ShutdownStopped, NoStop
<1>28. CASE ShutdownTimesOut
  BY <1>28 DEF ShutdownTimesOut, NoStop
<1>29. CASE ForceKill
  <2>1. CASE process = 0
    BY <1>29, <2>1 DEF ForceKill
  <2>2. CASE process # 0
    <3>1. Killed(process) \in Seq(ProcStates) /\ Len(Killed(process)) = Len(procs)
      BY <2>2, KilledKeeps
    <3>2. procs' = Append(Killed(process), "unborn")
      BY <1>29, <2>2 DEF ForceKill
    <3>3. procs' \in Seq(ProcStates) /\ Len(procs') = Len(procs) + 1
      BY ONLY <3>1, <3>2, Grown DEF ProcStates
    <3> QED
      BY <1>29, <2>2, <3>3 DEF ForceKill
  <2> QED
    BY <2>1, <2>2
<1>30. CASE ForceKilled
  BY <1>30 DEF ForceKilled
<1>31. CASE UNCHANGED vars
  BY <1>31 DEF vars
<1> QED
  BY <1>1, <1>2, <1>3, <1>4, <1>5, <1>6, <1>7, <1>8, <1>9, <1>10, <1>11, <1>12, <1>13, <1>14, <1>15, <1>16, <1>17, <1>18, <1>19, <1>20, <1>21, <1>22, <1>23, <1>24, <1>25, <1>26, <1>27, <1>28, <1>29, <1>30, <1>31
  DEF Next, StopStep, OperatorStep, TaskStep, ShutdownStep

\* Every step keeps the rest of the invariant.
LEMMA StepIInv == IInv /\ [Next]_vars => IInv'
<1> SUFFICES ASSUME IInv, [Next]_vars PROVE IInv'
  OBVIOUS
<1> USE DEF IInv, NoInvisibleProcess, ActiveHasProcess, ReferredIsSpawned, LatestIsHeld,
        StartIsSpawned, StopsHaveCallers, StopTargets, ShutdownTargets, Tasks, Quiet, Alive,
        generation, Generations, Stoppers, entryVars, opVars, sdVars, taskVars
<1>0. TypeOK'
  BY StepTypeOK
<1>1. ASSUME NEW g \in Generations, ProcessDies(g) PROVE IInv'
  BY <1>0, <1>1 DEF TypeOK, ProcessDies
<1>2. ASSUME NEW g \in Generations, ProcessReaped(g) PROVE IInv'
  BY <1>0, <1>2 DEF TypeOK, ProcessReaped
<1>3. ASSUME NEW kind \in OpKinds, BeginOperation(kind) PROVE IInv'
  BY <1>0, <1>3 DEF TypeOK, BeginOperation, StopCall
<1>4. ASSUME NEW x \in Stoppers, StopAlreadyStopped(x) PROVE IInv'
  BY <1>0, <1>4 DEF TypeOK, StopAlreadyStopped
<1>5. ASSUME NEW x \in Stoppers, StopMark(x) PROVE IInv'
  <2>1. /\ Len(procs') = Len(procs) + 1
        /\ \A g \in Generations : procs'[g] = procs[g]
        /\ procs'[Len(procs) + 1] = "unborn"
    BY <1>5, Grown DEF TypeOK, StopMark, ProcStates
  <2>2. NoInvisibleProcess' /\ ActiveHasProcess' /\ ReferredIsSpawned' /\ LatestIsHeld'
    BY <1>0, <1>5, <2>1 DEF TypeOK, StopMark
  <2>3. StartIsSpawned' /\ StopsHaveCallers'
    BY <1>0, <1>5, <2>1 DEF TypeOK, StopMark
  <2>4. StopTargets' /\ ShutdownTargets'
    BY <1>0, <1>5, <2>1 DEF TypeOK, StopMark, StopCalls
  <2> QED
    BY <1>0, <2>2, <2>3, <2>4
<1>6. ASSUME NEW x \in Stoppers, StopRequest(x) PROVE IInv'
  BY <1>0, <1>6 DEF TypeOK, StopRequest
<1>7. ASSUME NEW x \in Stoppers, StopDeadline(x) PROVE IInv'
  BY <1>0, <1>7 DEF TypeOK, StopDeadline, Killed
<1>8. ASSUME NEW x \in Stoppers, StopSucceeds(x) PROVE IInv'
  BY <1>0, <1>8 DEF TypeOK, StopSucceeds
<1>9. ASSUME NEW x \in Stoppers, StopFails(x) PROVE IInv'
  BY <1>0, <1>9 DEF TypeOK, StopFails
<1>10. ASSUME NEW x \in Stoppers, StopRecordsFailure(x) PROVE IInv'
  BY <1>0, <1>10 DEF TypeOK, StopRecordsFailure
<1>11. CASE RestartContinues
  BY <1>0, <1>11 DEF TypeOK, RestartContinues, NoStop
<1>12. CASE StartRefused
  BY <1>0, <1>12 DEF TypeOK, StartRefused
<1>13. CASE Spawn
  BY <1>0, <1>13 DEF TypeOK, Spawn
<1>14. CASE SpawnFails
  BY <1>0, <1>14 DEF TypeOK, SpawnFails
<1>15. CASE Initialized
  BY <1>0, <1>15 DEF TypeOK, Initialized, StartupIsCurrent
<1>16. CASE StartupFails
  <2>1. CASE StartupIsCurrent
    <3>1. opGen \in Generations
      BY <1>16 DEF TypeOK, StartupFails
    <3>2. /\ procs' \in Seq(ProcStates) /\ Len(procs') = Len(procs)
          /\ procs'[opGen] \in {"dying", "gone"}
          /\ \A h \in Generations : h # opGen => procs'[h] = procs[h]
      BY <1>16, <2>1, <3>1, KilledKeeps DEF TypeOK, StartupFails
    <3> QED
      BY <1>0, <1>16, <2>1, <3>1, <3>2 DEF TypeOK, StartupFails, StartupIsCurrent
  <2>2. CASE ~StartupIsCurrent
    BY <1>0, <1>16, <2>2 DEF TypeOK, StartupFails
  <2> QED
    BY <2>1, <2>2
<1>17. CASE StartupFailureRecorded
  BY <1>0, <1>17 DEF TypeOK, StartupFailureRecorded
<1>18. CASE PublishReady
  BY <1>0, <1>18 DEF TypeOK, PublishReady
<1>19. CASE SpawnTasks
  BY <1>0, <1>19 DEF TypeOK, SpawnTasks
<1>20. CASE RecoveryDropped
  BY <1>0, <1>20 DEF TypeOK, RecoveryDropped, NoStop
<1>21. ASSUME NEW g \in Generations, EventRejected(g) PROVE IInv'
  BY <1>0, <1>21 DEF TypeOK, EventRejected
<1>22. ASSUME NEW g \in Generations, EventLoopEnds(g) PROVE IInv'
  BY <1>0, <1>22 DEF TypeOK, EventLoopEnds
<1>23. ASSUME NEW g \in Generations, EventCondemns(g) PROVE IInv'
  BY <1>0, <1>23 DEF TypeOK, EventCondemns
<1>24. ASSUME NEW g \in Generations, EventKills(g) PROVE IInv'
  <2>1. /\ Len(procs') = Len(procs)
        /\ procs'[g] \in {"dying", "gone"}
        /\ \A h \in Generations : h # g => procs'[h] = procs[h]
        /\ Alive(g) \/ procs'[g] = "gone"
    BY <1>24, KilledKeeps DEF TypeOK, EventKills, ProcStates
  <2>2. NoInvisibleProcess' /\ ActiveHasProcess' /\ ReferredIsSpawned' /\ LatestIsHeld'
    BY <1>24, <2>1 DEF TypeOK, EventKills
  <2>3. StartIsSpawned' /\ StopsHaveCallers'
    BY <1>24, <2>1 DEF TypeOK, EventKills
  <2>4. StopTargets' /\ ShutdownTargets'
    BY <1>24, <2>1 DEF TypeOK, EventKills, StopCalls
  <2> QED
    BY <1>0, <2>2, <2>3, <2>4
<1>25. ASSUME NEW g \in Generations, ExitWatched(g) PROVE IInv'
  BY <1>0, <1>25 DEF TypeOK, ExitWatched
<1>26. CASE ShutdownBegins
  BY <1>0, <1>26 DEF TypeOK, ShutdownBegins, StopCall
<1>27. CASE ShutdownStopped
  BY <1>0, <1>27 DEF TypeOK, ShutdownStopped, NoStop
<1>28. CASE ShutdownTimesOut
  BY <1>0, <1>28 DEF TypeOK, ShutdownTimesOut, NoStop
<1>29. CASE ForceKill
  <2>1. CASE process = 0
    BY <1>0, <1>29, <2>1 DEF TypeOK, States, ForceKill
  <2>2. CASE process # 0
    <3>1. process \in Generations
      BY <2>2 DEF TypeOK
    <3>2. /\ Killed(process) \in Seq(ProcStates) /\ Len(Killed(process)) = Len(procs)
          /\ Killed(process)[process] \in {"dying", "gone"}
          /\ \A h \in Generations : h # process => Killed(process)[h] = procs[h]
      BY <3>1, KilledKeeps DEF TypeOK
    <3>3. procs' = Append(Killed(process), "unborn")
      BY <1>29, <2>2 DEF ForceKill
    <3>4. /\ Len(procs') = Len(procs) + 1
          /\ procs'[process] \in {"dying", "gone"}
          /\ \A h \in Generations : h # process => procs'[h] = procs[h]
          /\ procs'[Len(procs) + 1] = "unborn"
      BY <3>1, <3>2, <3>3, Grown DEF ProcStates
    <3>5. NoInvisibleProcess' /\ ActiveHasProcess'
      BY <1>29, <2>2, <3>1, <3>4 DEF TypeOK, ForceKill
    <3>6. ReferredIsSpawned' /\ LatestIsHeld'
      BY <1>29, <2>2, <3>1, <3>4 DEF TypeOK, ForceKill
    <3>7. StartIsSpawned' /\ StopsHaveCallers'
      BY <1>0, <1>29, <2>2, <3>1, <3>4 DEF TypeOK, ForceKill
    <3>8. StopTargets' /\ ShutdownTargets'
      BY <1>0, <1>29, <2>2, <3>1, <3>4 DEF TypeOK, ForceKill, StopCalls
    <3> QED
      BY <1>0, <3>5, <3>6, <3>7, <3>8
  <2> QED
    BY <2>1, <2>2
<1>30. CASE ForceKilled
  BY <1>0, <1>30 DEF TypeOK, ForceKilled
<1>31. CASE UNCHANGED vars
  BY <1>0, <1>31 DEF TypeOK, vars
<1> QED
  BY <1>1, <1>2, <1>3, <1>4, <1>5, <1>6, <1>7, <1>8, <1>9, <1>10, <1>11, <1>12, <1>13, <1>14, <1>15, <1>16, <1>17, <1>18, <1>19, <1>20, <1>21, <1>22, <1>23, <1>24, <1>25, <1>26, <1>27, <1>28, <1>29, <1>30, <1>31
  DEF Next, StopStep, OperatorStep, TaskStep, ShutdownStep

THEOREM Invariance == Spec => []IInv
<1>1. Init => IInv
  BY InitIInv
<1>2. IInv /\ [Next]_vars => IInv'
  BY StepIInv
<1> QED
  BY <1>1, <1>2, PTL DEF Spec

-----------------------------------------------------------------------------
\* The state keeps its types, however many generations there are.
THEOREM TypeCorrect == Spec => []TypeOK
<1>1. IInv => TypeOK
  BY DEF IInv
<1> QED
  BY <1>1, Invariance, PTL

\* There is no process that a stop, a shutdown or a forced kill would not see.
THEOREM NoInvisibleProcesses == Spec => []NoInvisibleProcess
<1>1. IInv => NoInvisibleProcess
  BY DEF IInv
<1> QED
  BY <1>1, Invariance, PTL

\* A plugin shown Starting or Ready has a process.
THEOREM ActivePluginsHaveProcesses == Spec => []ActiveHasProcess
<1>1. IInv => ActiveHasProcess
  BY DEF IInv
<1> QED
  BY <1>1, Invariance, PTL

\* The shutdown returns only when no child is left and the plugin is not usable.
THEOREM ShutdownIsThorough == Spec => []ShutdownLeavesNothing
<1>1. IInv => ShutdownLeavesNothing
  BY DEF IInv, TypeOK, Generations, NoInvisibleProcess, ShutdownTargets, Quiet,
         ShutdownLeavesNothing
<1> QED
  BY <1>1, Invariance, PTL

\* Once the shutdown gate is up the plugin becomes neither Starting nor Ready.
THEOREM NoResurrections == Spec => NoResurrection
<1>1. IInv /\ [Next]_vars =>
        (shuttingDown /\ state' # state => state' \in {"Stopped", "Crashed"})
  BY DEF Next, vars, entryVars, opVars, sdVars, taskVars, ProcessDies, ProcessReaped, TaskStep,
         EventRejected, EventLoopEnds, EventCondemns, EventKills, ExitWatched, BeginOperation,
         StopStep, StopAlreadyStopped, StopMark, StopRequest, StopDeadline, StopSucceeds,
         StopFails, StopRecordsFailure, OperatorStep, RestartContinues, StartRefused, Spawn,
         SpawnFails, Initialized, StartupFails, StartupFailureRecorded, PublishReady,
         SpawnTasks, RecoveryDropped, ShutdownBegins, ShutdownStep, ShutdownStopped,
         ShutdownTimesOut, ForceKill, ForceKilled
<1> QED
  BY <1>1, Invariance, PTL DEF Spec, NoResurrection
=============================================================================
