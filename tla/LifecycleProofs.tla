--------------------------- MODULE LifecycleProofs ---------------------------
(***************************************************************************)
(* Proof that on POSIX platforms the supervisor implements                *)
(* ServiceLifecycle under the mapping Phase, for every value of the       *)
(* constants.                                                              *)
(***************************************************************************)
EXTENDS SupervisorProofs

(* Facts about shutdown the refinement needs besides IInv: nothing has    *)
(* set _stop_event while the start loop runs, no task runs before         *)
(* gather_apis, and a                                                     *)
(* task only catches the interrupt together with close_api_gracefully     *)
(* setting _stop_event.                                                    *)
StartingQuiet ==
  /\ main = "starting" => ~stopEvent
  /\ main \in {"starting", "health"} => \A s \in Services : task[s] = "idle"
CaughtStopping ==
  \A s \in Services : task[s] \in {"caught", "finally"} => stopEvent

LInv == IInv /\ StartingQuiet /\ CaughtStopping

-----------------------------------------------------------------------------
(* A step of a process or of a child, or of close_api_gracefully visiting *)
(* a descriptor, leaves the main thread, the tasks and the stop event     *)
(* alone.                                                                 *)
LEMMA QuietSteps ==
  ASSUME NEW p, NEW s, ProcExit(p) \/ ChildStart(p) \/ ChildExit(p) \/ CloseStep(s)
  PROVE  UNCHANGED <<main, stopEvent, task>>
  BY DEF ProcExit, ChildStart, ChildExit, CloseStep

(* When restarts replace only dead processes, every step keeps LInv.     *)
LEMMA LInvStep ==
  ASSUME LInv, [Next]_vars, RestartsDead
  PROVE  LInv'
<1>0. IInv' /\ TypeOK
  BY IInvStepIf DEF LInv, IInv
<1> DEFINE Quiet == StartingQuiet /\ CaughtStopping
<1>q. SUFFICES Quiet'
  BY <1>0 DEF LInv
<1>1. ASSUME NEW s \in Services, StartProcess(s) PROVE Quiet'
  BY <1>1 DEF LInv, StartingQuiet, CaughtStopping, StartProcess, BeginClose
<1>2. ASSUME NEW s \in Services, Finally(s) PROVE Quiet'
  <2>1. main' \notin {"starting", "health"}
    BY <1>2 DEF Finally, Finish, Stopped, Denied, Restart, BeginClose
  <2>2. \A t \in Services : task'[t] \in {"caught", "finally"}
                             => task[t] \in {"caught", "finally"} \/ stopEvent'
    BY <1>0, <1>2 DEF Finally, Finish, Stopped, Denied, Restart, BeginClose, TypeOK
  <2>3. stopEvent => stopEvent'
    BY <1>2 DEF Finally, Finish, Stopped, Denied, Restart, BeginClose
  <2>4. QED
    BY <2>1, <2>2, <2>3 DEF LInv, StartingQuiet, CaughtStopping
<1>3. ASSUME NEW p \in Pids, ProcExit(p) \/ ChildStart(p) \/ ChildExit(p)
      PROVE  Quiet'
  <2>1. UNCHANGED <<main, stopEvent, task>>
    BY <1>3, QuietSteps
  <2>2. QED
    BY <2>1 DEF LInv, StartingQuiet, CaughtStopping
<1>10. ASSUME NEW s \in Services, CloseStep(s) PROVE Quiet'
  <2>1. UNCHANGED <<main, stopEvent, task>>
    BY <1>10, QuietSteps
  <2>2. QED
    BY <2>1 DEF LInv, StartingQuiet, CaughtStopping
<1>4. ASSUME NEW s \in Services, HealthResult(s) \/ RestartHealth(s)
      PROVE  Quiet'
  BY <1>0, <1>4 DEF LInv, StartingQuiet, CaughtStopping, HealthResult,
                    RestartHealth, TypeOK
<1>5. ASSUME NEW s \in Services, InterruptCaught(s) PROVE Quiet'
  BY <1>0, <1>5 DEF LInv, StartingQuiet, CaughtStopping, InterruptCaught,
                    BeginClose, TypeOK
<1>6. CASE FinishStarting \/ BeginMonitor \/ GatherDone \/ ReconStop \/ Tick
           \/ InterruptUncaught
  BY <1>0, <1>6 DEF LInv, StartingQuiet, CaughtStopping, FinishStarting,
                    BeginMonitor, GatherDone, ReconStop, Tick, InterruptUncaught
<1>7. CASE CloseReturn \/ Finalize
  BY <1>0, <1>7 DEF LInv, StartingQuiet, CaughtStopping, CloseReturn, Finalize,
                    BeginClose, TypeOK
<1>8. CASE UNCHANGED vars
  BY <1>8 DEF LInv, StartingQuiet, CaughtStopping, vars
<1>9. QED
  BY <1>1, <1>2, <1>3, <1>4, <1>5, <1>6, <1>7, <1>8, <1>10
  DEF Next, Supervise, Environment

-----------------------------------------------------------------------------
(* An in-place update of one process record leaves the others alone and  *)
(* sets its exit state as written.                                        *)
LEMMA RecordFrame ==
  ASSUME NEW ps \in Seq(ProcRec), NEW p \in 1 .. Len(ps),
         NEW st \in ProcStates, NEW c \in BOOLEAN
  PROVE  /\ \A q \in 1 .. Len(ps) \ {p} :
              /\ [ps EXCEPT ![p].st = st, ![p].child = c][q] = ps[q]
              /\ [ps EXCEPT ![p].st = st][q] = ps[q]
              /\ [ps EXCEPT ![p].child = c][q] = ps[q]
         /\ [ps EXCEPT ![p].st = st, ![p].child = c][p].st = st
         /\ [ps EXCEPT ![p].st = st][p].st = st
         /\ [ps EXCEPT ![p].child = c][p].st = ps[p].st
<1> DEFINE r1 == [ps[p] EXCEPT !.st = st, !.child = c]
           r2 == [ps[p] EXCEPT !.st = st]
           r3 == [ps[p] EXCEPT !.child = c]
           n1 == [ps EXCEPT ![p].st = st, ![p].child = c]
           n2 == [ps EXCEPT ![p].st = st]
           n3 == [ps EXCEPT ![p].child = c]
<1>0. ps[p] \in ProcRec
  OBVIOUS
<1>1. r1.st = st /\ r2.st = st /\ r3.st = ps[p].st
  BY <1>0, Zenon DEF ProcRec
<1>2. n1 = [ps EXCEPT ![p] = r1] /\ n2 = [ps EXCEPT ![p] = r2]
      /\ n3 = [ps EXCEPT ![p] = r3]
  BY Zenon
<1>3. /\ \A q \in 1 .. Len(ps) \ {p} : [ps EXCEPT ![p] = r1][q] = ps[q]
      /\ \A q \in 1 .. Len(ps) \ {p} : [ps EXCEPT ![p] = r2][q] = ps[q]
      /\ \A q \in 1 .. Len(ps) \ {p} : [ps EXCEPT ![p] = r3][q] = ps[q]
      /\ [ps EXCEPT ![p] = r1][p] = r1 /\ [ps EXCEPT ![p] = r2][p] = r2
      /\ [ps EXCEPT ![p] = r3][p] = r3
  <2>1. \A r : /\ \A q \in 1 .. Len(ps) \ {p} : [ps EXCEPT ![p] = r][q] = ps[q]
               /\ [ps EXCEPT ![p] = r][p] = r
    OBVIOUS
  <2>2. QED
    BY ONLY <2>1, Zenon
<1>4. /\ \A q \in 1 .. Len(ps) \ {p} : n1[q] = ps[q] /\ n2[q] = ps[q] /\ n3[q] = ps[q]
      /\ n1[p] = r1 /\ n2[p] = r2 /\ n3[p] = r3
  BY ONLY <1>2, <1>3, Zenon
<1>5. QED
  BY ONLY <1>1, <1>4, Zenon

(* The mapped phase of a descriptor as a function of the state.           *)
LEMMA PhaseType ==
  /\ Phase \in [Services -> {"idle", "running", "exited", "restarting", "stopped"}]
  /\ Phase' \in [Services -> {"idle", "running", "exited", "restarting", "stopped"}]
  BY DEF Phase

(* A descriptor keeps its phase when its task keeps being finished or     *)
(* awaiting a health check, its handle is kept and its current process    *)
(* keeps its exit state.                                                  *)
LEMMA PhaseKeep ==
  ASSUME NEW t \in Services,
         (task'[t] = "done") <=> (task[t] = "done"),
         (task'[t] = "health") <=> (task[t] = "health"),
         handle'[t] = handle[t],
         handle[t] # 0 => procs'[handle[t]].st = procs[handle[t]].st
  PROVE  Phase'[t] = Phase[t]
  BY DEF Phase, Alive

(* A step that changes no phase maps to a shutdown or to a stutter.       *)
LEMMA NoPhaseStep ==
  ASSUME stopEvent \in BOOLEAN, \A t \in Services : Phase'[t] = Phase[t],
         stopEvent' = stopEvent \/ stopEvent' = TRUE
  PROVE  [LC!Next]_<<Phase, stopEvent>>
<1>1. Phase' = Phase
  <2>1. Phase \in [Services -> {"idle", "running", "exited", "restarting", "stopped"}]
        /\ Phase' \in [Services -> {"idle", "running", "exited", "restarting", "stopped"}]
    BY PhaseType
  <2>2. QED
    BY <2>1
<1>2. CASE stopEvent' = stopEvent
  BY <1>1, <1>2
<1>3. CASE stopEvent' # stopEvent
  <2>1. ~stopEvent /\ stopEvent' = TRUE
    BY <1>3
  <2>2. LC!Shutdown
    BY <1>1, <2>1 DEF LC!Shutdown
  <2>3. QED
    BY <2>2 DEF LC!Next
<1>4. QED
  BY <1>2, <1>3

(* A step that changes the phase of s alone.                              *)
LEMMA OnePhaseStep ==
  ASSUME NEW s \in Services, \A t \in Services \ {s} : Phase'[t] = Phase[t]
  PROVE  Phase' = [Phase EXCEPT ![s] = Phase'[s]]
  BY PhaseType

(* A step that keeps every task finished or awaiting a health check as it *)
(* was, keeps the handles and the exit state of every process, and at    *)
(* most sets _stop_event, changes no phase.                               *)
LEMMA KeepPhases ==
  ASSUME TypeOK,
         \A t \in Services : /\ (task'[t] = "done") <=> (task[t] = "done")
                             /\ (task'[t] = "health") <=> (task[t] = "health"),
         handle' = handle,
         \A q \in Pids : procs'[q].st = procs[q].st,
         stopEvent' = stopEvent \/ stopEvent' = TRUE
  PROVE  [LC!Next]_<<Phase, stopEvent>>
<1>1. \A t \in Services : Phase'[t] = Phase[t]
  <2> TAKE t \in Services
  <2>1. handle[t] # 0 => procs'[handle[t]].st = procs[handle[t]].st
    BY DEF TypeOK, Pids
  <2>2. QED
    BY <2>1, PhaseKeep
<1>2. QED
  BY <1>1, NoPhaseStep DEF TypeOK

(* A live process ends (of itself, or terminated by close_api_gracefully): *)
(* its descriptor's phase goes from running to exited, unless its task    *)
(* has finished or awaits a health check; no other phase changes.         *)
LEMMA DeathStep ==
  ASSUME TypeOK, OwnerIsCurrent, HandleOwner, NEW p \in Pids, Alive(p),
         \A q \in Pids \ {p} : procs'[q] = procs[q],
         procs'[p].st # "alive",
         UNCHANGED <<task, handle, stopEvent>>
  PROVE  [LC!Next]_<<Phase, stopEvent>>
<1> DEFINE o == procs[p].svc
<1>0. procs[p] \in ProcRec
  BY DEF TypeOK, Pids
<1>1. o \in Services /\ handle[o] = p
  BY <1>0 DEF OwnerIsCurrent, Pids, Alive, ProcRec
<1>2. \A t \in Services \ {o} : Phase'[t] = Phase[t]
  <2> TAKE t \in Services \ {o}
  <2>1. handle[t] # 0 => handle[t] # p /\ handle[t] \in Pids
    BY <1>1 DEF HandleOwner, TypeOK, Pids
  <2>2. handle[t] # 0 => procs'[handle[t]].st = procs[handle[t]].st
    BY <2>1
  <2>3. QED
    BY <2>2, PhaseKeep
<1>3. CASE task[o] \in {"done", "health"}
  <2>1. Phase'[o] = Phase[o]
    BY <1>1, <1>3 DEF Phase
  <2>2. QED
    BY <1>2, <2>1, NoPhaseStep DEF TypeOK
<1>4. CASE task[o] \notin {"done", "health"}
  <2>1. Phase[o] = "running" /\ Phase'[o] = "exited"
    BY <1>1, <1>4 DEF Phase, Alive, Pids
  <2>2. Phase' = [Phase EXCEPT ![o] = "exited"]
    BY <1>1, <1>2, <2>1, OnePhaseStep
  <2>3. LC!Exit(o)
    BY <2>1, <2>2 DEF LC!Exit
  <2>4. QED
    BY <1>1, <2>3 DEF LC!Next
<1>5. QED
  BY <1>3, <1>4

-----------------------------------------------------------------------------
(* When restarts replace only dead processes, every step of the          *)
(* supervisor maps to a step of ServiceLifecycle or leaves the phases and *)
(* the stop event alone.                                                  *)
LEMMA RefineStep ==
  ASSUME LInv, [Next]_vars, RestartsDead
  PROVE  [LC!Next]_<<Phase, stopEvent>>
<1>0. /\ TypeOK /\ OwnerIsCurrent /\ HandleOwner /\ TaskHasProcess /\ Unstarted
      /\ StartingQuiet /\ CaughtStopping
  BY DEF LInv, IInv
<1>a. ASSUME NEW s \in Services, Spawn(s), UNCHANGED stopEvent,
             \A t \in Services \ {s} : task'[t] = task[t]
      PROVE  \A t \in Services \ {s} : Phase'[t] = Phase[t]
  <2> TAKE t \in Services \ {s}
  <2>1. handle'[t] = handle[t]
        /\ (handle[t] # 0 => procs'[handle[t]].st = procs[handle[t]].st)
    BY <1>0, <1>a DEF Spawn, TypeOK
  <2>2. QED
    BY <1>a, <2>1, PhaseKeep
<1>1. ASSUME NEW s \in Services, StartProcess(s) PROVE [LC!Next]_<<Phase, stopEvent>>
  <2>1. CASE Spawn(s) /\ UNCHANGED <<main, stopEvent, closeTodo, closeCaller>>
    <3>1. task[s] = "idle" /\ handle[s] = 0 /\ ~stopEvent /\ UNCHANGED task
      BY <1>0, <1>1 DEF StartingQuiet, Unstarted, StartProcess
    <3>2. Phase[s] = "idle" /\ Phase'[s] = "running"
      BY <1>0, <2>1, <3>1 DEF Spawn, Phase, Alive, TypeOK
    <3>3. \A t \in Services \ {s} : Phase'[t] = Phase[t]
      BY <2>1, <3>1, <1>a
    <3>4. LC!Launch(s)
      BY <2>1, <3>1, <3>2, <3>3, OnePhaseStep DEF LC!Launch
    <3>5. QED
      BY <3>4 DEF LC!Next
  <2>2. CASE BeginClose("launch") /\ UNCHANGED <<procs, handle>>
    BY <1>0, <1>1, <2>2, KeepPhases DEF StartProcess, BeginClose
  <2>3. QED
    BY <1>1, <2>1, <2>2 DEF StartProcess
<1>2. ASSUME NEW s \in Services, Finally(s) PROVE [LC!Next]_<<Phase, stopEvent>>
  <2>0. /\ handle[s] \in 1 .. Len(procs)
        /\ task[s] \in {"watch", "finally"}
        /\ task[s] = "watch" => ~Alive(handle[s])
    BY <1>0, <1>2 DEF Finally, TaskHasProcess, TypeOK
  <2>1. CASE should_restart(s) /\ request_restart_attempt(s)
    <3>0. Restart(s)
      BY <1>2, <2>1 DEF Finally
    <3>1. CASE Spawn(s) /\ task' = [task EXCEPT ![s] = "health"]
               /\ UNCHANGED <<main, stopEvent, closeTodo, closeCaller>>
      <4>0. ~Alive(handle[s])
        BY <1>2, <2>1 DEF RestartsDead
      <4>1. Phase[s] = "exited"
        BY <2>0, <4>0 DEF Phase
      <4>2. Phase'[s] = "restarting"
        BY <1>0, <3>1 DEF Phase, TypeOK
      <4>3. \A t \in Services \ {s} : Phase'[t] = Phase[t]
        BY <1>0, <3>1, <1>a DEF TypeOK
      <4>4. LC!Relaunch(s)
        BY <3>1, <4>1, <4>2, <4>3, OnePhaseStep DEF LC!Relaunch
      <4>5. QED
        BY <4>4 DEF LC!Next
    <3>2. CASE BeginClose("launch") /\ UNCHANGED <<task, procs, handle>>
      BY <1>0, <3>2, KeepPhases DEF BeginClose
    <3>3. QED
      BY <3>0, <3>1, <3>2 DEF Restart
  <2>2. CASE ~(should_restart(s) /\ request_restart_attempt(s))
    <3>1. Finish(s)
      BY <1>2, <2>2 DEF Finally, Denied, Stopped
    <3>2. Phase[s] = "exited" \/ (Phase[s] = "running" /\ stopEvent)
      BY <1>0, <2>0 DEF Phase, CaughtStopping
    <3>3. Phase'[s] = "stopped"
      BY <1>0, <3>1 DEF Finish, Phase, TypeOK
    <3>4. \A t \in Services \ {s} : Phase'[t] = Phase[t]
      <4> TAKE t \in Services \ {s}
      <4>1. task'[t] = task[t]
        BY <1>0, <3>1 DEF Finish, TypeOK
      <4>2. QED
        BY <3>1, <4>1, PhaseKeep DEF Finish
    <3>5. LC!Stop(s)
      BY <3>1, <3>2, <3>3, <3>4, OnePhaseStep DEF LC!Stop, Finish
    <3>6. QED
      BY <3>5 DEF LC!Next
  <2>3. QED
    BY <2>1, <2>2
<1>3. ASSUME NEW s \in Services, RestartHealth(s) PROVE [LC!Next]_<<Phase, stopEvent>>
  <2>1. Phase[s] = "restarting" /\ Phase'[s] \in {"running", "exited"}
    BY <1>0, <1>3 DEF RestartHealth, Phase, TaskHasProcess, TypeOK
  <2>2. \A t \in Services \ {s} : Phase'[t] = Phase[t]
    <3> TAKE t \in Services \ {s}
    <3>1. task'[t] = task[t]
      BY <1>0, <1>3 DEF RestartHealth, TypeOK
    <3>2. QED
      BY <1>3, <3>1, PhaseKeep DEF RestartHealth
  <2>3. LC!Ready(s)
    BY <1>3, <2>1, <2>2, OnePhaseStep DEF LC!Ready, RestartHealth
  <2>4. QED
    BY <2>3 DEF LC!Next
<1>4. ASSUME NEW s \in Services, CloseStep(s) PROVE [LC!Next]_<<Phase, stopEvent>>
  <2>1. CASE handle[s] # 0 /\ Alive(handle[s])
    <3> DEFINE q == handle[s]
    <3>1. q \in 1 .. Len(procs) /\ procs \in Seq(ProcRec)
          /\ "exited" \in ProcStates /\ FALSE \in BOOLEAN
      BY <1>0, <2>1 DEF TypeOK, ProcStates
    <3>2. \/ procs' = [procs EXCEPT ![q].st = "exited", ![q].child = FALSE]
          \/ procs' = [procs EXCEPT ![q].child = FALSE]
      BY <1>4, <2>1, Zenon DEF CloseStep, StopProcess
    <3>3. /\ \A r \in 1 .. Len(procs) \ {q} :
               /\ [procs EXCEPT ![q].st = "exited", ![q].child = FALSE][r] = procs[r]
               /\ [procs EXCEPT ![q].child = FALSE][r] = procs[r]
          /\ [procs EXCEPT ![q].st = "exited", ![q].child = FALSE][q].st = "exited"
          /\ [procs EXCEPT ![q].child = FALSE][q].st = procs[q].st
      BY ONLY <3>1, RecordFrame
    <3>4. \/ /\ \A r \in Pids \ {q} : procs'[r] = procs[r]
             /\ procs'[q].st = "exited"
          \/ \A r \in Pids : procs'[r].st = procs[r].st
      BY ONLY <3>2, <3>3, Zenon DEF Pids
    <3>5. UNCHANGED <<task, handle, stopEvent>>
      BY <1>4 DEF CloseStep
    <3>6. q \in Pids
      BY <3>1 DEF Pids
    <3>7. QED
      BY <1>0, <2>1, <3>4, <3>5, <3>6, DeathStep, KeepPhases
  <2>2. CASE ~(handle[s] # 0 /\ Alive(handle[s]))
    BY <1>0, <1>4, <2>2, KeepPhases DEF CloseStep
  <2>3. QED
    BY <2>1, <2>2
<1>5. ASSUME NEW p \in Pids, ProcExit(p) PROVE [LC!Next]_<<Phase, stopEvent>>
  <2>1. PICK code \in {"exited", "sigkill"} : procs' = [procs EXCEPT ![p].st = code]
    BY <1>5 DEF ProcExit
  <2>2. procs \in Seq(ProcRec) /\ p \in 1 .. Len(procs) /\ code \in ProcStates
        /\ FALSE \in BOOLEAN
    BY <1>0 DEF TypeOK, Pids, ProcStates
  <2>3. /\ \A r \in 1 .. Len(procs) \ {p} : [procs EXCEPT ![p].st = code][r] = procs[r]
        /\ [procs EXCEPT ![p].st = code][p].st = code
    BY ONLY <2>2, RecordFrame
  <2>4. \A r \in Pids \ {p} : procs'[r] = procs[r]
    BY ONLY <2>1, <2>3, Zenon DEF Pids
  <2>5. procs'[p].st # "alive"
    BY ONLY <2>1, <2>3, Zenon
  <2>6. QED
    BY <1>0, <1>5, <2>4, <2>5, DeathStep DEF ProcExit
<1>6. ASSUME NEW p \in Pids, ChildStart(p) \/ ChildExit(p)
      PROVE  [LC!Next]_<<Phase, stopEvent>>
  <2>1. \/ procs' = [procs EXCEPT ![p].child = TRUE]
        \/ procs' = [procs EXCEPT ![p].child = FALSE]
    BY <1>6, Zenon DEF ChildStart, ChildExit
  <2>2. procs \in Seq(ProcRec) /\ p \in 1 .. Len(procs) /\ "alive" \in ProcStates
    BY <1>0 DEF TypeOK, Pids, ProcStates
  <2>3. /\ \A r \in 1 .. Len(procs) \ {p} :
             /\ [procs EXCEPT ![p].child = TRUE][r] = procs[r]
             /\ [procs EXCEPT ![p].child = FALSE][r] = procs[r]
        /\ [procs EXCEPT ![p].child = TRUE][p].st = procs[p].st
        /\ [procs EXCEPT ![p].child = FALSE][p].st = procs[p].st
    BY ONLY <2>2, RecordFrame
  <2>4. \A r \in Pids : procs'[r].st = procs[r].st
    BY ONLY <2>1, <2>3, Zenon DEF Pids
  <2>5. QED
    BY <1>0, <1>6, <2>4, KeepPhases DEF ChildStart, ChildExit
<1>7. ASSUME NEW s \in Services, HealthResult(s) \/ InterruptCaught(s)
      PROVE  [LC!Next]_<<Phase, stopEvent>>
  BY <1>0, <1>7, KeepPhases DEF HealthResult, InterruptCaught, BeginClose, TypeOK
<1>8. CASE FinishStarting \/ GatherDone \/ ReconStop \/ Tick \/ InterruptUncaught
  BY <1>0, <1>8, KeepPhases
  DEF FinishStarting, GatherDone, ReconStop, Tick, InterruptUncaught
<1>9. CASE BeginMonitor \/ CloseReturn \/ Finalize
  BY <1>0, <1>9, KeepPhases
  DEF BeginMonitor, CloseReturn, Finalize, BeginClose, StartingQuiet, TypeOK
<1>10. CASE UNCHANGED vars
  BY <1>0, <1>10, KeepPhases DEF vars
<1>11. QED
  BY <1>1, <1>2, <1>3, <1>4, <1>5, <1>6, <1>7, <1>8, <1>9, <1>10
  DEF Next, Supervise, Environment

(* On POSIX the supervisor implements ServiceLifecycle (spec section      *)
(* 4.4): join_process, start_process and close_api_gracefully never      *)
(* launch a service after _stop_event is set at startup, never replace a *)
(* process that is still running, never revive a stopped service, and    *)
(* give a running service up only once shutdown began.                    *)
THEOREM LifecycleRefinement == Posix => (Spec => LifecycleRefined)
<1> SUFFICES ASSUME Posix PROVE Spec => LC!Spec
  BY DEF LifecycleRefined
<1>1. Init => LInv
  <2> SUFFICES ASSUME Init PROVE LInv
    OBVIOUS
  <2>1. IInv
    BY InitIInv
  <2>2. QED
    BY <2>1 DEF Init, LInv, StartingQuiet, CaughtStopping
<1>2. LInv /\ [Next]_vars => LInv'
  BY PosixRestartsDead, LInvStep
<1>3. Init => LC!Init
  BY DEF Init, LC!Init, Phase
<1>4. LInv /\ [Next]_vars => [LC!Next]_<<Phase, stopEvent>>
  BY PosixRestartsDead, RefineStep
<1>5. QED
  BY <1>1, <1>2, <1>3, <1>4, PTL DEF Spec, LC!Spec
=============================================================================
