--------------------------- MODULE ShutdownProofs ----------------------------
(***************************************************************************)
(* Proofs about Supervisor when the services start no child processes, on *)
(* every platform: close_api_gracefully leaves no service process alive   *)
(* when it returns, no descriptor ever has two live processes, and the    *)
(* supervisor implements ServiceLifecycle.                                *)
(***************************************************************************)
EXTENDS LifecycleProofs

USE ServicesAssumption, RestartAssumption, FlagsAssumption, BoundsAssumption

(* The descriptor has no process, or its current one is no longer alive.  *)
NoLiveProcess(s) == handle[s] = 0 \/ ~Alive(handle[s])

(* No process has child processes running.                                *)
NoChildren == \A p \in Pids : ~procs[p].child

(* While close_api_gracefully runs, every descriptor it has visited has   *)
(* no live process: with no children to signal, it terminates the        *)
(* process of each descriptor it walks.                                   *)
ClosedDead == main = "closing" => \A s \in Services \ closeTodo : NoLiveProcess(s)

(* A task stays in the except clause of join_process only while the      *)
(* close_api_gracefully it called runs.                                   *)
CaughtClosing ==
  \A s \in Services : task[s] = "caught" => main = "closing" /\ closeCaller = "interrupt"

(* A task reaches its finally block after an interrupt only once        *)
(* close_api_gracefully has stopped its process.                         *)
FinallyDead == \A s \in Services : task[s] = "finally" => NoLiveProcess(s)

(* The inductive invariant behind ShutdownStopsFleet and, off POSIX,      *)
(* behind SingleLiveProcess.                                              *)
SInv ==
  /\ IInv
  /\ NoChildren
  /\ ClosedDead
  /\ CaughtClosing
  /\ FinallyDead

-----------------------------------------------------------------------------
(* A step that rewrites process records in place and keeps the handles    *)
(* brings no descriptor's dead process back to life.                      *)
LEMMA DeadStays ==
  ASSUME TypeOK, KeepsOwners(procs, procs'), handle' = handle
  PROVE  \A u \in Services : NoLiveProcess(u) => NoLiveProcess(u)'
BY DEF TypeOK, KeepsOwners, NoLiveProcess, Alive

(* The updates of close_api_gracefully and of the OS start no child.      *)
LEMMA UpdateNoChildren ==
  ASSUME NEW ps \in Seq(ProcRec), NEW p \in 1 .. Len(ps), NEW st \in ProcStates,
         \A q \in 1 .. Len(ps) : ~ps[q].child
  PROVE  /\ \A q \in 1 .. Len(ps) : ~[ps EXCEPT ![p].st = st, ![p].child = FALSE][q].child
         /\ \A q \in 1 .. Len(ps) : ~[ps EXCEPT ![p].st = st][q].child
<1> DEFINE r1 == [ps[p] EXCEPT !.st = st, !.child = FALSE]
           r2 == [ps[p] EXCEPT !.st = st]
<1>0. ps[p] \in ProcRec
  OBVIOUS
<1>1. ~r1.child /\ ~r2.child
  BY <1>0, Zenon DEF ProcRec
<1>2. /\ [ps EXCEPT ![p].st = st, ![p].child = FALSE] = [ps EXCEPT ![p] = r1]
      /\ [ps EXCEPT ![p].st = st] = [ps EXCEPT ![p] = r2]
  BY Zenon
<1>3. /\ \A q \in 1 .. Len(ps) : ~[ps EXCEPT ![p] = r1][q].child
      /\ \A q \in 1 .. Len(ps) : ~[ps EXCEPT ![p] = r2][q].child
  BY <1>1
<1>4. QED
  BY ONLY <1>2, <1>3

(* A spawn appends a process with no children and moves only the handle  *)
(* of its own descriptor.                                                 *)
LEMMA SpawnFacts ==
  ASSUME TypeOK, NoChildren, NEW s \in Services, Spawn(s)
  PROVE  /\ NoChildren'
         /\ \A u \in Services \ {s} : NoLiveProcess(u) => NoLiveProcess(u)'
BY DEF TypeOK, NoChildren, Spawn, NoLiveProcess, Alive, Pids

(* Without children every step keeps the conjuncts about shutdown.        *)
LEMMA ShutStep ==
  ASSUME ~Children, SInv, [Next]_vars
  PROVE  (NoChildren /\ ClosedDead /\ CaughtClosing /\ FinallyDead)'
<1>0. TypeOK /\ IInv /\ NoChildren /\ ClosedDead /\ CaughtClosing /\ FinallyDead
  BY DEF SInv, IInv
<1> DEFINE Extra == NoChildren /\ ClosedDead /\ CaughtClosing /\ FinallyDead
<1>a. main # "closing" => \A u \in Services : task[u] # "caught"
  BY <1>0 DEF CaughtClosing
<1>1. ASSUME NEW s \in Services, StartProcess(s) PROVE Extra'
  <2>0. handle[s] = 0 /\ task[s] = "idle" /\ main = "starting" /\ UNCHANGED task
    BY <1>0, <1>1 DEF StartProcess, Unstarted, TaskHasProcess, IInv
  <2>1. CASE Spawn(s) /\ UNCHANGED <<main, stopEvent, closeTodo, closeCaller>>
    <3>1. NoChildren' /\ \A u \in Services \ {s} : NoLiveProcess(u) => NoLiveProcess(u)'
      BY <1>0, <2>1, SpawnFacts
    <3>2. ClosedDead' /\ CaughtClosing'
      BY <1>a, <2>0, <2>1 DEF ClosedDead, CaughtClosing
    <3>3. FinallyDead'
      <4> SUFFICES ASSUME NEW u \in Services, task'[u] = "finally"
                   PROVE  NoLiveProcess(u)'
        BY DEF FinallyDead
      <4>1. u # s /\ task[u] = "finally"
        BY <2>0
      <4>2. NoLiveProcess(u)
        BY <1>0, <4>1 DEF FinallyDead
      <4>3. QED
        BY <3>1, <4>1, <4>2
    <3>4. QED
      BY <3>1, <3>2, <3>3
  <2>2. CASE BeginClose("launch") /\ UNCHANGED <<procs, handle>>
    BY <1>0, <1>a, <2>0, <2>2
    DEF BeginClose, NoChildren, ClosedDead, CaughtClosing, FinallyDead, NoLiveProcess,
        Alive, Pids
  <2>3. QED
    BY <1>1, <2>1, <2>2, Zenon DEF StartProcess
<1>2. ASSUME NEW s \in Services, Finally(s) PROVE Extra'
  <2>0. main = "monitor" /\ \A u \in Services : task[u] # "caught"
    BY <1>a, <1>2 DEF Finally
  <2>1. CASE Restart(s) /\ Spawn(s) /\ task' = [task EXCEPT ![s] = "health"]
             /\ UNCHANGED <<main, stopEvent, closeTodo, closeCaller>>
    <3>1. NoChildren' /\ \A u \in Services \ {s} : NoLiveProcess(u) => NoLiveProcess(u)'
      BY <1>0, <2>1, SpawnFacts
    <3>2. QED
      BY <1>0, <2>0, <2>1, <3>1 DEF ClosedDead, CaughtClosing, FinallyDead, TypeOK
  <2>2. CASE BeginClose("launch") /\ UNCHANGED <<task, procs, handle>>
    BY <1>0, <2>0, <2>2
    DEF BeginClose, NoChildren, ClosedDead, CaughtClosing, FinallyDead, NoLiveProcess,
        Alive, Pids
  <2>3. CASE Finish(s)
    BY <1>0, <2>0, <2>3
    DEF Finish, NoChildren, ClosedDead, CaughtClosing, FinallyDead, NoLiveProcess,
        Alive, Pids, TypeOK
  <2>4. QED
    BY <1>2, <2>1, <2>2, <2>3 DEF Finally, Restart, Denied, Stopped
<1>3. ASSUME NEW s \in Services, CloseStep(s) PROVE Extra'
  <2>0. UNCHANGED <<main, task, handle, closeCaller>> /\ main = "closing"
        /\ closeTodo' = closeTodo \ {s}
    BY <1>3 DEF CloseStep
  <2>1. CASE handle[s] # 0 /\ Alive(handle[s])
    <3> DEFINE q == handle[s]
    <3>1. q \in 1 .. Len(procs) /\ procs \in Seq(ProcRec)
          /\ "exited" \in ProcStates \ {"alive"} /\ FALSE \in BOOLEAN
          /\ \A r \in 1 .. Len(procs) : ~procs[r].child
      BY <1>0, <2>1 DEF TypeOK, ProcStates, NoChildren, Pids
    <3>2. procs' = [procs EXCEPT ![q].st = "exited", ![q].child = FALSE]
      BY <1>3, <2>1, <3>1 DEF CloseStep, StopProcess
    <3>3. KeepsOwners(procs, procs')
      BY ONLY <3>1, <3>2, UpdateKeepsOwners
    <3>4. \A r \in 1 .. Len(procs) : ~procs'[r].child
      BY ONLY <3>1, <3>2, UpdateNoChildren
    <3>5. NoLiveProcess(s)'
      BY <2>0, <3>1, <3>2 DEF NoLiveProcess, Alive
    <3>6. \A u \in Services : NoLiveProcess(u) => NoLiveProcess(u)'
      BY <1>0, <2>0, <3>3, DeadStays
    <3>7. QED
      BY <1>0, <2>0, <3>3, <3>4, <3>5, <3>6
      DEF KeepsOwners, NoChildren, ClosedDead, CaughtClosing, FinallyDead, Pids
  <2>2. CASE ~(handle[s] # 0 /\ Alive(handle[s]))
    BY <1>0, <1>3, <2>0, <2>2
    DEF CloseStep, NoChildren, ClosedDead, CaughtClosing, FinallyDead, NoLiveProcess,
        Alive, Pids
  <2>3. QED
    BY <2>1, <2>2
<1>4. CASE CloseReturn
  <2>0. main = "closing" /\ closeTodo = {} /\ main' # "closing"
        /\ UNCHANGED <<procs, handle>>
        /\ task' = [u \in Services |-> IF task[u] = "caught" THEN "finally" ELSE task[u]]
    BY <1>4 DEF CloseReturn
  <2>1. \A u \in Services : NoLiveProcess(u)
    BY <1>0, <2>0 DEF ClosedDead
  <2>2. QED
    BY <1>0, <2>0, <2>1
    DEF NoChildren, ClosedDead, CaughtClosing, FinallyDead, NoLiveProcess, Alive, Pids
<1>5. ASSUME NEW p \in Pids, ProcExit(p) \/ ChildStart(p) \/ ChildExit(p)
      PROVE  Extra'
  <2>0. ProcExit(p)
    BY <1>0, <1>5 DEF ChildStart, ChildExit, NoChildren
  <2>1. PICK code \in {"exited", "sigkill"} : procs' = [procs EXCEPT ![p].st = code]
    BY <2>0 DEF ProcExit
  <2>2. procs \in Seq(ProcRec) /\ p \in 1 .. Len(procs) /\ code \in ProcStates \ {"alive"}
        /\ \A r \in 1 .. Len(procs) : ~procs[r].child
    BY <1>0 DEF TypeOK, Pids, ProcStates, NoChildren
  <2>3. KeepsOwners(procs, procs')
    BY ONLY <2>1, <2>2, UpdateKeepsOwners
  <2>4. \A r \in 1 .. Len(procs) : ~procs'[r].child
    BY ONLY <2>1, <2>2, UpdateNoChildren
  <2>5. UNCHANGED <<main, task, handle, closeTodo, closeCaller>>
    BY <2>0 DEF ProcExit
  <2>6. \A u \in Services : NoLiveProcess(u) => NoLiveProcess(u)'
    BY <1>0, <2>3, <2>5, DeadStays
  <2>7. QED
    BY <1>0, <2>3, <2>4, <2>5, <2>6
    DEF KeepsOwners, NoChildren, ClosedDead, CaughtClosing, FinallyDead, Pids
<1>6. ASSUME NEW s \in Services, InterruptCaught(s) PROVE Extra'
  BY <1>0, <1>6
  DEF InterruptCaught, BeginClose, NoChildren, ClosedDead, CaughtClosing, FinallyDead,
      NoLiveProcess, Alive, Pids, TypeOK
<1>7. CASE GatherDone \/ InterruptUncaught \/ FinishStarting \/ BeginMonitor
  <2>0. main # "closing" /\ main' # "closing" /\ UNCHANGED <<procs, handle>>
        /\ \A u \in Services : task'[u] \in {"idle", "watch"} \/ task'[u] = task[u]
    BY <1>0, <1>7 DEF GatherDone, InterruptUncaught, FinishStarting, BeginMonitor, TypeOK
  <2>1. QED
    BY <1>a, <1>0, <2>0
    DEF NoChildren, ClosedDead, CaughtClosing, FinallyDead, NoLiveProcess, Alive, Pids
<1>8. CASE Finalize
  <2>0. main = "finalizing" /\ UNCHANGED <<procs, handle, task>>
        /\ (main' = "closing" => closeTodo' = Services)
    BY <1>8 DEF Finalize, BeginClose
  <2>1. QED
    BY <1>a, <1>0, <2>0
    DEF NoChildren, ClosedDead, CaughtClosing, FinallyDead, NoLiveProcess, Alive, Pids
(* A step that moves no process, handle or shutdown state and puts no     *)
(* task in its except clause or finally block keeps the conjuncts.        *)
<1>b. ASSUME UNCHANGED <<procs, handle, main, closeTodo, closeCaller>>,
             \A u \in Services : task'[u] \in {"caught", "finally"} => task'[u] = task[u]
      PROVE  Extra'
  BY <1>0, <1>b
  DEF NoChildren, ClosedDead, CaughtClosing, FinallyDead, NoLiveProcess, Alive, Pids
<1>9. ASSUME NEW s \in Services, HealthResult(s) \/ RestartHealth(s) PROVE Extra'
  BY <1>0, <1>9, <1>b DEF HealthResult, RestartHealth, TypeOK
<1>10. CASE ReconStop \/ Tick \/ UNCHANGED vars
  BY <1>10, <1>b DEF ReconStop, Tick, vars
<1>11. QED
  BY <1>1, <1>2, <1>3, <1>4, <1>5, <1>6, <1>7, <1>8, <1>9, <1>10
  DEF Next, Supervise, Environment

(* The finally block restarts only a dead process: either the task left   *)
(* the join loop because its process died, or close_api_gracefully        *)
(* stopped the process before the interrupted task reached its finally.   *)
LEMMA SInvRestartsDead ==
  ASSUME SInv
  PROVE  RestartsDead
<1> SUFFICES ASSUME NEW s \in Services, Finally(s) PROVE ~Alive(handle[s])
  BY DEF RestartsDead
<1>1. CASE task[s] = "finally"
  <2>1. handle[s] # 0
    BY <1>1 DEF SInv, IInv, TaskHasProcess
  <2>2. QED
    BY <1>1, <2>1 DEF SInv, FinallyDead, NoLiveProcess
<1>2. QED
  BY <1>1 DEF Finally

(* Without children every step keeps the inductive invariant.             *)
LEMMA SInvStep ==
  ASSUME ~Children
  PROVE  SInv /\ [Next]_vars => SInv'
<1> SUFFICES ASSUME SInv, [Next]_vars PROVE SInv'
  OBVIOUS
<1>1. IInv'
  BY SInvRestartsDead, IInvStepIf DEF SInv
<1>2. (NoChildren /\ ClosedDead /\ CaughtClosing /\ FinallyDead)'
  BY ShutStep
<1>3. QED
  BY <1>1, <1>2 DEF SInv

(* The initial state satisfies the inductive invariant.                  *)
LEMMA InitSInv == Init => SInv
<1> SUFFICES ASSUME Init PROVE SInv
  OBVIOUS
<1>1. IInv
  BY InitIInv
<1>2. QED
  BY <1>1
  DEF Init, SInv, NoChildren, ClosedDead, CaughtClosing, FinallyDead, Pids

(* When close_api_gracefully returns to its caller, no service process is *)
(* alive (spec 4.5), on every platform, as long as the services start no *)
(* child processes: it has terminated the current process of every        *)
(* descriptor, and every live process is its descriptor's current one.    *)
THEOREM FleetStoppedWithoutChildren == ~Children => (Spec => ShutdownStopsFleet)
<1> SUFFICES ASSUME ~Children PROVE Spec => ShutdownStopsFleet
  OBVIOUS
<1>1. Init => SInv
  BY InitSInv
<1>2. SInv /\ [Next]_vars => SInv'
  BY SInvStep
<1>3. SInv /\ [Next]_vars
      => [(main = "closing" /\ main' # "closing") => \A p \in Pids : ~Alive(p)']_vars
  <2> SUFFICES ASSUME SInv, [Next]_vars, main = "closing", main' # "closing"
               PROVE  \A p \in Pids : ~Alive(p)'
    OBVIOUS
  <2>1. CloseReturn
    <3>1. ASSUME NEW s \in Services,
                 StartProcess(s) \/ HealthResult(s) \/ Finally(s) \/ RestartHealth(s)
                 \/ InterruptCaught(s) \/ CloseStep(s)
          PROVE  FALSE
      BY <3>1
      DEF StartProcess, HealthResult, Finally, RestartHealth, InterruptCaught, CloseStep
    <3>2. ASSUME NEW p \in Pids, ProcExit(p) \/ ChildStart(p) \/ ChildExit(p)
          PROVE  FALSE
      BY <3>2 DEF ProcExit, ChildStart, ChildExit
    <3>3. ~(FinishStarting \/ BeginMonitor \/ GatherDone \/ Finalize \/ ReconStop
            \/ InterruptUncaught \/ Tick \/ UNCHANGED vars)
      BY DEF FinishStarting, BeginMonitor, GatherDone, Finalize, ReconStop,
             InterruptUncaught, Tick, vars
    <3>4. QED
      BY <3>1, <3>2, <3>3 DEF Next, Supervise, Environment
  <2>2. closeTodo = {} /\ UNCHANGED <<procs, handle>>
    BY <2>1 DEF CloseReturn
  <2>3. SUFFICES ASSUME NEW p \in Pids, Alive(p) PROVE FALSE
    BY <2>2 DEF Alive
  <2>4. handle[procs[p].svc] = p /\ procs[p].svc \in Services
    <3>1. procs[p] \in ProcRec
      BY DEF SInv, IInv, TypeOK, Pids
    <3>2. procs[p].svc \in Services
      BY <3>1 DEF ProcRec
    <3>3. QED
      BY <2>3, <3>2 DEF SInv, IInv, OwnerIsCurrent
  <2>5. NoLiveProcess(procs[p].svc)
    BY <2>2, <2>4 DEF SInv, ClosedDead
  <2>6. QED
    BY <2>3, <2>4, <2>5 DEF NoLiveProcess, Pids
<1>4. QED
  BY <1>1, <1>2, <1>3, PTL DEF Spec, ShutdownStopsFleet

(* Without children no descriptor ever has two live processes, on POSIX   *)
(* and elsewhere: the only descriptor whose process can outlive its task  *)
(* is one whose children close_api_gracefully had to signal.              *)
THEOREM SingleLiveWithoutChildren == ~Children => (Spec => []SingleLiveProcess)
<1> SUFFICES ASSUME ~Children PROVE Spec => []SingleLiveProcess
  OBVIOUS
<1>1. Init => SInv
  BY InitSInv
<1>2. SInv /\ [Next]_vars => SInv'
  BY SInvStep
<1>3. SInv => SingleLiveProcess
  BY DEF SInv, IInv, OwnerIsCurrent, SingleLiveProcess, TypeOK, Pids
<1>4. QED
  BY <1>1, <1>2, <1>3, PTL DEF Spec

(* Without children the supervisor implements ServiceLifecycle on every   *)
(* platform, not only on POSIX: off POSIX should_restart ignores the exit *)
(* code, but a task reaches its finally block only after its process is  *)
(* gone, since close_api_gracefully terminates every process it visits.  *)
THEOREM RefinementWithoutChildren == ~Children => (Spec => LifecycleRefined)
<1> SUFFICES ASSUME ~Children PROVE Spec => LC!Spec
  BY DEF LifecycleRefined
<1>1. Init => LInv /\ SInv
  <2> SUFFICES ASSUME Init PROVE LInv /\ SInv
    OBVIOUS
  <2>1. IInv /\ SInv
    BY InitIInv, InitSInv
  <2>2. QED
    BY <2>1 DEF Init, LInv, StartingQuiet, CaughtStopping
<1>2. LInv /\ SInv /\ [Next]_vars => LInv' /\ SInv'
  BY SInvRestartsDead, LInvStep, SInvStep
<1>3. Init => LC!Init
  BY DEF Init, LC!Init, Phase
<1>4. LInv /\ SInv /\ [Next]_vars => [LC!Next]_<<Phase, stopEvent>>
  BY SInvRestartsDead, RefineStep
<1>5. QED
  BY <1>1, <1>2, <1>3, <1>4, PTL DEF Spec, LC!Spec
=============================================================================
