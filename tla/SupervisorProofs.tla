--------------------------- MODULE SupervisorProofs ---------------------------
(***************************************************************************)
(* Proofs about Supervisor for every value of its constants: the type     *)
(* invariant, and on POSIX platforms that a descriptor never has two live *)
(* processes.                                                             *)
(***************************************************************************)
EXTENDS Supervisor, TLAPS

USE ServicesAssumption, RestartAssumption, FlagsAssumption, BoundsAssumption

(* Every update the model makes to one process record keeps it a record   *)
(* of ProcRec.                                                             *)
LEMMA ProcUpdate ==
  ASSUME NEW ps \in Seq(ProcRec), NEW p \in 1 .. Len(ps),
         NEW st \in ProcStates, NEW c \in BOOLEAN
  PROVE  /\ [ps EXCEPT ![p].st = st, ![p].child = c] \in Seq(ProcRec)
         /\ [ps EXCEPT ![p].st = st] \in Seq(ProcRec)
         /\ [ps EXCEPT ![p].child = c] \in Seq(ProcRec)
         /\ Len([ps EXCEPT ![p].st = st, ![p].child = c]) = Len(ps)
         /\ Len([ps EXCEPT ![p].st = st]) = Len(ps)
         /\ Len([ps EXCEPT ![p].child = c]) = Len(ps)
<1> DEFINE r1 == [ps[p] EXCEPT !.st = st, !.child = c]
           r2 == [ps[p] EXCEPT !.st = st]
           r3 == [ps[p] EXCEPT !.child = c]
<1>0. ps[p] \in ProcRec
  OBVIOUS
<1>1. r1 \in ProcRec /\ r2 \in ProcRec /\ r3 \in ProcRec
  BY <1>0, Zenon DEF ProcRec
<1>2. \A r \in ProcRec : /\ [ps EXCEPT ![p] = r] \in Seq(ProcRec)
                        /\ Len([ps EXCEPT ![p] = r]) = Len(ps)
  OBVIOUS
<1>3. /\ [ps EXCEPT ![p].st = st, ![p].child = c] = [ps EXCEPT ![p] = r1]
      /\ [ps EXCEPT ![p].st = st] = [ps EXCEPT ![p] = r2]
      /\ [ps EXCEPT ![p].child = c] = [ps EXCEPT ![p] = r3]
  BY Zenon
<1>4. /\ [ps EXCEPT ![p] = r1] \in Seq(ProcRec) /\ Len([ps EXCEPT ![p] = r1]) = Len(ps)
      /\ [ps EXCEPT ![p] = r2] \in Seq(ProcRec) /\ Len([ps EXCEPT ![p] = r2]) = Len(ps)
      /\ [ps EXCEPT ![p] = r3] \in Seq(ProcRec) /\ Len([ps EXCEPT ![p] = r3]) = Len(ps)
  BY <1>1, <1>2, Zenon
<1>5. QED
  BY <1>3, <1>4, Zenon

(* The exit code of one process is set.                                   *)
LEMMA ProcStUpdate ==
  ASSUME NEW ps \in Seq(ProcRec), NEW p \in 1 .. Len(ps), NEW st \in ProcStates
  PROVE  [ps EXCEPT ![p].st = st] \in Seq(ProcRec)
         /\ Len([ps EXCEPT ![p].st = st]) = Len(ps)
<1>0. ps[p] \in ProcRec
  OBVIOUS
<1>1. [ps[p] EXCEPT !.st = st] \in ProcRec
  BY <1>0, Zenon DEF ProcRec
<1>2. \A r \in ProcRec : /\ [ps EXCEPT ![p] = r] \in Seq(ProcRec)
                        /\ Len([ps EXCEPT ![p] = r]) = Len(ps)
  OBVIOUS
<1>3. [ps EXCEPT ![p].st = st] = [ps EXCEPT ![p] = [ps[p] EXCEPT !.st = st]]
  BY Zenon
<1>4. QED
  BY <1>1, <1>2, <1>3, Zenon

(* A step that only rewrites fields of existing process records keeps the *)
(* type invariant.                                                         *)
LEMMA ProcFieldStep ==
  ASSUME TypeOK, procs' \in Seq(ProcRec), Len(procs') = Len(procs),
         UNCHANGED <<main, toStart, health, task, handle, hist, now, stopEvent,
                     atexitReg, closeTodo, closeCaller, recon, interrupted, restarts>>
  PROVE  TypeOK'
  BY DEF TypeOK

(* A new live process record appended to the process table.              *)
LEMMA SpawnType ==
  ASSUME TypeOK, NEW s \in Services, Spawn(s)
  PROVE  procs' \in Seq(ProcRec) /\ handle' \in [Services -> 0 .. Len(procs')]
  BY DEF TypeOK, Spawn, ProcRec, ProcStates

(* The histories gain pairs of a pid and a second.                        *)
LEMMA HistType ==
  ASSUME TypeOK, NEW s \in Services
  PROVE  NewHist(s) \in SUBSET (Nat \X Int)
  BY DEF TypeOK, NewHist, InWindow

-----------------------------------------------------------------------------
(* The inductive invariant behind SingleLiveProcess. Every live process   *)
(* is its descriptor's current .process, so a second one can only appear *)
(* by a spawn for a descriptor whose current process is still alive: the  *)
(* start loop spawns only for descriptors with no process yet, and on     *)
(* POSIX should_restart admits a restart only after the current process   *)
(* died of SIGKILL.                                                        *)
OwnerIsCurrent == \A p \in Pids : Alive(p) => handle[procs[p].svc] = p
HandleOwner == \A s \in Services : handle[s] # 0 => procs[handle[s]].svc = s
TaskHasProcess == \A s \in Services : task[s] # "idle" => handle[s] # 0
Unstarted == \A s \in toStart : handle[s] = 0
Monitoring == main \in {"health", "monitor"} \/ closeCaller = "interrupt"
StartLoopDone == Monitoring => toStart = {}
StartedHaveProcess ==
  (main = "starting" \/ Monitoring) => \A s \in Needed \ toStart : handle[s] # 0

IInv ==
  /\ TypeOK
  /\ OwnerIsCurrent
  /\ HandleOwner
  /\ TaskHasProcess
  /\ Unstarted
  /\ StartLoopDone
  /\ StartedHaveProcess

-----------------------------------------------------------------------------
(* The initial state is well typed.                                      *)
LEMMA InitType == Init => TypeOK
<1> SUFFICES ASSUME Init PROVE TypeOK
  OBVIOUS
<1>1. main \in MainStates /\ toStart \subseteq Services /\ health \subseteq Services
  BY DEF Init, MainStates
<1>2. task \in [Services -> TaskStates] /\ procs \in Seq(ProcRec)
      /\ handle \in [Services -> 0 .. Len(procs)]
  BY DEF Init, TaskStates
<1>3. hist \in [Services -> SUBSET (Nat \X Int)]
      /\ restarts \in [Services -> SUBSET (Nat \X Int)]
  BY DEF Init
<1>4. closeCaller \in Callers /\ recon \in {"none", "waiting", "stopped"}
      /\ now \in Nat /\ closeTodo \subseteq Services
  BY DEF Init, Callers
<1>5. QED
  BY <1>1, <1>2, <1>3, <1>4 DEF Init, TypeOK

(* Every step keeps the type invariant.                                   *)
LEMMA TypeStep == TypeOK /\ [Next]_vars => TypeOK'
<1> SUFFICES ASSUME TypeOK, [Next]_vars PROVE TypeOK'
  OBVIOUS
<1> USE DEF TypeOK, MainStates, TaskStates, Callers
<1>1. ASSUME NEW s \in Services, StartProcess(s) PROVE TypeOK'
  BY <1>1, SpawnType DEF StartProcess, BeginClose
<1>2. ASSUME NEW s \in Services, HealthResult(s) PROVE TypeOK'
  BY <1>2 DEF HealthResult
<1>3. ASSUME NEW s \in Services, Finally(s) PROVE TypeOK'
  <2>1. hist' \in [Services -> SUBSET (Nat \X Int)]
    BY <1>3, HistType DEF Finally, RecordAttempt, Stopped, Finish
  <2>2. restarts' \in [Services -> SUBSET (Nat \X Int)]
    BY <1>3 DEF Finally, Restart, Denied, Stopped, Finish
  <2>3. procs' \in Seq(ProcRec) /\ handle' \in [Services -> 0 .. Len(procs')]
    BY <1>3, SpawnType DEF Finally, Restart, Denied, Stopped, Finish
  <2>4. task' \in [Services -> TaskStates] /\ main' \in MainStates
        /\ closeCaller' \in Callers /\ closeTodo' \subseteq Services
        /\ stopEvent' \in BOOLEAN
    BY <1>3 DEF Finally, Restart, Denied, Stopped, Finish, BeginClose
  <2>5. QED
    BY <1>3, <2>1, <2>2, <2>3, <2>4 DEF Finally
<1>4. ASSUME NEW s \in Services, RestartHealth(s) PROVE TypeOK'
  BY <1>4 DEF RestartHealth
<1>5. ASSUME NEW s \in Services, CloseStep(s) PROVE TypeOK'
  <2>1. procs' \in Seq(ProcRec) /\ Len(procs') = Len(procs)
    <3>1. CASE handle[s] # 0 /\ Alive(handle[s])
      <4>1. handle[s] \in 1 .. Len(procs)
        BY <3>1 DEF TypeOK
      <4>2. \/ procs' = [procs EXCEPT ![handle[s]].st = "exited", ![handle[s]].child = FALSE]
            \/ procs' = [procs EXCEPT ![handle[s]].child = FALSE]
        BY <1>5, <3>1, Zenon DEF CloseStep, StopProcess
      <4>3. procs \in Seq(ProcRec) /\ "exited" \in ProcStates
        BY DEF TypeOK, ProcStates
      <4> DEFINE q == handle[s]
      <4>4. /\ [procs EXCEPT ![q].st = "exited", ![q].child = FALSE] \in Seq(ProcRec)
            /\ Len([procs EXCEPT ![q].st = "exited", ![q].child = FALSE]) = Len(procs)
            /\ [procs EXCEPT ![q].child = FALSE] \in Seq(ProcRec)
            /\ Len([procs EXCEPT ![q].child = FALSE]) = Len(procs)
        BY ONLY <4>1, <4>3, ProcUpdate
      <4>5. QED
        BY ONLY <4>2, <4>4, Zenon
    <3>2. CASE ~(handle[s] # 0 /\ Alive(handle[s]))
      BY <1>5, <3>2 DEF CloseStep
    <3>3. QED
      BY <3>1, <3>2
  <2>2. closeTodo' \subseteq Services
    BY <1>5 DEF CloseStep
  <2>3. QED
    BY <1>5, <2>1, <2>2 DEF CloseStep
<1>6. CASE FinishStarting
  BY <1>6 DEF FinishStarting
<1>7. CASE BeginMonitor
  BY <1>7 DEF BeginMonitor
<1>8. CASE CloseReturn
  BY <1>8 DEF CloseReturn
<1>9. CASE GatherDone
  BY <1>9 DEF GatherDone
<1>10. CASE Finalize
  BY <1>10 DEF Finalize, BeginClose
<1>11. CASE ReconStop
  BY <1>11 DEF ReconStop
<1>12. ASSUME NEW p \in Pids, ProcExit(p) PROVE TypeOK'
  <2>1. PICK code \in {"exited", "sigkill"} : procs' = [procs EXCEPT ![p].st = code]
    BY <1>12 DEF ProcExit
  <2>2. procs' \in Seq(ProcRec) /\ Len(procs') = Len(procs)
    <3>1. procs \in Seq(ProcRec) /\ p \in 1 .. Len(procs) /\ code \in ProcStates
          /\ FALSE \in BOOLEAN
      BY DEF Pids, ProcStates, TypeOK
    <3>2. [procs EXCEPT ![p].st = code] \in Seq(ProcRec)
          /\ Len([procs EXCEPT ![p].st = code]) = Len(procs)
      BY ONLY <3>1, ProcStUpdate
    <3>3. QED
      BY ONLY <2>1, <3>2, Zenon
  <2>3. QED
    BY <1>12, <2>2, ProcFieldStep DEF ProcExit
<1>18. ASSUME NEW p \in Pids, ChildStart(p) \/ ChildExit(p) PROVE TypeOK'
  <2>0. \/ procs' = [procs EXCEPT ![p].child = TRUE]
        \/ procs' = [procs EXCEPT ![p].child = FALSE]
    BY <1>18, Zenon DEF ChildStart, ChildExit
  <2>1. procs' \in Seq(ProcRec) /\ Len(procs') = Len(procs)
    <3>1. procs \in Seq(ProcRec) /\ p \in 1 .. Len(procs) /\ "alive" \in ProcStates
      BY DEF Pids, TypeOK, ProcStates
    <3>2. /\ [procs EXCEPT ![p].child = TRUE] \in Seq(ProcRec)
          /\ Len([procs EXCEPT ![p].child = TRUE]) = Len(procs)
          /\ [procs EXCEPT ![p].child = FALSE] \in Seq(ProcRec)
          /\ Len([procs EXCEPT ![p].child = FALSE]) = Len(procs)
      BY ONLY <3>1, ProcUpdate
    <3>3. QED
      BY ONLY <2>0, <3>2, Zenon
  <2>2. QED
    BY <1>18, <2>1, ProcFieldStep DEF ChildStart, ChildExit
<1>13. ASSUME NEW s \in Services, InterruptCaught(s) PROVE TypeOK'
  BY <1>13 DEF InterruptCaught, BeginClose
<1>14. CASE InterruptUncaught
  BY <1>14 DEF InterruptUncaught
<1>15. CASE Tick
  BY <1>15 DEF Tick
<1>16. CASE UNCHANGED vars
  BY <1>16 DEF vars
<1>17. QED
  BY <1>1, <1>2, <1>3, <1>4, <1>5, <1>6, <1>7, <1>8, <1>9, <1>10, <1>11,
     <1>12, <1>13, <1>14, <1>15, <1>16, <1>18
  DEF Next, Supervise, Environment

(* The type invariant holds in every reachable state.                     *)
LEMMA TypeCorrect == Spec => []TypeOK
<1>1. Init => TypeOK
  BY InitType
<1>2. TypeOK /\ [Next]_vars => TypeOK'
  BY TypeStep
<1>3. QED
  BY <1>1, <1>2, PTL DEF Spec

-----------------------------------------------------------------------------
(* A step that rewrites process records in place keeps each record's     *)
(* descriptor and never brings a dead process back to life.              *)
KeepsOwners(ps, qs) ==
  /\ Len(qs) = Len(ps)
  /\ \A q \in 1 .. Len(ps) : /\ qs[q].svc = ps[q].svc
                             /\ (qs[q].st = "alive" => ps[q].st = "alive")

(* Replacing one record by one with the same descriptor, alive only if   *)
(* the old one was.                                                       *)
LEMMA ReplaceKeepsOwners ==
  ASSUME NEW ps \in Seq(ProcRec), NEW p \in 1 .. Len(ps), NEW r,
         r.svc = ps[p].svc, r.st = "alive" => ps[p].st = "alive"
  PROVE  KeepsOwners(ps, [ps EXCEPT ![p] = r])
  BY DEF KeepsOwners

(* The updates of close_api_gracefully and of the OS keep the owners.    *)
LEMMA UpdateKeepsOwners ==
  ASSUME NEW ps \in Seq(ProcRec), NEW p \in 1 .. Len(ps),
         NEW st \in ProcStates \ {"alive"}, NEW c \in BOOLEAN
  PROVE  /\ KeepsOwners(ps, [ps EXCEPT ![p].st = st, ![p].child = c])
         /\ KeepsOwners(ps, [ps EXCEPT ![p].st = st])
         /\ KeepsOwners(ps, [ps EXCEPT ![p].child = c])
<1> DEFINE r1 == [ps[p] EXCEPT !.st = st, !.child = c]
           r2 == [ps[p] EXCEPT !.st = st]
           r3 == [ps[p] EXCEPT !.child = c]
<1>0. ps[p] \in ProcRec
  OBVIOUS
<1>1. /\ r1.svc = ps[p].svc /\ r1.st = st
      /\ r2.svc = ps[p].svc /\ r2.st = st
      /\ r3.svc = ps[p].svc /\ r3.st = ps[p].st
  BY <1>0, Zenon DEF ProcRec
<1>2. st # "alive"
  OBVIOUS
<1>3. /\ KeepsOwners(ps, [ps EXCEPT ![p] = r1])
      /\ KeepsOwners(ps, [ps EXCEPT ![p] = r2])
      /\ KeepsOwners(ps, [ps EXCEPT ![p] = r3])
  BY ONLY <1>1, <1>2, ReplaceKeepsOwners
<1>4. /\ [ps EXCEPT ![p].st = st, ![p].child = c] = [ps EXCEPT ![p] = r1]
      /\ [ps EXCEPT ![p].st = st] = [ps EXCEPT ![p] = r2]
      /\ [ps EXCEPT ![p].child = c] = [ps EXCEPT ![p] = r3]
  BY Zenon
<1>5. QED
  BY ONLY <1>3, <1>4

(* Such a step keeps every live process its descriptor's current one.    *)
LEMMA FieldOwners ==
  ASSUME TypeOK, OwnerIsCurrent, HandleOwner, KeepsOwners(procs, procs'),
         handle' = handle
  PROVE  OwnerIsCurrent' /\ HandleOwner'
<1>1. OwnerIsCurrent'
  <2> SUFFICES ASSUME NEW p \in 1 .. Len(procs'), procs'[p].st = "alive"
               PROVE  handle'[procs'[p].svc] = p
    BY DEF OwnerIsCurrent, Alive, Pids
  <2>1. p \in 1 .. Len(procs) /\ procs'[p].svc = procs[p].svc /\ procs[p].st = "alive"
    BY DEF KeepsOwners
  <2>2. QED
    BY <2>1 DEF OwnerIsCurrent, Alive, Pids
<1>2. HandleOwner'
  <2> SUFFICES ASSUME NEW s \in Services, handle[s] # 0
               PROVE  procs'[handle[s]].svc = s
    BY DEF HandleOwner
  <2>1. handle[s] \in 1 .. Len(procs)
    BY DEF TypeOK
  <2>2. QED
    BY <2>1 DEF HandleOwner, KeepsOwners
<1>3. QED
  BY <1>1, <1>2

(* A spawn for a descriptor with no live process keeps every live process *)
(* its descriptor's current one.                                          *)
LEMMA SpawnOwners ==
  ASSUME TypeOK, OwnerIsCurrent, HandleOwner, NEW s \in Services, Spawn(s),
         handle[s] = 0 \/ ~Alive(handle[s])
  PROVE  OwnerIsCurrent' /\ HandleOwner'
  BY DEF OwnerIsCurrent, HandleOwner, Spawn, Alive, Pids, TypeOK

(* A step that leaves the process table and the handles alone keeps the  *)
(* owners.                                                                *)
LEMMA FrameOwners ==
  ASSUME OwnerIsCurrent, HandleOwner, UNCHANGED <<procs, handle>>
  PROVE  OwnerIsCurrent' /\ HandleOwner'
  BY DEF OwnerIsCurrent, HandleOwner, Alive, Pids

(* A step that leaves the main thread, the start loop, the handles and    *)
(* the caller of close_api_gracefully alone, and sets no task back to     *)
(* idle, keeps the conjuncts about the start loop and the tasks.          *)
LEMMA FrameControl ==
  ASSUME TaskHasProcess, Unstarted, StartLoopDone, StartedHaveProcess,
         UNCHANGED <<main, toStart, handle, closeCaller>>,
         \A s \in Services : task'[s] # "idle" => task[s] # "idle"
  PROVE  TaskHasProcess' /\ Unstarted' /\ StartLoopDone' /\ StartedHaveProcess'
  BY DEF TaskHasProcess, Unstarted, StartLoopDone, StartedHaveProcess, Monitoring

-----------------------------------------------------------------------------
(* A restart replaces a dead process: the finally block of join_process  *)
(* decides to restart only when the descriptor's current process is gone. *)
RestartsDead ==
  \A s \in Services : (Finally(s) /\ should_restart(s)) => ~Alive(handle[s])

(* Every step keeps the inductive invariant, provided restarts replace    *)
(* only dead processes.                                                   *)
LEMMA IInvStepIf ==
  ASSUME IInv, [Next]_vars, RestartsDead
  PROVE  IInv'
<1>0. TypeOK /\ TypeOK' /\ OwnerIsCurrent /\ HandleOwner /\ TaskHasProcess
      /\ Unstarted /\ StartLoopDone /\ StartedHaveProcess
  BY TypeStep DEF IInv
<1> DEFINE Owners == OwnerIsCurrent /\ HandleOwner
           Control == TaskHasProcess /\ Unstarted /\ StartLoopDone /\ StartedHaveProcess
<1>q. SUFFICES Owners' /\ Control'
  BY <1>0 DEF IInv
<1>1. ASSUME NEW s \in Services, StartProcess(s) PROVE Owners' /\ Control'
  <2>1. CASE Spawn(s) /\ UNCHANGED <<main, stopEvent, closeTodo, closeCaller>>
    <3>1. handle[s] = 0
      BY <1>0, <1>1 DEF Unstarted, StartProcess
    <3>2. Owners'
      BY <1>0, <2>1, <3>1, SpawnOwners
    <3>3. Control'
      BY <1>0, <1>1, <2>1
      DEF StartProcess, Spawn, TaskHasProcess, Unstarted, StartLoopDone,
          StartedHaveProcess, Monitoring, TypeOK
    <3>4. QED
      BY <3>2, <3>3
  <2>2. CASE BeginClose("launch") /\ UNCHANGED <<procs, handle>>
    <3>1. Owners'
      BY <1>0, <2>2, FrameOwners
    <3>2. Control'
      BY <1>0, <1>1, <2>2
      DEF StartProcess, BeginClose, TaskHasProcess, Unstarted, StartLoopDone,
          StartedHaveProcess, Monitoring
    <3>3. QED
      BY <3>1, <3>2
  <2>3. QED
    BY <1>1, <2>1, <2>2 DEF StartProcess
<1>2. ASSUME NEW s \in Services, Finally(s) PROVE Owners' /\ Control'
  <2>0. handle[s] \in 1 .. Len(procs) /\ UNCHANGED toStart
    BY <1>0, <1>2 DEF Finally, TaskHasProcess, TypeOK
  <2>1. CASE should_restart(s) /\ request_restart_attempt(s)
    <3>0. Restart(s)
      BY <1>2, <2>1 DEF Finally
    <3>1. ~Alive(handle[s])
      BY <1>2, <2>1 DEF RestartsDead
    <3>2. CASE Spawn(s) /\ task' = [task EXCEPT ![s] = "health"]
               /\ UNCHANGED <<main, stopEvent, closeTodo, closeCaller>>
      <4>1. Owners'
        BY <1>0, <3>1, <3>2, SpawnOwners
      <4>2. Control'
        BY <1>0, <2>0, <3>2
        DEF Spawn, TaskHasProcess, Unstarted, StartLoopDone, StartedHaveProcess,
            Monitoring, TypeOK
      <4>3. QED
        BY <4>1, <4>2
    <3>3. CASE BeginClose("launch") /\ UNCHANGED <<task, procs, handle>>
      <4>1. Owners'
        BY <1>0, <3>3, FrameOwners
      <4>2. Control'
        BY <1>0, <2>0, <3>3
        DEF BeginClose, TaskHasProcess, Unstarted, StartLoopDone,
            StartedHaveProcess, Monitoring
      <4>3. QED
        BY <4>1, <4>2
    <3>4. QED
      BY <3>0, <3>2, <3>3 DEF Restart
  <2>2. CASE ~(should_restart(s) /\ request_restart_attempt(s))
    <3>1. Finish(s)
      BY <1>2, <2>2 DEF Finally, Denied, Stopped
    <3>2. Owners'
      BY <1>0, <3>1, FrameOwners DEF Finish
    <3>3. \A t \in Services : task'[t] # "idle" => task[t] # "idle"
      <4>1. task' = [task EXCEPT ![s] = "done"] /\ task \in [Services -> TaskStates]
            /\ task[s] # "idle"
        BY <1>0, <1>2, <3>1 DEF Finish, Finally, TypeOK
      <4>2. QED
        BY <4>1
    <3>5. UNCHANGED <<main, toStart, handle, closeCaller>>
      BY <2>0, <3>1 DEF Finish
    <3>6. Control'
      BY <1>0, <3>3, <3>5, FrameControl
    <3>4. QED
      BY <3>2, <3>6
  <2>3. QED
    BY <2>1, <2>2
<1>3. ASSUME NEW s \in Services, CloseStep(s) PROVE Owners' /\ Control'
  <2>1. Owners'
    <3>1. CASE handle[s] # 0 /\ Alive(handle[s])
      <4> DEFINE q == handle[s]
      <4>1. q \in 1 .. Len(procs) /\ procs \in Seq(ProcRec)
            /\ "exited" \in ProcStates \ {"alive"} /\ FALSE \in BOOLEAN
        BY <1>0, <3>1 DEF TypeOK, ProcStates
      <4>2. \/ procs' = [procs EXCEPT ![q].st = "exited", ![q].child = FALSE]
            \/ procs' = [procs EXCEPT ![q].child = FALSE]
        BY <1>3, <3>1, Zenon DEF CloseStep, StopProcess
      <4>3. /\ KeepsOwners(procs, [procs EXCEPT ![q].st = "exited", ![q].child = FALSE])
            /\ KeepsOwners(procs, [procs EXCEPT ![q].child = FALSE])
        BY ONLY <4>1, UpdateKeepsOwners
      <4>4. KeepsOwners(procs, procs')
        BY ONLY <4>2, <4>3, Zenon
      <4>5. QED
        BY <1>0, <1>3, <4>4, FieldOwners DEF CloseStep
    <3>2. CASE ~(handle[s] # 0 /\ Alive(handle[s]))
      BY <1>0, <1>3, <3>2, FrameOwners DEF CloseStep
    <3>3. QED
      BY <3>1, <3>2
  <2>2. Control'
    BY <1>0, <1>3, FrameControl DEF CloseStep
  <2>3. QED
    BY <2>1, <2>2
<1>4. ASSUME NEW p \in Pids, ProcExit(p) \/ ChildStart(p) \/ ChildExit(p)
      PROVE  Owners' /\ Control'
  <2>1. KeepsOwners(procs, procs')
    <3>1. procs \in Seq(ProcRec) /\ p \in 1 .. Len(procs)
          /\ "exited" \in ProcStates \ {"alive"} /\ "sigkill" \in ProcStates \ {"alive"}
          /\ TRUE \in BOOLEAN /\ FALSE \in BOOLEAN
      BY <1>0 DEF TypeOK, Pids, ProcStates
    <3>2. \/ procs' = [procs EXCEPT ![p].st = "exited"]
          \/ procs' = [procs EXCEPT ![p].st = "sigkill"]
          \/ procs' = [procs EXCEPT ![p].child = TRUE]
          \/ procs' = [procs EXCEPT ![p].child = FALSE]
      BY <1>4, Zenon DEF ProcExit, ChildStart, ChildExit
    <3>3. /\ KeepsOwners(procs, [procs EXCEPT ![p].st = "exited"])
          /\ KeepsOwners(procs, [procs EXCEPT ![p].st = "sigkill"])
          /\ KeepsOwners(procs, [procs EXCEPT ![p].child = TRUE])
          /\ KeepsOwners(procs, [procs EXCEPT ![p].child = FALSE])
      BY ONLY <3>1, UpdateKeepsOwners
    <3>4. QED
      BY ONLY <3>2, <3>3, Zenon
  <2>2. UNCHANGED <<main, toStart, task, handle, closeCaller>>
    BY <1>4 DEF ProcExit, ChildStart, ChildExit
  <2>3. QED
    BY <1>0, <2>1, <2>2, FieldOwners, FrameControl
<1>5. ASSUME NEW s \in Services, HealthResult(s) \/ RestartHealth(s)
      PROVE  Owners' /\ Control'
  <2>1. UNCHANGED <<main, toStart, handle, closeCaller, procs>>
        /\ \A t \in Services : task'[t] # "idle" => task[t] # "idle"
    BY <1>0, <1>5 DEF HealthResult, RestartHealth, TypeOK
  <2>2. QED
    BY <1>0, <2>1, FrameOwners, FrameControl
<1>6. CASE FinishStarting
  <2>1. Owners'
    BY <1>0, <1>6, FrameOwners DEF FinishStarting
  <2>2. Control'
    BY <1>0, <1>6
    DEF FinishStarting, TaskHasProcess, Unstarted, StartLoopDone,
        StartedHaveProcess, Monitoring
  <2>3. QED
    BY <2>1, <2>2
<1>7. CASE BeginMonitor
  <2>1. Owners'
    BY <1>0, <1>7, FrameOwners DEF BeginMonitor
  <2>2. Control'
    BY <1>0, <1>7, ServicesAssumption
    DEF BeginMonitor, TaskHasProcess, Unstarted, StartLoopDone,
        StartedHaveProcess, Monitoring
  <2>3. QED
    BY <2>1, <2>2
<1>8. ASSUME NEW s \in Services, InterruptCaught(s) PROVE Owners' /\ Control'
  <2>1. Owners'
    BY <1>0, <1>8, FrameOwners DEF InterruptCaught
  <2>2. Control'
    BY <1>0, <1>8
    DEF InterruptCaught, BeginClose, TaskHasProcess, Unstarted, StartLoopDone,
        StartedHaveProcess, Monitoring, TypeOK
  <2>3. QED
    BY <2>1, <2>2
<1>9. CASE CloseReturn \/ GatherDone \/ Finalize \/ InterruptUncaught
  <2>1. UNCHANGED <<procs, handle, toStart>>
    BY <1>9 DEF CloseReturn, GatherDone, Finalize, InterruptUncaught
  <2>2. Owners'
    BY <1>0, <2>1, FrameOwners
  <2>3. \A t \in Services : task'[t] # "idle" => task[t] # "idle"
    BY <1>0, <1>9 DEF CloseReturn, GatherDone, Finalize, InterruptUncaught, TypeOK
  <2>4. Monitoring' => Monitoring
    BY <1>9 DEF CloseReturn, GatherDone, Finalize, InterruptUncaught, BeginClose,
                Monitoring
  <2>5. main' # "starting"
    BY <1>9 DEF CloseReturn, GatherDone, Finalize, InterruptUncaught, BeginClose
  <2>6. Control'
    BY <1>0, <2>1, <2>3, <2>4, <2>5
    DEF TaskHasProcess, Unstarted, StartLoopDone, StartedHaveProcess
  <2>7. QED
    BY <2>2, <2>6
<1>10. CASE ReconStop \/ Tick \/ UNCHANGED vars
  <2>1. UNCHANGED <<main, toStart, task, handle, closeCaller, procs>>
    BY <1>10 DEF ReconStop, Tick, vars
  <2>2. QED
    BY <1>0, <2>1, FrameOwners, FrameControl
<1>11. QED
  BY <1>1, <1>2, <1>3, <1>4, <1>5, <1>6, <1>7, <1>8, <1>9, <1>10
  DEF Next, Supervise, Environment

(* On POSIX should_restart reads the exit code -SIGKILL of the current   *)
(* process, so a restart replaces only a dead process.                    *)
LEMMA PosixRestartsDead ==
  ASSUME Posix
  PROVE  RestartsDead
BY DEF RestartsDead, should_restart, Alive

(* On POSIX every step keeps the inductive invariant.                     *)
LEMMA IInvStep ==
  ASSUME Posix
  PROVE  IInv /\ [Next]_vars => IInv'
BY PosixRestartsDead, IInvStepIf

(* The initial state satisfies the inductive invariant.                  *)
LEMMA InitIInv == Init => IInv
<1> SUFFICES ASSUME Init PROVE IInv
  OBVIOUS
<1>1. TypeOK
  BY InitType
<1>2. QED
  BY <1>1, ServicesAssumption
  DEF Init, IInv, OwnerIsCurrent, HandleOwner, TaskHasProcess, Unstarted,
      StartLoopDone, StartedHaveProcess, Monitoring, Pids

(* On POSIX no descriptor ever has two live processes (spec section 3):   *)
(* start_process is only called for a descriptor with no process, and a  *)
(* restart only after its process died of SIGKILL, so every live process *)
(* is its descriptor's current one.                                       *)
THEOREM SingleLiveOnPosix == Posix => (Spec => []SingleLiveProcess)
<1> SUFFICES ASSUME Posix PROVE Spec => []SingleLiveProcess
  OBVIOUS
<1>1. Init => IInv
  BY InitIInv
<1>2. IInv /\ [Next]_vars => IInv'
  BY IInvStep
<1>3. IInv => SingleLiveProcess
  BY DEF IInv, OwnerIsCurrent, SingleLiveProcess, TypeOK, Pids
<1>4. QED
  BY <1>1, <1>2, <1>3, PTL DEF Spec
=============================================================================
