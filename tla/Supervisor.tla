----------------------------- MODULE Supervisor -----------------------------
(***************************************************************************)
(* The process supervisor of src/mindsdb/__main__.py: the descriptors of  *)
(* the trunk processes (TrunkProcessData), the start loop, the initial    *)
(* health checks, one join_process task per needed descriptor with its    *)
(* restart decision (should_restart, request_restart_attempt),            *)
(* close_api_gracefully, the operator interrupt, the lifetime of the      *)
(* clean_process_marks thread and the interpreter's exit sequence.        *)
(*                                                                         *)
(* The OS is the environment: a live process may exit at any time with a  *)
(* clean code, an error code or SIGKILL (the OOM killer), may spawn a     *)
(* child process, and a child may exit at any time.                       *)
(***************************************************************************)
EXTENDS Integers, Sequences, FiniteSets

CONSTANTS
  Services,            \* the TrunkProcessEnum members modelled
  Needed,              \* descriptors with need_to_run = True
  Ported,              \* descriptors with a port (health-checked)
  RestartOnFailure,    \* descriptors with restart_on_failure = True
  MaxRestartCount,     \* [Services -> Nat]: max_restart_count
  MaxRestartInterval,  \* [Services -> Nat]: max_restart_interval_seconds
  Posix,               \* sys.platform in ('linux', 'darwin')
  IsCloud,             \* config.is_cloud
  Children,            \* whether a service process may spawn children
  MaxSpawns,           \* bound: processes the OS will create
  MaxTime              \* bound: last second of int(time.time())

ASSUME ServicesAssumption == Needed \subseteq Services /\ Ported \subseteq Services
                             /\ RestartOnFailure \subseteq Services
ASSUME RestartAssumption ==
  /\ MaxRestartCount \in [Services -> Nat]
  /\ MaxRestartInterval \in [Services -> Nat]
ASSUME FlagsAssumption == {Posix, IsCloud, Children} \subseteq BOOLEAN
ASSUME BoundsAssumption == MaxSpawns \in Nat /\ MaxTime \in Nat

VARIABLES
  main,        \* where the main thread is
  toStart,     \* descriptors the start loop has still to start
  health,      \* outstanding initial wait_api_start checks
  task,        \* [Services -> state of the join_process task]
  procs,       \* every OS process spawned, in pid order
  handle,      \* [Services -> index in procs of .process, 0 for None]
  hist,        \* [Services -> _restarts_time, as a set of <<pid, second>>]
  now,         \* int(time.time())
  stopEvent,   \* _stop_event
  atexitReg,   \* close_api_gracefully registered with atexit
  closeTodo,   \* descriptors close_api_gracefully has still to visit
  closeCaller, \* who called close_api_gracefully
  recon,       \* the clean_process_marks thread
  interrupted, \* the operator's KeyboardInterrupt has been raised
  restarts     \* history: the restart attempts that were admitted

vars == <<main, toStart, health, task, procs, handle, hist, now, stopEvent,
          atexitReg, closeTodo, closeCaller, recon, interrupted, restarts>>

MainStates == {"starting", "health", "monitor", "closing", "finalizing", "exited"}
TaskStates == {"idle", "watch", "caught", "finally", "health", "done"}
(* "alive", or how the process ended: -SIGKILL (the OOM killer), or any   *)
(* other exit code (0, an error, -SIGTERM from process.terminate()): the  *)
(* code only ever compares process.exitcode with -SIGKILL.                *)
ProcStates == {"alive", "sigkill", "exited"}
ProcRec == [svc : Services, st : ProcStates, child : BOOLEAN]
Callers == {"none", "launch", "interrupt", "atexit"}

Pids == 1 .. Len(procs)
Alive(p) == procs[p].st = "alive"

-----------------------------------------------------------------------------
(* A variant of should_restart that ignores the exit code on every OS.    *)
should_restart_anyexit(s) ==
  /\ ~IsCloud
  /\ s \in RestartOnFailure
  /\ MaxRestartCount[s] # 0

(* TrunkProcessData.should_restart, read after the process left the join  *)
(* loop (process.exitcode is that of the descriptor's current process).   *)
should_restart(s) ==
  /\ ~IsCloud
  /\ s \in RestartOnFailure
  /\ IF Posix THEN procs[handle[s]].st = "sigkill"
              ELSE MaxRestartCount[s] # 0

(* The filtered _restarts_time after appending the current second.        *)
InWindowStrict(s, e) == e[2] > now - MaxRestartInterval[s]
InWindow(s, e) == e[2] >= now - MaxRestartInterval[s]
NewHist(s) ==
  LET h == hist[s] \cup {<<handle[s], now>>}
  IN  IF MaxRestartInterval[s] > 0 THEN {e \in h : InWindow(s, e)} ELSE h

(* TrunkProcessData.request_restart_attempt: the verdict and new history. *)
request_restart_attempt(s) ==
  MaxRestartCount[s] = 0 \/ Cardinality(NewHist(s)) <= MaxRestartCount[s]
RecordAttempt(s) ==
  hist' = IF MaxRestartCount[s] = 0 THEN hist
          ELSE [hist EXCEPT ![s] = NewHist(s)]

(* ctx.Process(...).start() succeeds: a new process becomes .process.     *)
Spawn(s) ==
  /\ Len(procs) < MaxSpawns
  /\ procs' = Append(procs, [svc |-> s, st |-> "alive", child |-> FALSE])
  /\ handle' = [handle EXCEPT ![s] = Len(procs) + 1]

(* close_api_gracefully is entered: it sets _stop_event and walks every   *)
(* descriptor.                                                            *)
BeginClose(caller) ==
  /\ main' = "closing"
  /\ stopEvent' = TRUE
  /\ closeTodo' = Services
  /\ closeCaller' = caller

-----------------------------------------------------------------------------
Init ==
  /\ main = "starting"
  /\ toStart = Needed
  /\ health = {}
  /\ task = [s \in Services |-> "idle"]
  /\ procs = << >>
  /\ handle = [s \in Services |-> 0]
  /\ hist = [s \in Services |-> {}]
  /\ now = 0
  /\ stopEvent = FALSE
  /\ atexitReg = FALSE
  /\ closeTodo = {}
  /\ closeCaller = "none"
  /\ recon = "none"
  /\ interrupted = FALSE
  /\ restarts = [s \in Services |-> {}]

(* The start loop calls start_process for a needed descriptor; the spawn  *)
(* succeeds, or fails and close_api_gracefully runs before the raise.     *)
StartProcess(s) ==
  /\ main = "starting"
  /\ s \in toStart
  /\ toStart' = toStart \ {s}
  /\ \/ /\ Spawn(s)
        /\ UNCHANGED <<main, stopEvent, closeTodo, closeCaller>>
     \/ /\ BeginClose("launch")
        /\ UNCHANGED <<procs, handle>>
  /\ UNCHANGED <<health, task, hist, now, atexitReg, recon, interrupted, restarts>>

(* The loop is done: atexit.register, then wait_apis_start is entered.    *)
FinishStarting ==
  /\ main = "starting"
  /\ toStart = {}
  /\ main' = "health"
  /\ atexitReg' = TRUE
  /\ health' = Needed \cap Ported
  /\ UNCHANGED <<toStart, task, procs, handle, hist, now, stopEvent, closeTodo,
                 closeCaller, recon, interrupted, restarts>>

(* One wait_api_start future completes (started or timed out: only logged).*)
HealthResult(s) ==
  /\ main = "health"
  /\ s \in health
  /\ health' = health \ {s}
  /\ UNCHANGED <<main, toStart, task, procs, handle, hist, now, stopEvent,
                 atexitReg, closeTodo, closeCaller, recon, interrupted, restarts>>

(* The clean_process_marks thread is started, then gather_apis runs one   *)
(* join_process task per needed descriptor.                               *)
BeginMonitor ==
  /\ main = "health"
  /\ health = {}
  /\ main' = "monitor"
  /\ recon' = "waiting"
  /\ task' = [s \in Services |-> IF s \in Needed THEN "watch" ELSE "idle"]
  /\ UNCHANGED <<toStart, health, procs, handle, hist, now, stopEvent,
                 atexitReg, closeTodo, closeCaller, interrupted, restarts>>

(* finish = True: the task ends, logging "stopped" or "could not restart".*)
Finish(s) ==
  /\ task' = [task EXCEPT ![s] = "done"]
  /\ UNCHANGED <<main, procs, handle, stopEvent, closeTodo, closeCaller, restarts>>

(* should_restart is False: the process stopped, the task finishes.       *)
Stopped(s) == Finish(s) /\ UNCHANGED hist

(* A variant of Denied that forgets finish = True.                        *)
DeniedNoFinish(s) ==
  UNCHANGED <<task, main, procs, handle, stopEvent, closeTodo, closeCaller, restarts>>

(* request_restart_attempt returned False: no further attempts.           *)
Denied(s) == Finish(s)

(* A variant of Restart that goes back to watching the new process       *)
(* without awaiting wait_api_start.                                        *)
RestartNoAwait(s) ==
  /\ restarts' = [restarts EXCEPT ![s] = @ \cup {<<handle[s], now>>}]
  /\ \/ /\ Spawn(s)
        /\ UNCHANGED <<task, main, stopEvent, closeTodo, closeCaller>>
     \/ /\ BeginClose("launch")
        /\ UNCHANGED <<task, procs, handle>>

(* The attempt is admitted: .process = None, start_process is called (for *)
(* the HTTP API with no_studio forced on), and wait_api_start is awaited; *)
(* if the spawn fails, close_api_gracefully runs and the error is raised. *)
Restart(s) ==
  /\ restarts' = [restarts EXCEPT ![s] = @ \cup {<<handle[s], now>>}]
  /\ \/ /\ Spawn(s)
        /\ task' = [task EXCEPT ![s] = "health"]
        /\ UNCHANGED <<main, stopEvent, closeTodo, closeCaller>>
     \/ /\ BeginClose("launch")
        /\ UNCHANGED <<task, procs, handle>>

(* The finally block of join_process, reached when the process is no      *)
(* longer alive or after the interrupt handler returned.                  *)
Finally(s) ==
  /\ main = "monitor"
  /\ \/ task[s] = "watch" /\ ~Alive(handle[s])
     \/ task[s] = "finally"
  /\ IF should_restart(s)
     THEN /\ RecordAttempt(s)
          /\ IF request_restart_attempt(s) THEN Restart(s) ELSE Denied(s)
     ELSE Stopped(s)
  /\ UNCHANGED <<toStart, health, now, atexitReg, recon, interrupted>>

(* The await of wait_api_start after a restart returns.                   *)
RestartHealth(s) ==
  /\ main = "monitor"
  /\ task[s] = "health"
  /\ task' = [task EXCEPT ![s] = "watch"]
  /\ UNCHANGED <<main, toStart, health, procs, handle, hist, now, stopEvent,
                 atexitReg, closeTodo, closeCaller, recon, interrupted, restarts>>

(* KeyboardInterrupt raised in process.join(1) of a task whose process is *)
(* alive: the except clause calls close_api_gracefully.                   *)
InterruptCaught(s) ==
  /\ ~interrupted
  /\ main = "monitor"
  /\ task[s] = "watch"
  /\ Alive(handle[s])
  /\ interrupted' = TRUE
  /\ task' = [task EXCEPT ![s] = "caught"]
  /\ BeginClose("interrupt")
  /\ UNCHANGED <<toStart, health, procs, handle, hist, now, atexitReg, recon,
                 restarts>>

(* KeyboardInterrupt raised outside that try: in wait_apis_start or in    *)
(* the await of a restart's wait_api_start. It escapes run_until_complete *)
(* and the main thread ends.                                              *)
InterruptUncaught ==
  /\ ~interrupted
  /\ \/ main = "health"
     \/ main = "monitor" /\ \E s \in Services : task[s] = "health"
  /\ interrupted' = TRUE
  /\ main' = "finalizing"
  /\ UNCHANGED <<toStart, health, task, procs, handle, hist, now, stopEvent,
                 atexitReg, closeTodo, closeCaller, recon, restarts>>

(* A variant of StopProcess that signals the children but never calls    *)
(* process.terminate().                                                    *)
SignalChildrenOnly(p) == procs' = [procs EXCEPT ![p].child = FALSE]

(* SIGTERM to each child, then process.terminate() and process.join().    *)
StopProcess(p) == procs' = [procs EXCEPT ![p].st = "exited", ![p].child = FALSE]

(* close_api_gracefully visits one descriptor. A live process has its     *)
(* children signalled, then is terminated and joined. If a child exits    *)
(* between get_child_pids and its kill, the kill raises NoSuchProcess and *)
(* the except clause skips terminate() and join() of the process.         *)
CloseStep(s) ==
  /\ main = "closing"
  /\ s \in closeTodo
  /\ closeTodo' = closeTodo \ {s}
  /\ LET p == handle[s] IN
     IF p # 0 /\ Alive(p)
     THEN \/ StopProcess(p)
          \/ /\ procs[p].child
             /\ procs' = [procs EXCEPT ![p].child = FALSE]
     ELSE UNCHANGED procs
  /\ UNCHANGED <<main, toStart, health, task, handle, hist, now, stopEvent,
                 atexitReg, closeCaller, recon, interrupted, restarts>>

(* close_api_gracefully returns to its caller: start_process re-raises,   *)
(* the interrupted task goes on to its finally block, atexit is done.     *)
CloseReturn ==
  /\ main = "closing"
  /\ closeTodo = {}
  /\ \/ closeCaller = "launch"    /\ main' = "finalizing"
     \/ closeCaller = "interrupt" /\ main' = "monitor"
     \/ closeCaller = "atexit"    /\ main' = "exited"
  /\ task' = [s \in Services |-> IF task[s] = "caught" THEN "finally" ELSE task[s]]
  /\ closeCaller' = "none"
  /\ UNCHANGED <<toStart, health, procs, handle, hist, now, stopEvent, atexitReg,
                 closeTodo, recon, interrupted, restarts>>

(* asyncio.gather returns once every join_process task has finished.      *)
GatherDone ==
  /\ main = "monitor"
  /\ \A s \in Needed : task[s] = "done"
  /\ main' = "finalizing"
  /\ UNCHANGED <<toStart, health, task, procs, handle, hist, now, stopEvent,
                 atexitReg, closeTodo, closeCaller, recon, interrupted, restarts>>

(* The interpreter exits: it first joins the non-daemon threads, then     *)
(* runs the atexit handlers.                                              *)
Finalize ==
  /\ main = "finalizing"
  /\ recon \in {"none", "stopped"}
  /\ IF atexitReg
     THEN /\ BeginClose("atexit")
          /\ atexitReg' = FALSE
     ELSE /\ main' = "exited"
          /\ UNCHANGED <<stopEvent, closeTodo, closeCaller, atexitReg>>
  /\ UNCHANGED <<toStart, health, task, procs, handle, hist, now, recon,
                 interrupted, restarts>>

(* do_clean_process_marks: _stop_event.wait(timeout=5) returns True.      *)
ReconStop ==
  /\ recon = "waiting"
  /\ stopEvent
  /\ recon' = "stopped"
  /\ UNCHANGED <<main, toStart, health, task, procs, handle, hist, now,
                 stopEvent, atexitReg, closeTodo, closeCaller, interrupted, restarts>>

-----------------------------------------------------------------------------
(* The environment: the OS and the services' own code.                    *)
ProcExit(p) ==
  /\ Alive(p)
  /\ \E code \in {"exited", "sigkill"} :
        procs' = [procs EXCEPT ![p].st = code]
  /\ UNCHANGED <<main, toStart, health, task, handle, hist, now, stopEvent,
                 atexitReg, closeTodo, closeCaller, recon, interrupted, restarts>>

ChildStart(p) ==
  /\ Children
  /\ Alive(p)
  /\ ~procs[p].child
  /\ procs' = [procs EXCEPT ![p].child = TRUE]
  /\ UNCHANGED <<main, toStart, health, task, handle, hist, now, stopEvent,
                 atexitReg, closeTodo, closeCaller, recon, interrupted, restarts>>

ChildExit(p) ==
  /\ procs[p].child
  /\ procs' = [procs EXCEPT ![p].child = FALSE]
  /\ UNCHANGED <<main, toStart, health, task, handle, hist, now, stopEvent,
                 atexitReg, closeTodo, closeCaller, recon, interrupted, restarts>>

Tick ==
  /\ now < MaxTime
  /\ now' = now + 1
  /\ UNCHANGED <<main, toStart, health, task, procs, handle, hist, stopEvent,
                 atexitReg, closeTodo, closeCaller, recon, interrupted, restarts>>

-----------------------------------------------------------------------------
Supervise ==
  \/ \E s \in Services : StartProcess(s) \/ HealthResult(s) \/ Finally(s)
                         \/ RestartHealth(s) \/ CloseStep(s)
  \/ FinishStarting \/ BeginMonitor \/ CloseReturn \/ GatherDone \/ Finalize
  \/ ReconStop

Environment ==
  \/ \E p \in Pids : ProcExit(p) \/ ChildStart(p) \/ ChildExit(p)
  \/ \E s \in Services : InterruptCaught(s)
  \/ InterruptUncaught
  \/ Tick

Next == Supervise \/ Environment

(* The event loop runs every runnable task and the OS schedules the       *)
(* thread; the OS, its children and the operator owe nothing.             *)
Fairness ==
  /\ \A s \in Services : /\ WF_vars(StartProcess(s)) /\ WF_vars(HealthResult(s))
                         /\ WF_vars(Finally(s)) /\ WF_vars(RestartHealth(s))
                         /\ WF_vars(CloseStep(s))
  /\ WF_vars(FinishStarting) /\ WF_vars(BeginMonitor) /\ WF_vars(CloseReturn)
  /\ WF_vars(GatherDone) /\ WF_vars(Finalize) /\ WF_vars(ReconStop)

Spec == Init /\ [][Next]_vars
FairSpec == Spec /\ Fairness

-----------------------------------------------------------------------------
TypeOK ==
  /\ main \in MainStates
  /\ toStart \subseteq Services
  /\ health \subseteq Services
  /\ task \in [Services -> TaskStates]
  /\ procs \in Seq(ProcRec)
  /\ handle \in [Services -> 0 .. Len(procs)]
  /\ hist \in [Services -> SUBSET (Nat \X Int)]
  /\ now \in Nat
  /\ stopEvent \in BOOLEAN
  /\ atexitReg \in BOOLEAN
  /\ closeTodo \subseteq Services
  /\ closeCaller \in Callers
  /\ recon \in {"none", "waiting", "stopped"}
  /\ interrupted \in BOOLEAN
  /\ restarts \in [Services -> SUBSET (Nat \X Int)]

(* At most one process of a descriptor is alive at a time (spec section  *)
(* 3): join_process never starts a replacement while the descriptor's    *)
(* previous process still runs.                                          *)
SingleLiveProcess ==
  \A p, q \in Pids :
    (procs[p].svc = procs[q].svc /\ Alive(p) /\ Alive(q)) => p = q

(* request_restart_attempt rate-limits restarts: in every window of       *)
(* max_restart_interval_seconds + 1 whole seconds ending at any second,   *)
(* at most max_restart_count restarts of a descriptor are admitted (ever, *)
(* when the interval is 0).                                               *)
RestartRateLimit ==
  \A s \in Services :
    MaxRestartCount[s] > 0 =>
      IF MaxRestartInterval[s] > 0
      THEN \A t \in 0 .. now :
             Cardinality({r \in restarts[s] :
                            r[2] \in t - MaxRestartInterval[s] .. t})
               <= MaxRestartCount[s]
      ELSE Cardinality(restarts[s]) <= MaxRestartCount[s]

(* When close_api_gracefully returns, no process of the fleet is alive    *)
(* (spec 4.5: it stops every managed service).                            *)
ShutdownStopsFleet ==
  [][(main = "closing" /\ main' # "closing") => \A p \in Pids : ~Alive(p)']_vars

(* Once _stop_event is set, no service process is started again (spec    *)
(* 4.4 and 5: an interrupt bypasses the restart logic, in-flight restarts *)
(* are abandoned).                                                        *)
NoSpawnAfterStop ==
  [][stopEvent => Len(procs') = Len(procs)]_vars

(* A task whose process has exited eventually decides: it restarts the    *)
(* process or finishes, unless the supervisor is already going down.      *)
ExitIsHandled ==
  \A s \in Services :
    (main = "monitor" /\ task[s] = "watch" /\ ~Alive(handle[s]))
      ~> (task[s] \in {"health", "done"} \/ main \in {"finalizing", "exited"})

(* Once every join_process task has finished, the supervisor exits.       *)
SupervisorExits ==
  (main = "monitor" /\ \A s \in Needed : task[s] = "done") ~> (main = "exited")

-----------------------------------------------------------------------------
(* The refinement mapping onto ServiceLifecycle: a descriptor is stopped  *)
(* once its task has finished, restarting while its task awaits the       *)
(* health check of a restart, and otherwise idle, running or exited as    *)
(* its current .process is None, alive or dead.                           *)
Phase ==
  [s \in Services |->
     IF task[s] = "done" THEN "stopped"
     ELSE IF task[s] = "health" THEN "restarting"
     ELSE IF handle[s] = 0 THEN "idle"
     ELSE IF Alive(handle[s]) THEN "running"
     ELSE "exited"]

LC == INSTANCE ServiceLifecycle WITH phase <- Phase, stopping <- stopEvent

(* Every behaviour of the supervisor is one of ServiceLifecycle: no       *)
(* launch after shutdown began, a replacement only after the current      *)
(* process ended, "stopped" terminal, and a running service only given   *)
(* up during shutdown (join_process and close_api_gracefully together).  *)
LifecycleRefined == LC!Spec
=============================================================================
