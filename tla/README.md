# Formal model of the MindsDB process supervisor

This directory holds TLA+ models of `src/mindsdb/__main__.py`, the entry point
that starts the MindsDB API services as separate OS processes. It watches them,
restarts them after an out-of-memory kill, shuts them down, and runs a
background thread that repairs the records of orphaned training processes. It
also holds TLC configurations that model-check those models on small
instances, and TLAPS proofs, for every instance, of every safety property a passing run checks and of a
refinement of the supervisor onto an abstract per-service lifecycle.

## The system

Parts of the program, and the lines where they live:

| Part | Code | What it does |
|---|---|---|
| Service descriptors | `TrunkProcessEnum`, `TrunkProcessData` (53-83), `trunc_processes_struct` (391-467) | One record per API service: `need_to_run`, `port`, `.process`, `restart_on_failure`, `max_restart_count`, `max_restart_interval_seconds`, `_restarts_time` |
| Restart policy | `should_restart` (106-123), `request_restart_attempt` (85-104) | Whether a dead service may be restarted. On Linux and macOS it restarts only after SIGKILL (the OOM killer); elsewhere it restarts whatever the exit code, provided the count is non-zero. A sliding window of restart seconds does the rate limiting |
| Launcher | `start_process` (469-485), start loop (487-490) | Spawns a process. If the spawn fails it calls `close_api_gracefully` and re-raises |
| Health gate | `wait_api_start`, `wait_apis_start` (494-518) | Polls for the port for up to 60 s. The result is only logged |
| Watch loop | `join_process`, `gather_apis` (520-567) | One asyncio task per needed service. It joins the process, catches `KeyboardInterrupt`, and in `finally` restarts the process or finishes |
| Shutdown | `close_api_gracefully` (126-147), `_stop_event`, `atexit.register` (492) | Sets the stop event, sends SIGTERM to each service's children, then terminates and joins the service |
| Orphan reconciler | `do_clean_process_marks` (206-212), `set_error_model_status_*` (150-203), startup sweep (349-353) | A non-daemon thread. Every 5 s it deletes process marks of dead pids and sets their models to error |
| Startup | 215-386 | Platform checks, environment, migrations, default project, handler installation, outdated predictors |

How the parts interact:

- **Three actors share the descriptors.** The event loop runs the watch tasks, one at a time. The operating system kills processes at any moment. The operator sends `KeyboardInterrupt`.
- **The interrupt.** It is caught only while a task is inside `process.join(1)`. Raised elsewhere, for example during a health check, it escapes `run_until_complete`.
- **`close_api_gracefully` has three callers:**
  - a failed spawn;
  - the interrupt handler;
  - `atexit`.
- **Interpreter exit.** The interpreter joins non-daemon threads *before* it runs `atexit` handlers.

## Modules

### `Supervisor.tla`

This module models the lifecycle engine: the descriptors, launcher, health gate, watch loop, restart policy, shutdown and the reconciler thread's lifetime.

Constants:

| Constant | What it is |
|---|---|
| `Services` | the descriptors |
| `Needed` | `need_to_run` |
| `Ported` | `port` is not None |
| `RestartOnFailure` | `restart_on_failure` |
| `MaxRestartCount`, `MaxRestartInterval` | functions over `Services` |
| `Posix` | the `sys.platform` test |
| `IsCloud` | the cloud flag |
| `Children` | whether services spawn children |
| `MaxSpawns`, `MaxTime` | the model's two bounds |

State:

| Variable | What it is |
|---|---|
| `main` | where the main thread is: start loop, `wait_apis_start`, `gather_apis`, inside `close_api_gracefully`, interpreter finalization, exited |
| `task[s]` | the `join_process` task: idle, watching, caught the interrupt, entering `finally`, awaiting a restart's health check, done |
| `procs` | every OS process ever spawned, in pid order, with its state (alive, killed by SIGKILL, exited otherwise) and whether it has a child |
| `handle[s]` | `.process` as an index into `procs` (0 is None) |
| `hist[s]` | `_restarts_time`, kept as pairs of a pid and a second so that two attempts in one second stay distinct |
| `now` | `int(time.time())` |
| `stopEvent` | `_stop_event` |
| `atexitReg` | whether the `atexit` handler is registered |
| `closeTodo` | the descriptors `close_api_gracefully` has still to visit |
| `closeCaller` | who called it |
| `recon` | the reconciler thread |
| `interrupted` | whether the operator has interrupted |
| `restarts` | a history variable holding the admitted attempts |

Actions, one per step of the code:

| Action | Code |
|---|---|
| `StartProcess` | a loop iteration with `start_process`: the spawn succeeds, or fails and closes |
| `FinishStarting` | the loop ends and `atexit.register` runs |
| `HealthResult` | one future of `wait_apis_start` completes |
| `BeginMonitor` | the reconciler thread starts and `gather_apis` begins |
| `Finally` | the whole `finally` block: `should_restart`, `request_restart_attempt` with its history update, and then `Restart` (spawn, or close and raise), `Denied` or `Stopped` |
| `RestartHealth` | the awaited `wait_api_start` of a restart returns |
| `InterruptCaught` | the `except KeyboardInterrupt` clause |
| `InterruptUncaught` | the interrupt raised outside that clause |
| `CloseStep` | one descriptor of `close_api_gracefully`. Children are signalled, then the process is terminated and joined (`StopProcess`). Alternatively, NoSuchProcess from a child that exited in between skips the terminate and join |
| `CloseReturn` | the loop over the descriptors (129) ends and the function returns to its caller |
| `GatherDone` | `asyncio.gather` returns |
| `Finalize` | the interpreter waits for the reconciler thread, then runs `atexit` |
| `ReconStop` | `_stop_event.wait` returns True |

The OS is the environment:

| Action | What it models |
|---|---|
| `ProcExit` | an exit with SIGKILL or another code |
| `ChildStart`, `ChildExit` | a service's child process starting or exiting |
| `Tick` | a clock second |

Some detail is abstracted away:

- Names, entrypoints, args, ports and log messages are left out.
- A health check completes in one step, whether it started or timed out, because both outcomes are only logged.
- A second interrupt inside `close_api_gracefully` (its `sys.exit(0)` clause, 146-147) is not modelled: the operator interrupts once.
- Exit codes other than -SIGKILL are merged, because the code compares `exitcode` only with -SIGKILL.

### `MCSupervisor.tla`

This module fixes two descriptors:

- `http`: it has a port, `max_restart_count = 1` and `max_restart_interval_seconds = 1`.
- `mysql`: it has a port, `max_restart_count = 2` and interval 0, which means a lifetime limit.

Both are needed and both restart on failure. In `trunc_processes_struct` only the HTTP, MySQL and MCP APIs can have `restart_on_failure`, and all three have a port. The platform, the cloud flag, children and the bounds are set per cfg.

### `SupervisorProofs.tla`, `LifecycleProofs.tla`, `RateLimitProofs.tla`, `ShutdownProofs.tla`, `ReconcilerProofs.tla`

These modules hold the TLAPS proofs (see below).

### `ServiceLifecycle.tla`: the abstract lifecycle

This is what the supervisor promises about each service (spec section 4.4), with no processes, clocks or tasks. Each service has a `phase`:

- `idle`, `running`, `exited`, `restarting` (a restart's health check is awaited) or `stopped`;
- and there is one `stopping` flag.

Its actions:

| Action | Guard | Effect |
|---|---|---|
| `Launch` | not stopping, and the service is idle | running |
| `Exit` | running | exited |
| `Relaunch` | exited | restarting |
| `Ready` | restarting | running or exited |
| `Stop` | exited, or running once the fleet is stopping | stopped |
| `Shutdown` | not stopping | sets `stopping` |

`Supervisor.tla` defines the refinement mapping:

- `Phase` maps each descriptor's state to a phase:
  - `stopped` once its task is done;
  - `restarting` while the task awaits the health check;
  - `idle` while it has no process;
  - otherwise `running` or `exited`, by whether its current process lives.
- `stopping` is `_stop_event`.
- `LifecycleRefined == LC!Spec` with `LC == INSTANCE ServiceLifecycle WITH phase <- Phase, stopping <- stopEvent`.

The mapping shows what the code never does:

- launch a service twice;
- relaunch a running service;
- leave the restarting state without the awaited health check;
- give a service up while its process runs, except during shutdown.

### `Reconciler.tla`: the repair of orphaned training records

This module models the boot repair (349-353, 386) and the loop of the `clean_process_marks` thread (206-212). The two repair functions are modelled down to their per-record commits (150-203).

A job stands for one training run and has three pieces of state:

- `status[j]`: its record's status, with `none` for no record;
- `alive[j]`: its worker process exists;
- `mark[j]`: the worker's process mark exists.

The repair side has these variables:

| Variable | What it is |
|---|---|
| `at` | where the boot or the thread is |
| `orphans` | `unexisting_pids` |
| `todo` | the records of the query not yet visited |
| `stop` | `_stop_event` |

The actions:

| Action | Code |
|---|---|
| `BootSweep` | the boot's `clean_unlinked_process_marks` and its `is_cloud` and `len > 0` tests |
| `Query` | the query that opens both repair functions |
| `set_error_model_status_by_pids(j)` | one iteration of its loop. It writes `error` only if the pid is orphaned, but whatever the status is by then |
| `set_error_model_status_for_unfinished(j)` | one iteration: it writes `error` unconditionally |
| `PidsDone`, `UnfinishedDone` | the loops end |
| `clean_process_marks` | line 386: every mark is deleted, then the thread starts |
| `do_clean_process_marks` | one tick |
| `ThreadStop` | the wait returns True |
| `ThreadFail` | a raise in the clean, the query or a commit. Nothing catches it, so the thread ends |

The environment is `SetStop`, the operator's shutdown, and the training workers:

- `WorkerStart`: writes the record and the mark;
- `WorkerComplete`: writes `complete`;
- `WorkerExit`: deletes the mark and exits;
- `WorkerCrash`: the mark stays.

The worker actions and `clean_unlinked_process_marks` live outside `src/` (`mindsdb.utilities.fs` and the ML task queue). They follow spec sections 3 and 4.6.

The initial state is anything a previous run can leave, given by `Leftover`. With `Survivors = TRUE`, that includes a worker still training.

The data is abstracted:

- the error message (`data['error']`) is left out;
- pids are identified with jobs, so pid reuse is not modelled.

## Runs

| Run | cfg | Properties | Result |
|---|---|---|---|
| posix_safety | `MCSupervisor_posix.cfg` | `SingleLiveProcess`, `RestartRateLimit` | pass (about 1.8 M distinct states) |
| posix_live | `MCSupervisor_live.cfg` | `ExitIsHandled`, `ShutdownStopsFleet` | pass |
| windows_double_process | `MCSupervisor_windows.cfg` | `SingleLiveProcess` | violation |
| child_race | `MCSupervisor_childrace.cfg` | `ShutdownStopsFleet` | violation |
| oom_during_shutdown | `MCSupervisor_oomrace.cfg` | `NoSpawnAfterStop` | violation |
| exit_hang | `MCSupervisor_hang.cfg` | `SupervisorExits` | violation |
| reconciler_safety | `MCReconciler_safety.cfg` | `NoCompleteOverwritten` | pass (12 k states) |
| reconciler_live | `MCReconciler_live.cfg` | `OrphansRepaired` | pass |
| reconciler_thread_death | `MCReconciler_death.cfg` | `OrphansRepaired` | violation |
| reconciler_boot_overwrite | `MCReconciler_survivor.cfg` | `NoCompleteOverwritten` | violation |

posix_safety also checks `LifecycleRefined`.

### The properties

- **`SingleLiveProcess`** (spec section 3): no descriptor has two live processes.
  - Breaking it takes an interrupt, a close that skips a live process, and a restart decision that ignores the exit code.
- **`RestartRateLimit`** (spec sections 4.1 and 8): the restarts admitted in any window of `max_restart_interval_seconds + 1` seconds, or ever when the interval is 0, never exceed `max_restart_count`.
  - It is stated over the history of admitted attempts, not over `_restarts_time` itself. That makes it a check of the filtering in `request_restart_attempt` across many crash and restart cycles and clock ticks.
- **`ShutdownStopsFleet`**: when `close_api_gracefully` returns, no service process is alive. It is an action property.
- **`NoSpawnAfterStop`** (spec sections 4.4 and 5): after `_stop_event` is set, no process is spawned.
- **`ExitIsHandled`**: a task whose process died eventually restarts it or finishes, unless the main thread is already going down. It is a liveness property.
- **`SupervisorExits`**: once every task has finished, the program exits. It is a liveness property.
- **`LifecycleRefined`**: every behaviour of the supervisor is a behaviour of `ServiceLifecycle` under `Phase`.
- **`NoCompleteOverwritten`** (spec section 5): a `complete` record is never set back. Both repair loops write from a snapshot, so the question is whether a worker's `complete` can land between a query and a commit.
  - In the thread's loop this cannot happen: only pids already found dead are written.
  - At boot it can, if a worker survived the previous supervisor.
- **`OrphansRepaired`** (spec sections 4.6 and 7): the record of a worker that died in training eventually becomes `error`, unless shutdown stops the thread first.

### What the violations show

The details are under `findings` in `PROJECT.json`.

- **oom_during_shutdown.** A service killed by the OOM killer while another task handles the interrupt is restarted after shutdown began. `finally` never looks at `_stop_event`.
- **child_race.** A child exiting between `get_child_pids` and its kill makes `p.kill()` raise NoSuchProcess. That skips `terminate()` and `join()` of the service itself.
- **windows_double_process.** On platforms other than Linux and macOS, the `finally` after the interrupt then restarts that still-running service. Two live processes result.
- **exit_hang.** After all tasks finish, the interpreter waits forever for the reconciler thread. Only the `atexit` handler would set `_stop_event`, and it runs after that wait. An interrupt during a health check leads to the same wait.
- **reconciler_thread_death.** `do_clean_process_marks` has no `try`. One raise ends the thread, and a worker that crashes later stays in training until the next boot. Spec section 7 says such failures are retried on the next tick. A raise after `clean_unlinked_process_marks` has deleted the marks would lose those orphans even with a retry.
- **reconciler_boot_overwrite.** `set_error_model_status_for_unfinished` writes `error` to every record of its query without rereading it. A surviving worker's `complete` committed in between is overwritten.

### The live run

The live run sets `Children = FALSE`. Otherwise `ShutdownStopsFleet` fails through the child race, which the child_race run already shows.

### Bounds

The two bounds are `MaxSpawns` (processes the OS will create) and `MaxTime` (the last clock second).

- **posix_safety** uses `MaxSpawns = 4` and `MaxTime = 2`. This allows two initial processes and two restarts, so `mysql` can use up its lifetime limit of 2 and `http` can be restarted twice across different seconds. That exercises both the denial at `count + 1` inside the window and the admission once an attempt has left the window.
- **The violation runs** need only 3 processes and 1 second.
- **reconciler_safety** uses three jobs. One boot leftover can be a crashed trainer, so the boot repair has work to do. The other two can start, complete and crash during the thread's ticks, so a snapshot can hold a live worker's record while another's pid is found dead.
- **reconciler_live** uses two jobs.
- **The reconciler violations** need one or two jobs.

With `MaxSpawns` reached, the spawn cannot happen. The model then takes the failed-spawn path, `close_api_gracefully` and raise, which is a real path of the code.

### Fairness

`FairSpec` assumes weak fairness for every supervisor action. This is justified for three reasons:

- The asyncio event loop runs every ready task: each task yields with `await asyncio.sleep(0)` inside its join loop.
- The main thread and the reconciler thread are scheduled by the OS.
- `close_api_gracefully` and the interpreter's exit sequence are straight-line code.

In `Reconciler`, `FairSpec` gives weak fairness to the boot steps and the thread's steps: the 5 s wait always times out. It gives none to workers, faults or shutdown.

The environment gets no fairness. A process need not exit, the operator need not interrupt, and the clock need not advance. Every run says `CHECK_DEADLOCK FALSE` because the program really does stop: `main = "exited"` is a final state.

## Proofs

`SupervisorProofs.tla` is checked by `tlapm` to the last obligation.

- **`TypeCorrect`: `Spec => []TypeOK`.** It rests on `InitType` and `TypeStep`, and on these lemmas about the process table:
  - `ProcUpdate` and `ProcStUpdate`: a record update stays in `Seq(ProcRec)` and keeps its length;
  - `SpawnType`: a spawn keeps the handles inside the table.
- **`SingleLiveOnPosix`: `Posix => (Spec => []SingleLiveProcess)`.** It holds for every set of descriptors, every restart limit and every bound.
  - `SingleLiveProcess` is not inductive. The proof uses the inductive invariant `IInv`, which was checked first with TLC as an invariant of the posix run. `IInv` is `TypeOK` and the following:
    - `OwnerIsCurrent`: every live process is its descriptor's current `.process`. This is the key conjunct, and it yields `SingleLiveProcess` at once.
    - `HandleOwner`: a handle points at a process of its own descriptor.
    - `TaskHasProcess`: a running task has a process.
    - `Unstarted`, `StartLoopDone` and `StartedHaveProcess`: the start loop spawns only descriptors with no process, and it has spawned every needed one before the tasks start.
  - The step lemma `IInvStepIf` has one case per action. It assumes `RestartsDead`: when the `finally` block decides to restart, the current process is not alive.
  - The two spawns are the only steps that need an argument. The start loop spawns only descriptors with `handle = 0`, by `Unstarted`. A restart replaces a dead process, by `RestartsDead`.
  - `PosixRestartsDead` proves `RestartsDead` on POSIX: there `should_restart` holds only if the current process died of SIGKILL. `IInvStep` combines the two.
  - Every other step either leaves `procs` and the handles alone (`FrameOwners`) or rewrites a record in place without reviving a process (`UpdateKeepsOwners`, `FieldOwners`).
  - The windows_double_process run shows that the `Posix` hypothesis is needed when services have children. `ShutdownProofs` removes it when they have none.

- **`LifecycleRefinement`: `Posix => (Spec => LifecycleRefined)`** (`LifecycleProofs.tla`). This follows the usual refinement argument:
  - `Init` maps to `LC!Init`;
  - every step of `Next`, under an invariant, maps to a step of `LC!Next` or a stutter of `<<Phase, stopEvent>>`.
  - The invariant is `LInv`, which is `IInv` and two more conjuncts:
    - `StartingQuiet`: while the start loop and the health gate run, `_stop_event` is unset during the loop and every task is idle. It is needed so that a spawn of the start loop is a `Launch`.
    - `CaughtStopping`: a task that caught the interrupt or is in `finally` after it sees `_stop_event` set. It is needed so that a running service given up by `Stopped` is a `Stop` during shutdown.
  - `LInvStep` and `RefineStep` assume `RestartsDead`, as `IInvStepIf` does. The theorem gets it from `PosixRestartsDead`.
  - The step proof, `RefineStep`, has one case per action. Its lemmas show that a step changing one descriptor's phase changes only that entry (`OnePhaseStep`, `KeepPhases`). They also show that the death of a process is an `Exit` of its owner (`DeathStep`).
- **`RateLimited`: `Spec => []RestartRateLimit`** (`RateLimitProofs.tla`). It holds on every platform, for every set of descriptors, every `max_restart_count` and every `max_restart_interval_seconds`.
  - `RestartRateLimit` is not inductive. It bounds only the windows ending at a second up to `now`. A restart admitted at `now` must then fit every later window too, and the code checks only the window ending at `now`.
  - The inductive invariant `RLInv` was checked first with TLC on the posix instance, with `t` bounded to `MaxTime + 2`. It is `TypeOK` and the following:
    - `HistFinite`: the histories are finite sets;
    - `HistCovers`: when the count limit is set, every admitted restart still inside the window ending at `now` is in `_restarts_time`. The filter in `request_restart_attempt` drops only entries older than the window;
    - `WindowBound`: every window, ending at any second `t`, holds at most `max_restart_count` admitted restarts, or the whole history does when the interval is 0.
  - `FinallyRL` carries the argument for the one step that adds a restart.
    - The new history is the old one filtered, plus the attempt (`NewHistFinite`, `NewHistCovers`).
    - The admitted attempt falls in the windows ending at `now .. now + I` only. Each of them contains only restarts from the window ending at `now`. `HistCovers` puts those restarts in the history that `request_restart_attempt` counted (`AdmitWindow`).
    - Every other window is unchanged (`OtherWindow`). With interval 0 the whole history is counted (`AdmitLifetime`).
  - `Tick` moves `now`. Restarts leaving the window are exactly those the next filter may drop (`TickCovers`).
  - The cardinality facts come from `FiniteSetTheorems`, through one lemma `SubsetCard`.
- **`ShutdownProofs.tla`**: three theorems for services that start no child processes, on every platform.
  - **`FleetStoppedWithoutChildren`: `~Children => (Spec => ShutdownStopsFleet)`.**
  - **`SingleLiveWithoutChildren`: `~Children => (Spec => []SingleLiveProcess)`.**
  - **`RefinementWithoutChildren`: `~Children => (Spec => LifecycleRefined)`.**
  - The inductive invariant `SInv` was checked first with TLC, off POSIX and on POSIX, without children. It is `IInv` and the following:
    - `NoChildren`: no process has a child;
    - `ClosedDead`: during `close_api_gracefully`, every descriptor already visited has no live process. With no child, `p.kill()` never raises NoSuchProcess, so each visit terminates the process;
    - `CaughtClosing`: a task stays in its `except` clause only while the `close_api_gracefully` it called runs;
    - `FinallyDead`: a task sent to `finally` by the interrupt has no live process. It enters `finally` only when that close returns, and by `ClosedDead` every process is dead by then.
  - `SInvRestartsDead` derives `RestartsDead` from `SInv`, so `IInvStepIf`, `LInvStep` and `RefineStep` apply off POSIX as well. A task reaches `finally` after its process died, or after the interrupt with its process stopped.
  - For `ShutdownStopsFleet`: the only step that leaves `closing` is `CloseReturn`, and it needs `closeTodo = {}`. By `ClosedDead`, every descriptor then has no live process. By `OwnerIsCurrent`, every live process is some descriptor's current one, so none is alive.
  - Together with the POSIX theorems, `SingleLiveProcess` and the refinement hold whenever `Posix \/ ~Children`. The windows_double_process run shows that they fail off POSIX with children. The child_race run shows that `ShutdownStopsFleet` fails with children on every platform.
- **`NoCompleteWithoutSurvivors`: `~Survivors => (Spec => NoCompleteOverwritten)`** (`ReconcilerProofs.tla`). It holds for every set of jobs and every fault pattern. Its invariant `RInv` is `TypeOK` and four conjuncts:
  - `Recorded`: marked or orphaned jobs have records, and records never disappear, so an orphaned pid never runs again;
  - `OrphansDead`;
  - `BootQuiet`: no worker runs during the boot;
  - `SnapshotFresh`: no record a loop is about to write was completed since the query.
  - `KeepComplete` then shows that no step leaves `complete`.
  - The reconciler_boot_overwrite run shows that the hypothesis is needed.

### Model-checked only

- The liveness properties and everything about `ENABLED` are beyond TLAPS, so they are checked only by TLC.
- `ExitIsHandled`, `SupervisorExits` and `OrphansRepaired` are liveness properties under `FairSpec`. TLAPS cannot reason about `ENABLED` here, so they stay with TLC.
- The properties are proved only under the hypotheses above. The violation runs show the behaviours the hypotheses exclude.

## Not modelled

- **Startup (215-386)** is straight-line configuration and database work that runs before any service exists.
- **`TrunkProcessEnum._missing_`** exits on an unknown `--api` name. It is configuration parsing.
- **The reconciler's neighbours.**
  - The outdated-predictor marking at boot (355-384) is not modelled. It writes `update_status`, which no repair reads.
  - The content of the error message is not modelled.
  - The `Reconciler` and `Supervisor` modules are not composed. The only state they share is `_stop_event` and the thread's lifetime, which `Supervisor` already models.

## Plan

1. **Done:**
   - `Supervisor`, the six supervisor runs, and the proofs of the type invariant and `SingleLiveProcess`;
   - `ServiceLifecycle` and the proved refinement;
   - `Reconciler` with its four runs and the proof of `NoCompleteOverwritten` without survivors;
   - the proof of `RestartRateLimit` on every platform;
   - the proofs of `ShutdownStopsFleet`, `SingleLiveProcess` and the refinement without children.
2. **A reference check of `request_restart_attempt`** against the spec's definition of the window over bounded histories.
3. **A process-mark model with pid reuse.** A reused pid would keep a dead worker's mark looking alive.
