-------------------------- MODULE ServiceLifecycle --------------------------
(***************************************************************************)
(* What the supervisor promises about each managed service (spec section  *)
(* 4.4), with no processes, clocks or tasks: a descriptor is launched at  *)
(* most once before any shutdown, its process ends at most once per       *)
(* launch, a new process is only started once the previous one has ended, *)
(* and "stopped" is terminal. A service is only given up while its        *)
(* process still runs once the fleet is stopping.                         *)
(***************************************************************************)
CONSTANT Services

VARIABLES
  phase,     \* [Services -> Phases]
  stopping   \* the process-wide "already stopping" event

Phases == {"idle", "running", "exited", "restarting", "stopped"}

Init ==
  /\ phase = [s \in Services |-> "idle"]
  /\ stopping = FALSE

(* A needed service is launched for the first time.                       *)
Launch(s) ==
  /\ ~stopping
  /\ phase[s] = "idle"
  /\ phase' = [phase EXCEPT ![s] = "running"]
  /\ UNCHANGED stopping

(* Its process terminates, on its own or because it was stopped.          *)
Exit(s) ==
  /\ phase[s] = "running"
  /\ phase' = [phase EXCEPT ![s] = "exited"]
  /\ UNCHANGED stopping

(* The ended process is replaced; readiness is checked.                   *)
Relaunch(s) ==
  /\ phase[s] = "exited"
  /\ phase' = [phase EXCEPT ![s] = "restarting"]
  /\ UNCHANGED stopping

(* The readiness check returns, with the new process running or gone.     *)
Ready(s) ==
  /\ phase[s] = "restarting"
  /\ \E to \in {"running", "exited"} : phase' = [phase EXCEPT ![s] = to]
  /\ UNCHANGED stopping

(* The service is given up for good.                                      *)
Stop(s) ==
  /\ \/ phase[s] = "exited"
     \/ phase[s] = "running" /\ stopping
  /\ phase' = [phase EXCEPT ![s] = "stopped"]
  /\ UNCHANGED stopping

(* Shutdown begins.                                                       *)
Shutdown ==
  /\ ~stopping
  /\ stopping' = TRUE
  /\ UNCHANGED phase

Next ==
  \/ \E s \in Services : Launch(s) \/ Exit(s) \/ Relaunch(s) \/ Ready(s) \/ Stop(s)
  \/ Shutdown

Spec == Init /\ [][Next]_<<phase, stopping>>
=============================================================================
