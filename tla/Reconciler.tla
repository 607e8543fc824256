----------------------------- MODULE Reconciler -----------------------------
(***************************************************************************)
(* The repair of orphaned training records in src/mindsdb/__main__.py:    *)
(* the boot-time repair (clean_unlinked_process_marks,                    *)
(* set_error_model_status_by_pids, set_error_model_status_for_unfinished, *)
(* clean_process_marks) and the clean_process_marks thread                 *)
(* (do_clean_process_marks), against the training workers that own the   *)
(* records and their process marks.                                        *)
(*                                                                         *)
(* A job is one training run: its TrainingStatusRecord (status, with      *)
(* "none" for no record yet), its worker process (alive) and the worker's *)
(* process mark. The state the boot finds is whatever a previous run of   *)
(* the supervisor left behind. The workers and the marks are not code of  *)
(* this file: they follow the spec (sections 3 and 4.6).                  *)
(***************************************************************************)
EXTENDS Naturals, FiniteSets

CONSTANTS
  Jobs,       \* the training runs
  IsCloud,    \* config.is_cloud
  Survivors,  \* a worker of the previous run may still be running at boot
  DbFaults    \* a database or filesystem call may raise

ASSUME ReconcilerAssumption == {IsCloud, Survivors, DbFaults} \subseteq BOOLEAN

VARIABLES
  status,   \* [Jobs -> record status in the database]
  alive,    \* [Jobs -> the worker process exists]
  mark,     \* [Jobs -> the worker's process mark exists]
  at,       \* where the repair code is
  orphans,  \* unexisting_pids: jobs whose marks the last clean removed
  todo,     \* predictor_records still to visit in the current loop
  stop      \* _stop_event

vars == <<status, alive, mark, at, orphans, todo, stop>>

Status == {"none", "training", "complete", "error"}
(* Boot steps of the main thread, then the thread's loop.                 *)
BootPlaces == {"boot", "bootPidsQuery", "bootPids", "bootUnfQuery", "bootUnf", "bootClean"}
Places == BootPlaces \cup {"wait", "pidsQuery", "pids", "dead", "stopped"}

(* clean_unlinked_process_marks: the marks whose process no longer        *)
(* exists; it deletes them and returns their pids.                        *)
clean_unlinked_process_marks == {j \in Jobs : mark[j] /\ ~alive[j]}
RemoveMarks(js) == mark' = [j \in Jobs |-> mark[j] /\ j \notin js]

(* The query of both repair functions: records not deleted whose status   *)
(* is not in (complete, error).                                           *)
Unfinished == {j \in Jobs : status[j] = "training"}

(* What a previous run can leave: a record with a live worker (only if    *)
(* workers survive it), a crashed worker with or without its mark, a     *)
(* finished job.                                                            *)
Leftover(j) ==
  /\ status[j] = "none" => ~alive[j] /\ ~mark[j]
  /\ alive[j] => Survivors /\ mark[j] /\ status[j] \in {"training", "complete"}
  /\ status[j] = "error" => ~alive[j] /\ ~mark[j]

Init ==
  /\ status \in [Jobs -> Status]
  /\ alive \in [Jobs -> BOOLEAN]
  /\ mark \in [Jobs -> BOOLEAN]
  /\ \A j \in Jobs : Leftover(j)
  /\ at = "boot"
  /\ orphans = {}
  /\ todo = {}
  /\ stop = FALSE

-----------------------------------------------------------------------------
(* Boot: unexisting_pids = clean_unlinked_process_marks(); then, unless   *)
(* in the cloud, set_error_model_status_by_pids if any, and               *)
(* set_error_model_status_for_unfinished.                                 *)
BootSweep ==
  /\ at = "boot"
  /\ orphans' = clean_unlinked_process_marks
  /\ RemoveMarks(clean_unlinked_process_marks)
  /\ at' = IF IsCloud THEN "bootClean"
           ELSE IF clean_unlinked_process_marks # {} THEN "bootPidsQuery"
           ELSE "bootUnfQuery"
  /\ UNCHANGED <<status, alive, todo, stop>>

(* The query at the top of set_error_model_status_by_pids (boot or        *)
(* thread) and of set_error_model_status_for_unfinished.                  *)
Query ==
  /\ at \in {"bootPidsQuery", "pidsQuery", "bootUnfQuery"}
  /\ todo' = Unfinished
  /\ at' = CASE at = "bootPidsQuery" -> "bootPids"
             [] at = "pidsQuery"     -> "pids"
             [] at = "bootUnfQuery"  -> "bootUnf"
  /\ UNCHANGED <<status, alive, mark, orphans, stop>>

(* A variant of the loop body that drops the process_id check and sets   *)
(* every queried record to error.                                          *)
ErrorEveryQueried(j) ==
  /\ at \in {"bootPids", "pids"}
  /\ j \in todo
  /\ todo' = todo \ {j}
  /\ status' = [status EXCEPT ![j] = "error"]
  /\ UNCHANGED <<alive, mark, at, orphans, stop>>

(* One iteration of the loop of set_error_model_status_by_pids: a record  *)
(* of an orphaned pid is set to error and committed, whatever its status  *)
(* in the database is by now.                                             *)
set_error_model_status_by_pids(j) ==
  /\ at \in {"bootPids", "pids"}
  /\ j \in todo
  /\ todo' = todo \ {j}
  /\ status' = IF j \in orphans THEN [status EXCEPT ![j] = "error"] ELSE status
  /\ UNCHANGED <<alive, mark, at, orphans, stop>>

(* The loop is over: the boot goes on, the thread waits again.            *)
PidsDone ==
  /\ at \in {"bootPids", "pids"}
  /\ todo = {}
  /\ at' = IF at = "bootPids" THEN "bootUnfQuery" ELSE "wait"
  /\ UNCHANGED <<status, alive, mark, orphans, todo, stop>>

(* One iteration of set_error_model_status_for_unfinished: every record   *)
(* of the query is set to error and committed.                            *)
set_error_model_status_for_unfinished(j) ==
  /\ at = "bootUnf"
  /\ j \in todo
  /\ todo' = todo \ {j}
  /\ status' = [status EXCEPT ![j] = "error"]
  /\ UNCHANGED <<alive, mark, at, orphans, stop>>

UnfinishedDone ==
  /\ at = "bootUnf"
  /\ todo = {}
  /\ at' = "bootClean"
  /\ UNCHANGED <<status, alive, mark, orphans, todo, stop>>

(* clean_process_marks() deletes every mark; the services are started and *)
(* the clean_process_marks thread begins its loop.                        *)
clean_process_marks ==
  /\ at = "bootClean"
  /\ mark' = [j \in Jobs |-> FALSE]
  /\ at' = "wait"
  /\ UNCHANGED <<status, alive, orphans, todo, stop>>

(* A variant of the tick that repairs only when more than one orphan was *)
(* found (len(unexisting_pids) > 1).                                        *)
CleanNeedsTwo ==
  /\ at = "wait"
  /\ ~stop
  /\ orphans' = clean_unlinked_process_marks
  /\ RemoveMarks(clean_unlinked_process_marks)
  /\ at' = IF ~IsCloud /\ Cardinality(clean_unlinked_process_marks) > 1
           THEN "pidsQuery" ELSE "wait"
  /\ UNCHANGED <<status, alive, todo, stop>>

(* _stop_event.wait(timeout=5) returned False: the thread cleans the      *)
(* marks and, unless in the cloud, repairs the records if any were found. *)
do_clean_process_marks ==
  /\ at = "wait"
  /\ ~stop
  /\ orphans' = clean_unlinked_process_marks
  /\ RemoveMarks(clean_unlinked_process_marks)
  /\ at' = IF ~IsCloud /\ clean_unlinked_process_marks # {} THEN "pidsQuery" ELSE "wait"
  /\ UNCHANGED <<status, alive, todo, stop>>

(* _stop_event.wait returned True: the loop ends.                          *)
ThreadStop ==
  /\ at = "wait"
  /\ stop
  /\ at' = "stopped"
  /\ UNCHANGED <<status, alive, mark, orphans, todo, stop>>

(* A call of the loop raises (the filesystem in the clean, the database   *)
(* in the query or a commit): nothing catches it and the thread ends.     *)
ThreadFail ==
  /\ DbFaults
  /\ at \in {"wait", "pidsQuery", "pids"}
  /\ at' = "dead"
  /\ UNCHANGED <<status, alive, mark, orphans, todo, stop>>

-----------------------------------------------------------------------------
(* The environment: close_api_gracefully, and the training workers.       *)
SetStop ==
  /\ ~stop
  /\ stop' = TRUE
  /\ UNCHANGED <<status, alive, mark, at, orphans, todo>>

(* A worker starts a job: it writes the record and its process mark.      *)
WorkerStart(j) ==
  /\ at \notin BootPlaces
  /\ status[j] = "none"
  /\ status' = [status EXCEPT ![j] = "training"]
  /\ alive' = [alive EXCEPT ![j] = TRUE]
  /\ mark' = [mark EXCEPT ![j] = TRUE]
  /\ UNCHANGED <<at, orphans, todo, stop>>

(* The worker finishes training and writes complete (last writer wins).   *)
WorkerComplete(j) ==
  /\ alive[j]
  /\ status[j] \in {"training", "error"}
  /\ status' = [status EXCEPT ![j] = "complete"]
  /\ UNCHANGED <<alive, mark, at, orphans, todo, stop>>

(* The worker deletes its mark and exits.                                 *)
WorkerExit(j) ==
  /\ alive[j]
  /\ status[j] = "complete"
  /\ alive' = [alive EXCEPT ![j] = FALSE]
  /\ mark' = [mark EXCEPT ![j] = FALSE]
  /\ UNCHANGED <<status, at, orphans, todo, stop>>

(* The worker is killed or crashes: its mark stays behind.                *)
WorkerCrash(j) ==
  /\ alive[j]
  /\ alive' = [alive EXCEPT ![j] = FALSE]
  /\ UNCHANGED <<status, mark, at, orphans, todo, stop>>

-----------------------------------------------------------------------------
Repair ==
  \/ BootSweep \/ Query \/ PidsDone \/ UnfinishedDone \/ clean_process_marks
  \/ do_clean_process_marks \/ ThreadStop
  \/ \E j \in Jobs : set_error_model_status_by_pids(j)
                     \/ set_error_model_status_for_unfinished(j)

Environment ==
  \/ ThreadFail \/ SetStop
  \/ \E j \in Jobs : WorkerStart(j) \/ WorkerComplete(j) \/ WorkerExit(j)
                     \/ WorkerCrash(j)

Next == Repair \/ Environment

(* The main thread and the clean_process_marks thread are scheduled by    *)
(* the OS, and the 5 s wait always times out; the workers, the database   *)
(* and the operator owe nothing.                                           *)
Fairness ==
  /\ WF_vars(BootSweep) /\ WF_vars(Query) /\ WF_vars(PidsDone)
  /\ WF_vars(UnfinishedDone) /\ WF_vars(clean_process_marks)
  /\ WF_vars(do_clean_process_marks) /\ WF_vars(ThreadStop)
  /\ \A j \in Jobs : /\ WF_vars(set_error_model_status_by_pids(j))
                     /\ WF_vars(set_error_model_status_for_unfinished(j))

Spec == Init /\ [][Next]_vars
FairSpec == Spec /\ Fairness

-----------------------------------------------------------------------------
TypeOK ==
  /\ status \in [Jobs -> Status]
  /\ alive \in [Jobs -> BOOLEAN]
  /\ mark \in [Jobs -> BOOLEAN]
  /\ at \in Places
  /\ orphans \subseteq Jobs
  /\ todo \subseteq Jobs
  /\ stop \in BOOLEAN

(* A record that reached complete is never set back (spec section 5: the  *)
(* sweep may race a worker, but complete is never overwritten). The      *)
(* repair loops write from a snapshot taken by their query.               *)
NoCompleteOverwritten ==
  [][\A j \in Jobs : status[j] = "complete" => status'[j] = "complete"]_vars

(* The record of a worker that died during training is eventually set to *)
(* error, unless shutdown stops the clean_process_marks thread first     *)
(* (spec sections 4.6 and 7: reconciliation failures are retried on the  *)
(* next tick).                                                            *)
OrphansRepaired ==
  \A j \in Jobs :
    (status[j] = "training" /\ ~alive[j]) ~> (status[j] # "training" \/ stop)
=============================================================================
