-------------------------- MODULE ReconcilerProofs --------------------------
(***************************************************************************)
(* Proofs about the repair of orphaned training records (Reconciler).     *)
(***************************************************************************)
EXTENDS Reconciler, TLAPS

(* A job with a mark or found orphaned has a record, and a record never   *)
(* goes back to "none": no worker can start again under an orphaned pid. *)
Recorded ==
  \A j \in Jobs : (mark[j] \/ j \in orphans) => status[j] # "none"

(* The pids found orphaned stay dead.                                      *)
OrphansDead == \A j \in orphans : ~alive[j]

(* While the main thread boots, no worker runs (none survived the last    *)
(* run and the new ones start with the services).                         *)
BootQuiet == at \in BootPlaces => \A j \in Jobs : ~alive[j]

(* No record a repair loop is about to write has been completed since its *)
(* query.                                                                   *)
SnapshotFresh ==
  /\ at \in {"bootPids", "pids"} => \A j \in todo \cap orphans : status[j] # "complete"
  /\ at = "bootUnf" => \A j \in todo : status[j] # "complete"

RInv == TypeOK /\ Recorded /\ OrphansDead /\ BootQuiet /\ SnapshotFresh
-----------------------------------------------------------------------------
(* The boot of a local install starts from a state where RInv holds.       *)
LEMMA InitRInv == ~Survivors /\ Init => RInv
BY DEF Init, Leftover, RInv, TypeOK, Status, Places, BootPlaces, Recorded,
       OrphansDead, BootQuiet, SnapshotFresh

(* Every step of the repair code, the workers and the operator keeps RInv. *)
LEMMA RInvStep ==
  ASSUME ~Survivors, RInv, [Next]_vars
  PROVE  RInv'
<1> USE DEF RInv, TypeOK, Status, Places, BootPlaces, Recorded, OrphansDead,
            BootQuiet, SnapshotFresh
<1>1. CASE BootSweep
  BY <1>1 DEF BootSweep, RemoveMarks, clean_unlinked_process_marks
<1>2. CASE Query
  BY <1>2 DEF Query, Unfinished
<1>3. CASE PidsDone
  BY <1>3 DEF PidsDone
<1>4. CASE UnfinishedDone
  BY <1>4 DEF UnfinishedDone
<1>5. CASE clean_process_marks
  BY <1>5 DEF clean_process_marks
<1>6. CASE do_clean_process_marks
  BY <1>6 DEF do_clean_process_marks, RemoveMarks, clean_unlinked_process_marks
<1>7. CASE ThreadStop
  BY <1>7 DEF ThreadStop
<1>8. ASSUME NEW j \in Jobs, set_error_model_status_by_pids(j) PROVE RInv'
  BY <1>8 DEF set_error_model_status_by_pids
<1>9. ASSUME NEW j \in Jobs, set_error_model_status_for_unfinished(j) PROVE RInv'
  BY <1>9 DEF set_error_model_status_for_unfinished
<1>10. CASE ThreadFail
  BY <1>10 DEF ThreadFail
<1>11. CASE SetStop
  BY <1>11 DEF SetStop
<1>12. ASSUME NEW j \in Jobs, WorkerStart(j) PROVE RInv'
  BY <1>12 DEF WorkerStart
<1>13. ASSUME NEW j \in Jobs, WorkerComplete(j) PROVE RInv'
  BY <1>13 DEF WorkerComplete
<1>14. ASSUME NEW j \in Jobs, WorkerExit(j) PROVE RInv'
  BY <1>14 DEF WorkerExit
<1>15. ASSUME NEW j \in Jobs, WorkerCrash(j) PROVE RInv'
  BY <1>15 DEF WorkerCrash
<1>16. CASE UNCHANGED vars
  BY <1>16 DEF vars
<1>. QED
  BY <1>1, <1>2, <1>3, <1>4, <1>5, <1>6, <1>7, <1>8, <1>9, <1>10, <1>11,
     <1>12, <1>13, <1>14, <1>15, <1>16 DEF Next, Repair, Environment

(* Under RInv no step turns a complete record into anything else: the     *)
(* loops only write records that are not complete, and only workers, which *)
(* write complete, change the others.                                       *)
LEMMA KeepComplete ==
  ASSUME RInv, [Next]_vars
  PROVE  \A j \in Jobs : status[j] = "complete" => status'[j] = "complete"
<1> USE DEF RInv, TypeOK, SnapshotFresh
<1>1. ASSUME NEW j \in Jobs, set_error_model_status_by_pids(j)
      PROVE  \A k \in Jobs : status[k] = "complete" => status'[k] = "complete"
  BY <1>1 DEF set_error_model_status_by_pids
<1>2. ASSUME NEW j \in Jobs, set_error_model_status_for_unfinished(j)
      PROVE  \A k \in Jobs : status[k] = "complete" => status'[k] = "complete"
  BY <1>2 DEF set_error_model_status_for_unfinished
<1>3. ASSUME NEW j \in Jobs, WorkerStart(j) \/ WorkerComplete(j)
      PROVE  \A k \in Jobs : status[k] = "complete" => status'[k] = "complete"
  BY <1>3 DEF WorkerStart, WorkerComplete
<1>4. CASE UNCHANGED status
  BY <1>4
<1>. QED
  BY <1>1, <1>2, <1>3, <1>4
  DEF Next, Repair, Environment, vars, BootSweep, Query, PidsDone,
      UnfinishedDone, clean_process_marks, do_clean_process_marks, ThreadStop,
      ThreadFail, SetStop, WorkerExit, WorkerCrash

(* On a local boot where no worker of the previous run survived, neither  *)
(* the boot repair nor the clean_process_marks thread ever overwrites a   *)
(* complete record with error, for any set of jobs: the thread only       *)
(* writes records of pids it found dead, and the boot runs before any     *)
(* worker starts.                                                           *)
THEOREM NoCompleteWithoutSurvivors == ~Survivors => (Spec => NoCompleteOverwritten)
<1>. SUFFICES ASSUME ~Survivors PROVE Spec => NoCompleteOverwritten
  OBVIOUS
<1>1. Init => RInv
  BY InitRInv
<1>2. RInv /\ [Next]_vars => RInv'
  BY RInvStep
<1>3. RInv /\ [Next]_vars
        => [\A j \in Jobs : status[j] = "complete" => status'[j] = "complete"]_vars
  BY KeepComplete
<1>. QED
  BY <1>1, <1>2, <1>3, PTL DEF Spec, NoCompleteOverwritten
=============================================================================
