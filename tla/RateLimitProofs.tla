-------------------------- MODULE RateLimitProofs ---------------------------
(***************************************************************************)
(* Proof that request_restart_attempt rate-limits restarts                 *)
(* (RestartRateLimit) for every set of descriptors and every limit.       *)
(***************************************************************************)
EXTENDS SupervisorProofs, FiniteSetTheorems

(* The admitted restarts of s whose second lies in the window ending at t. *)
WindowOf(R, s, t) == {r \in R : r[2] \in t - MaxRestartInterval[s] .. t}

(* The admitted restarts that the window ending now still counts: those   *)
(* not older than max_restart_interval_seconds, or all of them when the   *)
(* interval is 0 (the history is never filtered).                          *)
RecentOf(R, s, n) ==
  IF MaxRestartInterval[s] > 0
  THEN {r \in R : r[2] >= n - MaxRestartInterval[s]}
  ELSE R

Limited(s) == MaxRestartCount[s] > 0

(* _restarts_time and the admitted restarts are finite sets.              *)
HistFinite ==
  \A s \in Services : IsFiniteSet(hist[s]) /\ IsFiniteSet(restarts[s])

(* Every admitted restart that the current window still counts is in     *)
(* _restarts_time: the filter of request_restart_attempt only drops       *)
(* entries older than the window.                                          *)
HistCovers ==
  \A s \in Services : Limited(s) => RecentOf(restarts[s], s, now) \subseteq hist[s]

(* The bound of RestartRateLimit, for every window end, including the    *)
(* ones the clock has not reached yet.                                     *)
WindowBound ==
  \A s \in Services :
    Limited(s) =>
      IF MaxRestartInterval[s] > 0
      THEN \A t \in Nat : Cardinality(WindowOf(restarts[s], s, t)) <= MaxRestartCount[s]
      ELSE Cardinality(restarts[s]) <= MaxRestartCount[s]

RLInv == TypeOK /\ HistFinite /\ HistCovers /\ WindowBound
-----------------------------------------------------------------------------
(* The attempt request_restart_attempt appends: the current second, kept  *)
(* apart from other attempts in that second by the dying process's pid.    *)
Attempt(s) == <<handle[s], now>>

(* A subset of a finite set is no larger.                                  *)
LEMMA SubsetCard ==
  ASSUME NEW S, NEW T, IsFiniteSet(S), T \subseteq S
  PROVE  /\ IsFiniteSet(T)
         /\ Cardinality(T) \in Nat
         /\ Cardinality(S) \in Nat
         /\ Cardinality(T) <= Cardinality(S)
BY FS_Subset, FS_CardinalityType

(* The filtered history of request_restart_attempt is finite.             *)
LEMMA NewHistFinite ==
  ASSUME NEW s \in Services, IsFiniteSet(hist[s])
  PROVE  IsFiniteSet(NewHist(s))
<1>1. IsFiniteSet(hist[s] \cup {Attempt(s)})
  BY FS_AddElement
<1>2. NewHist(s) \subseteq hist[s] \cup {Attempt(s)}
  BY DEF NewHist, Attempt
<1>. QED
  BY <1>1, <1>2, FS_Subset

(* The filtered history still holds every admitted restart the window    *)
(* counts, and the new attempt.                                            *)
LEMMA NewHistCovers ==
  ASSUME TypeOK, NEW s \in Services,
         RecentOf(restarts[s], s, now) \subseteq hist[s]
  PROVE  RecentOf(restarts[s] \cup {Attempt(s)}, s, now) \subseteq NewHist(s)
BY RestartAssumption DEF TypeOK, RecentOf, NewHist, InWindow, Attempt

(* An admitted attempt keeps the bound of every window that contains the  *)
(* current second: all the restarts such a window counts are in the      *)
(* filtered history, whose size request_restart_attempt has just checked. *)
LEMMA AdmitWindow ==
  ASSUME TypeOK, NEW s \in Services, MaxRestartInterval[s] > 0,
         IsFiniteSet(hist[s]),
         RecentOf(restarts[s], s, now) \subseteq hist[s],
         Cardinality(NewHist(s)) <= MaxRestartCount[s],
         NEW t \in Nat, now \in t - MaxRestartInterval[s] .. t
  PROVE  Cardinality(WindowOf(restarts[s] \cup {Attempt(s)}, s, t))
           <= MaxRestartCount[s]
<1>1. WindowOf(restarts[s] \cup {Attempt(s)}, s, t)
        \subseteq RecentOf(restarts[s] \cup {Attempt(s)}, s, now)
  BY RestartAssumption DEF TypeOK, WindowOf, RecentOf, Attempt
<1>2. WindowOf(restarts[s] \cup {Attempt(s)}, s, t) \subseteq NewHist(s)
  BY <1>1, NewHistCovers
<1>3. IsFiniteSet(NewHist(s))
  BY NewHistFinite
<1>4. /\ Cardinality(WindowOf(restarts[s] \cup {Attempt(s)}, s, t)) \in Nat
      /\ Cardinality(NewHist(s)) \in Nat
      /\ Cardinality(WindowOf(restarts[s] \cup {Attempt(s)}, s, t))
           <= Cardinality(NewHist(s))
  BY ONLY <1>2, <1>3, SubsetCard
<1>5. MaxRestartCount[s] \in Nat
  BY RestartAssumption
<1>. QED
  BY <1>4, <1>5

(* A window that does not contain the current second counts the same     *)
(* restarts after the attempt is added.                                    *)
LEMMA OtherWindow ==
  ASSUME TypeOK, NEW s \in Services, NEW t \in Nat,
         now \notin t - MaxRestartInterval[s] .. t
  PROVE  WindowOf(restarts[s] \cup {Attempt(s)}, s, t) = WindowOf(restarts[s], s, t)
BY DEF WindowOf, Attempt

(* With interval 0 an admitted attempt keeps the lifetime bound.          *)
LEMMA AdmitLifetime ==
  ASSUME TypeOK, NEW s \in Services, MaxRestartInterval[s] = 0,
         IsFiniteSet(hist[s]),
         RecentOf(restarts[s], s, now) \subseteq hist[s],
         Cardinality(NewHist(s)) <= MaxRestartCount[s]
  PROVE  Cardinality(restarts[s] \cup {Attempt(s)}) <= MaxRestartCount[s]
<1>1. RecentOf(restarts[s] \cup {Attempt(s)}, s, now) \subseteq NewHist(s)
  BY NewHistCovers
<1>2. restarts[s] \cup {Attempt(s)} \subseteq NewHist(s)
  BY <1>1 DEF RecentOf
<1>3. IsFiniteSet(NewHist(s))
  BY NewHistFinite
<1>4. /\ Cardinality(restarts[s] \cup {Attempt(s)}) \in Nat
      /\ Cardinality(NewHist(s)) \in Nat
      /\ Cardinality(restarts[s] \cup {Attempt(s)}) <= Cardinality(NewHist(s))
  BY ONLY <1>2, <1>3, SubsetCard
<1>5. MaxRestartCount[s] \in Nat
  BY RestartAssumption
<1>. QED
  BY <1>4, <1>5

(* A clock tick only shrinks the restarts the window counts.              *)
LEMMA TickCovers ==
  ASSUME TypeOK, NEW s \in Services
  PROVE  RecentOf(restarts[s], s, now + 1) \subseteq RecentOf(restarts[s], s, now)
BY RestartAssumption DEF TypeOK, RecentOf
-----------------------------------------------------------------------------
(* A step that leaves the histories and the clock alone keeps them right. *)
LEMMA RLFrame ==
  ASSUME HistFinite, HistCovers, WindowBound, UNCHANGED <<hist, restarts, now>>
  PROVE  HistFinite' /\ HistCovers' /\ WindowBound'
BY DEF HistFinite, HistCovers, WindowBound, RecentOf, WindowOf, Limited

(* A clock tick: the window moves on, the histories stay.                  *)
LEMMA RLTick ==
  ASSUME TypeOK, HistFinite, HistCovers, WindowBound, Tick
  PROVE  HistFinite' /\ HistCovers' /\ WindowBound'
<1>1. UNCHANGED <<hist, restarts>> /\ now' = now + 1
  BY DEF Tick
<1>2. HistCovers'
  <2>. SUFFICES ASSUME NEW s \in Services, Limited(s)
                PROVE  RecentOf(restarts[s], s, now + 1) \subseteq hist[s]
    BY <1>1 DEF HistCovers
  <2>. QED
    BY TickCovers DEF HistCovers
<1>. QED
  BY <1>1, <1>2 DEF HistFinite, WindowBound, WindowOf, Limited
(* The finally block of join_process: request_restart_attempt filters and *)
(* extends the history of its descriptor, and a restart is admitted only  *)
(* when the filtered history is within max_restart_count.                 *)
LEMMA FinallyRL ==
  ASSUME TypeOK, HistFinite, HistCovers, WindowBound,
         NEW s \in Services, Finally(s)
  PROVE  HistFinite' /\ HistCovers' /\ WindowBound'
<1>1. CASE ~should_restart(s)
  <2>1. UNCHANGED <<hist, restarts, now>>
    BY <1>1 DEF Finally, Stopped, Finish
  <2>. QED
    BY <2>1, RLFrame
<1>2. CASE should_restart(s)
  <2>1. now' = now
    BY DEF Finally
  <2>2. hist' = IF MaxRestartCount[s] = 0 THEN hist
                ELSE [hist EXCEPT ![s] = NewHist(s)]
    BY <1>2 DEF Finally, RecordAttempt
  <2>3. \/ restarts' = restarts
        \/ /\ request_restart_attempt(s)
           /\ restarts' = [restarts EXCEPT ![s] = @ \cup {Attempt(s)}]
    BY <1>2 DEF Finally, Restart, Denied, Finish, Attempt
  <2>4. \A u \in Services \ {s} : hist'[u] = hist[u] /\ restarts'[u] = restarts[u]
    BY <2>2, <2>3 DEF TypeOK
  <2>5. restarts[s] \subseteq restarts'[s]
        /\ restarts'[s] \subseteq restarts[s] \cup {Attempt(s)}
    BY <2>3 DEF TypeOK
  (* The descriptor's own entries. *)
  <2>6. IsFiniteSet(hist'[s]) /\ IsFiniteSet(restarts'[s])
    <3>1. IsFiniteSet(hist'[s])
      BY <2>2, NewHistFinite DEF HistFinite, TypeOK
    <3>2. IsFiniteSet(restarts[s] \cup {Attempt(s)})
      BY FS_AddElement DEF HistFinite
    <3>3. IsFiniteSet(restarts'[s])
      BY <2>5, <3>2, FS_Subset
    <3>. QED
      BY <3>1, <3>3
  <2>7. Limited(s) => RecentOf(restarts'[s], s, now) \subseteq hist'[s]
    <3>. SUFFICES ASSUME Limited(s)
                  PROVE  RecentOf(restarts'[s], s, now) \subseteq NewHist(s)
      BY <2>2 DEF Limited, TypeOK
    <3>1. RecentOf(restarts[s] \cup {Attempt(s)}, s, now) \subseteq NewHist(s)
      BY NewHistCovers DEF HistCovers
    <3>. QED
      BY <2>5, <3>1 DEF RecentOf
  <2>8. Limited(s) =>
          IF MaxRestartInterval[s] > 0
          THEN \A t \in Nat : Cardinality(WindowOf(restarts'[s], s, t)) <= MaxRestartCount[s]
          ELSE Cardinality(restarts'[s]) <= MaxRestartCount[s]
    <3>. SUFFICES ASSUME Limited(s) PROVE
           IF MaxRestartInterval[s] > 0
           THEN \A t \in Nat : Cardinality(WindowOf(restarts'[s], s, t)) <= MaxRestartCount[s]
           ELSE Cardinality(restarts'[s]) <= MaxRestartCount[s]
      OBVIOUS
    <3>1. CASE restarts' = restarts
      BY <3>1 DEF WindowBound
    <3>2. CASE /\ request_restart_attempt(s)
               /\ restarts' = [restarts EXCEPT ![s] = @ \cup {Attempt(s)}]
      <4>1. restarts'[s] = restarts[s] \cup {Attempt(s)}
        BY <3>2 DEF TypeOK
      <4>2. Cardinality(NewHist(s)) <= MaxRestartCount[s]
        BY <3>2 DEF request_restart_attempt, Limited
      <4>3. RecentOf(restarts[s], s, now) \subseteq hist[s] /\ IsFiniteSet(hist[s])
        BY DEF HistCovers, HistFinite
      <4>4. CASE MaxRestartInterval[s] > 0
        <5>. SUFFICES ASSUME NEW t \in Nat
                      PROVE  Cardinality(WindowOf(restarts'[s], s, t)) <= MaxRestartCount[s]
          BY <4>4
        <5>1. CASE now \in t - MaxRestartInterval[s] .. t
          BY <4>1, <4>2, <4>3, <4>4, <5>1, AdmitWindow
        <5>2. CASE now \notin t - MaxRestartInterval[s] .. t
          <6>1. WindowOf(restarts'[s], s, t) = WindowOf(restarts[s], s, t)
            BY <4>1, <5>2, OtherWindow
          <6>. QED
            BY <6>1, <4>4 DEF WindowBound
        <5>. QED
          BY <5>1, <5>2
      <4>5. CASE ~(MaxRestartInterval[s] > 0)
        <5>1. MaxRestartInterval[s] = 0
          BY <4>5, RestartAssumption
        <5>. QED
          BY <4>1, <4>2, <4>3, <5>1, AdmitLifetime
      <4>. QED
        BY <4>4, <4>5
    <3>. QED
      BY <2>3, <3>1, <3>2
  <2>9. HistFinite'
    BY <2>4, <2>6 DEF HistFinite
  <2>10. HistCovers'
    BY <2>1, <2>4, <2>7 DEF HistCovers, RecentOf
  <2>11. WindowBound'
    BY <2>4, <2>8 DEF WindowBound, WindowOf
  <2>. QED
    BY <2>9, <2>10, <2>11
<1>. QED
  BY <1>1, <1>2
(* Every step keeps RLInv: only the finally block and the clock touch the *)
(* histories and the clock.                                                *)
LEMMA RLStep ==
  ASSUME RLInv, [Next]_vars
  PROVE  RLInv'
<1>. USE DEF RLInv
<1>1. TypeOK'
  BY TypeStep
<1>2. ASSUME NEW s \in Services, Finally(s)
      PROVE  HistFinite' /\ HistCovers' /\ WindowBound'
  BY <1>2, FinallyRL
<1>3. CASE Tick
  BY <1>1, <1>3, RLTick
<1>4. ASSUME NEW s \in Services,
             StartProcess(s) \/ HealthResult(s) \/ RestartHealth(s)
             \/ CloseStep(s) \/ InterruptCaught(s)
      PROVE  UNCHANGED <<hist, restarts, now>>
  BY <1>4 DEF StartProcess, HealthResult, RestartHealth, CloseStep, InterruptCaught
<1>5. ASSUME NEW p \in Pids, ProcExit(p) \/ ChildStart(p) \/ ChildExit(p)
      PROVE  UNCHANGED <<hist, restarts, now>>
  BY <1>5 DEF ProcExit, ChildStart, ChildExit
<1>6. CASE \/ FinishStarting \/ BeginMonitor \/ CloseReturn \/ GatherDone
           \/ Finalize \/ ReconStop \/ InterruptUncaught \/ UNCHANGED vars
  <2>1. UNCHANGED <<hist, restarts, now>>
    BY <1>6 DEF FinishStarting, BeginMonitor, CloseReturn, GatherDone, Finalize,
                ReconStop, InterruptUncaught, vars
  <2>. QED
    BY <1>1, <2>1, RLFrame
<1>7. QED
  <2>1. HistFinite' /\ HistCovers' /\ WindowBound'
    BY <1>2, <1>3, <1>4, <1>5, <1>6, RLFrame DEF Next, Supervise, Environment
  <2>. QED
    BY <1>1, <2>1

(* The rate limit holds in the initial state: nothing was admitted yet.   *)
LEMMA InitRL == Init => RLInv
<1>. SUFFICES ASSUME Init PROVE RLInv
  OBVIOUS
<1>1. TypeOK
  BY InitType
<1>2. HistFinite
  BY FS_EmptySet DEF Init, HistFinite
<1>3. \A s \in Services : Cardinality(restarts[s]) = 0
  BY FS_EmptySet DEF Init
<1>4. WindowBound
  <2>1. \A s \in Services : \A t \in Nat : WindowOf(restarts[s], s, t) = {}
    BY DEF Init, WindowOf
  <2>2. \A s \in Services : \A t \in Nat : Cardinality(WindowOf(restarts[s], s, t)) = 0
    BY <2>1, FS_EmptySet
  <2>. QED
    BY <1>3, <2>2, RestartAssumption DEF WindowBound, Limited
<1>5. HistCovers
  BY DEF Init, HistCovers, RecentOf
<1>. QED
  BY <1>1, <1>2, <1>4, <1>5 DEF RLInv

(* The rate limit of request_restart_attempt holds for every set of      *)
(* descriptors, every max_restart_count and max_restart_interval_seconds *)
(* and every bound: in every window of interval + 1 seconds, or ever when *)
(* the interval is 0, at most max_restart_count restarts of a descriptor *)
(* are admitted, on every platform.                                        *)
THEOREM RateLimited == Spec => []RestartRateLimit
<1>1. Init => RLInv
  BY InitRL
<1>2. RLInv /\ [Next]_vars => RLInv'
  BY RLStep
<1>3. RLInv => RestartRateLimit
  BY DEF RLInv, WindowBound, RestartRateLimit, WindowOf, Limited, TypeOK
<1>. QED
  BY <1>1, <1>2, <1>3, PTL DEF Spec
=============================================================================
