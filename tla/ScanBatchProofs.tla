--------------------------- MODULE ScanBatchProofs ---------------------------
(***************************************************************************)
(* Theorems about ScanBatch, for any number of targets and threads: the     *)
(* pool, the lock, the results and what is left behind.                     *)
(***************************************************************************)
EXTENDS ScanBatch, FiniteSetTheorems, TLAPS

-----------------------------------------------------------------------------
LEMMA Constants ==
  /\ Main \notin Targets /\ Ghost \notin Targets /\ None \notin Targets
  /\ Main # Ghost /\ Main # None /\ Ghost # None /\ None \notin Verdicts
  BY BatchAssumption DEF BatchAssumption, Targets


\* Every step keeps the types.
LEMMA TypeStep == TypeOK /\ [Next]_vars => TypeOK'
<1> SUFFICES ASSUME TypeOK, [Next]_vars PROVE TypeOK'
  OBVIOUS
<1>1. ASSUME NEW i \in Targets, StartCancelled(i) PROVE TypeOK'
  BY <1>1 DEF StartCancelled, TypeOK, clients, Verdicts
<1>2. ASSUME NEW i \in Targets, Start(i) PROVE TypeOK'
  BY <1>2 DEF Start, TypeOK, clients, Verdicts
<1>3. ASSUME NEW i \in Targets, Spawn(i) PROVE TypeOK'
  BY <1>3 DEF Spawn, MayInherit, TypeOK, clients, Verdicts
<1>4. ASSUME NEW i \in Targets, SpawnFails(i) PROVE TypeOK'
  BY <1>4 DEF SpawnFails, TypeOK, clients, Verdicts
<1>5. ASSUME NEW i \in Targets, GiveUp(i) PROVE TypeOK'
  BY <1>5 DEF GiveUp, TypeOK, clients, Verdicts
<1>6. ASSUME NEW i \in Targets, Expire(i) PROVE TypeOK'
  BY <1>6 DEF Expire, TypeOK, clients, Verdicts
<1>7. ASSUME NEW i \in Targets, Receive(i) PROVE TypeOK'
  BY <1>7 DEF Receive, Received, TypeOK, clients, Verdicts
<1>8. ASSUME NEW i \in Targets, Kill(i) PROVE TypeOK'
  BY <1>8 DEF Kill, WorkerEnds, Inside, TypeOK, clients, Verdicts
<1>9. ASSUME NEW i \in Targets, Reclaim(i) PROVE TypeOK'
  BY <1>9 DEF Reclaim, LeasesOf, TypeOK, clients, Verdicts
<1>10. ASSUME NEW i \in Targets, Acquire(i) PROVE TypeOK'
  BY <1>10 DEF Acquire, TypeOK, clients, Verdicts
<1>11. ASSUME NEW i \in Targets, Enter(i) PROVE TypeOK'
  BY <1>11 DEF Enter, CanLock, TypeOK, clients, Verdicts
<1>12. ASSUME NEW i \in Targets, InsideStep(i) PROVE TypeOK'
  BY <1>12 DEF InsideStep, Pass, Grant, Leave, LeaveLock, TypeOK, clients, Verdicts
<1>13. ASSUME NEW i \in Targets, NEW sent \in {"result", "none"}, Report(i, sent) PROVE TypeOK'
  BY <1>13 DEF Report, TypeOK, clients, Verdicts
<1>14. ASSUME NEW i \in Targets, WorkerDies(i) PROVE TypeOK'
  BY <1>14 DEF WorkerDies, WorkerEnds, Inside, TypeOK, clients, Verdicts
<1>15. ASSUME NEW i \in Targets, GhostAcquires(i) PROVE TypeOK'
  BY <1>15 DEF GhostAcquires, TypeOK, clients, Verdicts
<1>16. ASSUME NEW i \in Targets, Collect(i) PROVE TypeOK'
  BY <1>16 DEF Collect, TypeOK, clients, Verdicts
<1>17. ASSUME NEW i \in Targets, Drain(i) PROVE TypeOK'
  BY <1>17 DEF Drain, Salvaged, TypeOK, clients, Verdicts
<1>18. CASE Interrupt
  BY <1>18 DEF Interrupt, MayInherit, TypeOK, clients, Verdicts
<1>19. CASE CancelRun
  BY <1>19 DEF CancelRun, CanCancel, CanLock, TypeOK, clients, Verdicts
<1>20. CASE Return
  BY <1>20 DEF Return, TypeOK, clients, Verdicts
<1>21. CASE UNCHANGED vars
  BY <1>21 DEF vars, TypeOK, clients, Verdicts
<1> QED
  BY <1>1, <1>2, <1>3, <1>4, <1>5, <1>6, <1>7, <1>8, <1>9, <1>10, <1>11, <1>12, <1>13, <1>14,
       <1>15, <1>16, <1>17, <1>18, <1>19, <1>20, <1>21
  DEF Next, MainStep, SupStep, WorkerStep

\* What is known of a target.
Sound(i) == FutureInv(i) /\ SupInv(i) /\ ResultInv(i)

\* A step of a target, its supervisor or its worker keeps what is known of every
\* target; the main thread gives up only when the run is cancelled.
LEMMA SoundStep ==
    TypeOK /\ (\A k \in Targets : Sound(k)) /\ MainInv /\ [Next]_vars =>
        \A k \in Targets : Sound(k)'
<1> SUFFICES ASSUME TypeOK, (\A k \in Targets : Sound(k)), MainInv, [Next]_vars
             PROVE  \A k \in Targets : Sound(k)'
  OBVIOUS
<1>1. ASSUME NEW i \in Targets, StartCancelled(i) PROVE \A k \in Targets : Sound(k)'
  BY <1>1, Constants
  DEF StartCancelled, TypeOK, clients, Sound, FutureInv, SupInv, ResultInv, MainInv, Verdicts
<1>2. ASSUME NEW i \in Targets, Start(i) PROVE \A k \in Targets : Sound(k)'
  BY <1>2, Constants
  DEF Start, TypeOK, clients, Sound, FutureInv, SupInv, ResultInv, MainInv, Verdicts
<1>3. ASSUME NEW i \in Targets, Spawn(i) PROVE \A k \in Targets : Sound(k)'
  BY <1>3, Constants
  DEF Spawn, MayInherit, TypeOK, clients, Sound, FutureInv, SupInv, ResultInv, MainInv,
      Verdicts
<1>4. ASSUME NEW i \in Targets, SpawnFails(i) PROVE \A k \in Targets : Sound(k)'
  BY <1>4, Constants
  DEF SpawnFails, TypeOK, clients, Sound, FutureInv, SupInv, ResultInv, MainInv, Verdicts
<1>5. ASSUME NEW i \in Targets, GiveUp(i) PROVE \A k \in Targets : Sound(k)'
  BY <1>5, Constants
  DEF GiveUp, TypeOK, clients, Sound, FutureInv, SupInv, ResultInv, MainInv, Verdicts
<1>6. ASSUME NEW i \in Targets, Expire(i) PROVE \A k \in Targets : Sound(k)'
  BY <1>6, Constants
  DEF Expire, TypeOK, clients, Sound, FutureInv, SupInv, ResultInv, MainInv, Verdicts
<1>7. ASSUME NEW i \in Targets, Receive(i) PROVE \A k \in Targets : Sound(k)'
  BY <1>7, Constants
  DEF Receive, Received, TypeOK, clients, Sound, FutureInv, SupInv, ResultInv, MainInv,
      Verdicts
<1>8. ASSUME NEW i \in Targets, Kill(i) PROVE \A k \in Targets : Sound(k)'
  BY <1>8, Constants
  DEF Kill, WorkerEnds, Inside, TypeOK, clients, Sound, FutureInv, SupInv, ResultInv, MainInv,
      Verdicts
<1>9. ASSUME NEW i \in Targets, Reclaim(i) PROVE \A k \in Targets : Sound(k)'
  BY <1>9, Constants
  DEF Reclaim, LeasesOf, TypeOK, clients, Sound, FutureInv, SupInv, ResultInv, MainInv,
      Verdicts
<1>10. ASSUME NEW i \in Targets, Acquire(i) PROVE \A k \in Targets : Sound(k)'
  BY <1>10, Constants
  DEF Acquire, TypeOK, clients, Sound, FutureInv, SupInv, ResultInv, MainInv, Verdicts
<1>11. ASSUME NEW i \in Targets, Enter(i) PROVE \A k \in Targets : Sound(k)'
  BY <1>11, Constants
  DEF Enter, CanLock, TypeOK, clients, Sound, FutureInv, SupInv, ResultInv, MainInv, Verdicts
<1>12. ASSUME NEW i \in Targets, InsideStep(i) PROVE \A k \in Targets : Sound(k)'
  BY <1>12, Constants
  DEF InsideStep, Pass, Grant, Leave, LeaveLock, TypeOK, clients, Sound, FutureInv, SupInv, ResultInv, MainInv,
      Verdicts
<1>13. ASSUME NEW i \in Targets, NEW sent \in {"result", "none"}, Report(i, sent)
      PROVE  \A k \in Targets : Sound(k)'
  BY <1>13, Constants
  DEF Report, TypeOK, clients, Sound, FutureInv, SupInv, ResultInv, MainInv, Verdicts
<1>14. ASSUME NEW i \in Targets, WorkerDies(i) PROVE \A k \in Targets : Sound(k)'
  BY <1>14, Constants
  DEF WorkerDies, WorkerEnds, Inside, TypeOK, clients, Sound, FutureInv, SupInv, ResultInv, MainInv,
      Verdicts
<1>15. ASSUME NEW i \in Targets, GhostAcquires(i) PROVE \A k \in Targets : Sound(k)'
  BY <1>15, Constants
  DEF GhostAcquires, TypeOK, clients, Sound, FutureInv, SupInv, ResultInv, MainInv, Verdicts
<1>16. ASSUME NEW i \in Targets, Collect(i) PROVE \A k \in Targets : Sound(k)'
  BY <1>16, Constants
  DEF Collect, TypeOK, clients, Sound, FutureInv, SupInv, ResultInv, MainInv, Verdicts
<1>17. ASSUME NEW i \in Targets, Drain(i) PROVE \A k \in Targets : Sound(k)'
  BY <1>17, Constants
  DEF Drain, Salvaged, TypeOK, clients, Sound, FutureInv, SupInv, ResultInv, MainInv,
      Verdicts
<1>18. CASE Interrupt
  BY <1>18, Constants
  DEF Interrupt, MayInherit, TypeOK, clients, Sound, FutureInv, SupInv, ResultInv, MainInv,
      Verdicts
<1>19. CASE CancelRun
  BY <1>19, Constants
  DEF CancelRun, CanCancel, CanLock, TypeOK, clients, Sound, FutureInv, SupInv, ResultInv, MainInv,
      Verdicts
<1>20. CASE Return
  BY <1>20, Constants
  DEF Return, TypeOK, clients, Sound, FutureInv, SupInv, ResultInv, MainInv, Verdicts
<1>21. CASE UNCHANGED vars
  BY <1>21
  DEF vars, TypeOK, clients, Sound, FutureInv, SupInv, ResultInv, MainInv, Verdicts
<1> QED
  BY <1>1, <1>2, <1>3, <1>4, <1>5, <1>6, <1>7, <1>8, <1>9, <1>10, <1>11, <1>12, <1>13, <1>14,
       <1>15, <1>16, <1>17, <1>18, <1>19, <1>20, <1>21
  DEF Next, MainStep, SupStep, WorkerStep

\* What has been recorded when the batch returns stays as it is.
LEMMA MainInvStep ==
    TypeOK /\ (\A k \in Targets : Sound(k)) /\ MainInv /\ [Next]_vars => MainInv'
<1> SUFFICES ASSUME TypeOK, (\A k \in Targets : Sound(k)), MainInv, [Next]_vars PROVE MainInv'
  OBVIOUS
<1>1. ASSUME NEW i \in Targets, StartCancelled(i) PROVE MainInv'
  BY <1>1, Constants
  DEF StartCancelled, TypeOK, clients, Sound, FutureInv, ResultInv, MainInv, Running
<1>2. ASSUME NEW i \in Targets, Start(i) PROVE MainInv'
  BY <1>2, Constants DEF Start, TypeOK, clients, Sound, FutureInv, ResultInv, MainInv, Running
<1>3. ASSUME NEW i \in Targets, Spawn(i) PROVE MainInv'
  BY <1>3, Constants
  DEF Spawn, MayInherit, TypeOK, clients, Sound, FutureInv, ResultInv, MainInv, Running
<1>4. ASSUME NEW i \in Targets, SpawnFails(i) PROVE MainInv'
  BY <1>4, Constants
  DEF SpawnFails, TypeOK, clients, Sound, FutureInv, ResultInv, MainInv, Running
<1>5. ASSUME NEW i \in Targets, GiveUp(i) PROVE MainInv'
  BY <1>5, Constants DEF GiveUp, TypeOK, clients, Sound, FutureInv, ResultInv, MainInv, Running
<1>6. ASSUME NEW i \in Targets, Expire(i) PROVE MainInv'
  BY <1>6, Constants DEF Expire, TypeOK, clients, Sound, FutureInv, ResultInv, MainInv, Running
<1>7. ASSUME NEW i \in Targets, Receive(i) PROVE MainInv'
  BY <1>7, Constants
  DEF Receive, Received, TypeOK, clients, Sound, FutureInv, ResultInv, MainInv, Running
<1>8. ASSUME NEW i \in Targets, Kill(i) PROVE MainInv'
  BY <1>8, Constants
  DEF Kill, WorkerEnds, Inside, TypeOK, clients, Sound, FutureInv, ResultInv, MainInv, Running
<1>9. ASSUME NEW i \in Targets, Reclaim(i) PROVE MainInv'
  BY <1>9, Constants
  DEF Reclaim, LeasesOf, TypeOK, clients, Sound, FutureInv, ResultInv, MainInv, Running
<1>10. ASSUME NEW i \in Targets, Acquire(i) PROVE MainInv'
  BY <1>10, Constants
  DEF Acquire, TypeOK, clients, Sound, FutureInv, ResultInv, MainInv, Running
<1>11. ASSUME NEW i \in Targets, Enter(i) PROVE MainInv'
  BY <1>11, Constants
  DEF Enter, CanLock, TypeOK, clients, Sound, FutureInv, ResultInv, MainInv, Running
<1>12. ASSUME NEW i \in Targets, InsideStep(i) PROVE MainInv'
  BY <1>12, Constants
  DEF InsideStep, Pass, Grant, Leave, LeaveLock, TypeOK, clients, Sound, FutureInv, ResultInv, MainInv, Running
<1>13. ASSUME NEW i \in Targets, NEW sent \in {"result", "none"}, Report(i, sent)
      PROVE  MainInv'
  BY <1>13, Constants
  DEF Report, TypeOK, clients, Sound, FutureInv, ResultInv, MainInv, Running
<1>14. ASSUME NEW i \in Targets, WorkerDies(i) PROVE MainInv'
  BY <1>14, Constants
  DEF WorkerDies, WorkerEnds, Inside, TypeOK, clients, Sound, FutureInv, ResultInv, MainInv, Running
<1>15. ASSUME NEW i \in Targets, GhostAcquires(i) PROVE MainInv'
  BY <1>15, Constants
  DEF GhostAcquires, TypeOK, clients, Sound, FutureInv, ResultInv, MainInv, Running
<1>16. ASSUME NEW i \in Targets, Collect(i) PROVE MainInv'
  BY <1>16, Constants
  DEF Collect, TypeOK, clients, Sound, FutureInv, ResultInv, MainInv, Running
<1>17. ASSUME NEW i \in Targets, Drain(i) PROVE MainInv'
  BY <1>17, Constants
  DEF Drain, Salvaged, TypeOK, clients, Sound, FutureInv, ResultInv, MainInv, Running
<1>18. CASE Interrupt
  BY <1>18, Constants
  DEF Interrupt, MayInherit, TypeOK, clients, Sound, FutureInv, ResultInv, MainInv, Running
<1>19. CASE CancelRun
  BY <1>19, Constants
  DEF CancelRun, CanCancel, CanLock, TypeOK, clients, Sound, FutureInv, ResultInv, MainInv, Running
<1>20. CASE Return
  BY <1>20, Constants
  DEF Return, TypeOK, clients, Sound, FutureInv, ResultInv, MainInv, Running
<1>21. CASE UNCHANGED vars
  BY <1>21 DEF vars, TypeOK, clients, Sound, FutureInv, ResultInv, MainInv, Running
<1> QED
  BY <1>1, <1>2, <1>3, <1>4, <1>5, <1>6, <1>7, <1>8, <1>9, <1>10, <1>11, <1>12, <1>13, <1>14,
       <1>15, <1>16, <1>17, <1>18, <1>19, <1>20, <1>21
  DEF Next, MainStep, SupStep, WorkerStep

\* An identity is inherited only from a client that no longer lives.
LEMMA LockStep == TypeOK /\ LockInv /\ [Next]_vars => LockInv'
<1> SUFFICES ASSUME TypeOK, LockInv, [Next]_vars PROVE LockInv'
  OBVIOUS
<1>1. ASSUME NEW i \in Targets, StartCancelled(i) PROVE LockInv'
  BY <1>1, Constants DEF StartCancelled, TypeOK, clients, LockInv, CanLock, Lives, Inside
<1>2. ASSUME NEW i \in Targets, Start(i) PROVE LockInv'
  BY <1>2, Constants DEF Start, TypeOK, clients, LockInv, CanLock, Lives, Inside
<1>3. ASSUME NEW i \in Targets, Spawn(i) PROVE LockInv'
  BY <1>3, Constants DEF Spawn, MayInherit, TypeOK, clients, LockInv, CanLock, Lives, Inside
<1>4. ASSUME NEW i \in Targets, SpawnFails(i) PROVE LockInv'
  BY <1>4, Constants DEF SpawnFails, TypeOK, clients, LockInv, CanLock, Lives, Inside
<1>5. ASSUME NEW i \in Targets, GiveUp(i) PROVE LockInv'
  BY <1>5, Constants DEF GiveUp, TypeOK, clients, LockInv, CanLock, Lives, Inside
<1>6. ASSUME NEW i \in Targets, Expire(i) PROVE LockInv'
  BY <1>6, Constants DEF Expire, TypeOK, clients, LockInv, CanLock, Lives, Inside
<1>7. ASSUME NEW i \in Targets, Receive(i) PROVE LockInv'
  BY <1>7, Constants DEF Receive, Received, TypeOK, clients, LockInv, CanLock, Lives, Inside
<1>8. ASSUME NEW i \in Targets, Kill(i) PROVE LockInv'
  BY <1>8, Constants DEF Kill, WorkerEnds, TypeOK, clients, LockInv, CanLock, Lives, Inside
<1>9. ASSUME NEW i \in Targets, Reclaim(i) PROVE LockInv'
  BY <1>9, Constants DEF Reclaim, LeasesOf, TypeOK, clients, LockInv, CanLock, Lives, Inside
<1>10. ASSUME NEW i \in Targets, Acquire(i) PROVE LockInv'
  BY <1>10, Constants DEF Acquire, TypeOK, clients, LockInv, CanLock, Lives, Inside
<1>11. ASSUME NEW i \in Targets, Enter(i) PROVE LockInv'
  BY <1>11, Constants DEF Enter, TypeOK, clients, LockInv, CanLock, Lives, Inside
<1>12. ASSUME NEW i \in Targets, InsideStep(i) PROVE LockInv'
  BY <1>12, Constants DEF InsideStep, Pass, Grant, Leave, LeaveLock, TypeOK, clients, LockInv, CanLock, Lives, Inside
<1>13. ASSUME NEW i \in Targets, NEW sent \in {"result", "none"}, Report(i, sent)
      PROVE  LockInv'
  BY <1>13, Constants DEF Report, TypeOK, clients, LockInv, CanLock, Lives, Inside
<1>14. ASSUME NEW i \in Targets, WorkerDies(i) PROVE LockInv'
  BY <1>14, Constants DEF WorkerDies, WorkerEnds, TypeOK, clients, LockInv, CanLock, Lives, Inside
<1>15. ASSUME NEW i \in Targets, GhostAcquires(i) PROVE LockInv'
  BY <1>15, Constants DEF GhostAcquires, TypeOK, clients, LockInv, CanLock, Lives, Inside
<1>16. ASSUME NEW i \in Targets, Collect(i) PROVE LockInv'
  BY <1>16, Constants DEF Collect, TypeOK, clients, LockInv, CanLock, Lives, Inside
<1>17. ASSUME NEW i \in Targets, Drain(i) PROVE LockInv'
  BY <1>17, Constants DEF Drain, Salvaged, TypeOK, clients, LockInv, CanLock, Lives, Inside
<1>18. CASE Interrupt
  BY <1>18, Constants DEF Interrupt, MayInherit, TypeOK, clients, LockInv, CanLock, Lives, Inside
<1>19. CASE CancelRun
  BY <1>19, Constants DEF CancelRun, CanCancel, TypeOK, clients, LockInv, CanLock, Lives, Inside
<1>20. CASE Return
  BY <1>20, Constants DEF Return, TypeOK, clients, LockInv, CanLock, Lives, Inside
<1>21. CASE UNCHANGED vars
  BY <1>21 DEF vars, TypeOK, clients, LockInv, CanLock, Lives, Inside
<1> QED
  BY <1>1, <1>2, <1>3, <1>4, <1>5, <1>6, <1>7, <1>8, <1>9, <1>10, <1>11, <1>12, <1>13, <1>14,
       <1>15, <1>16, <1>17, <1>18, <1>19, <1>20, <1>21
  DEF Next, MainStep, SupStep, WorkerStep


-----------------------------------------------------------------------------
(* The pool.                                                               *)

LEMMA RunningIsFinite == IsFiniteSet(Running) /\ Cardinality(Running) \in Nat
<1>1. IsFiniteSet(Targets)
  BY FS_Interval, BatchAssumption DEF Targets, BatchAssumption
<1>2. Running \subseteq Targets
  BY DEF Running
<1> QED
  BY <1>1, <1>2, FS_Subset, FS_CardinalityType

\* Only Start() takes a thread.
LEMMA PoolStep == TypeOK /\ (\A k \in Targets : Sound(k)) /\ PoolInv /\ [Next]_vars => PoolInv'
<1> SUFFICES ASSUME TypeOK, (\A k \in Targets : Sound(k)), PoolInv, [Next]_vars PROVE PoolInv'
  OBVIOUS
<1>1. ASSUME Running' \subseteq Running PROVE PoolInv'
  <2>1. Cardinality(Running') <= Cardinality(Running) /\ Cardinality(Running') \in Nat
    BY <1>1, RunningIsFinite, FS_Subset, FS_CardinalityType
  <2> QED
    BY <2>1, RunningIsFinite, BatchAssumption DEF PoolInv, BatchAssumption
<1>2. ASSUME NEW i \in Targets, Start(i) PROVE PoolInv'
  <2>1. Running' = Running \cup {i} /\ i \notin Running /\ Cardinality(Running) < Threads
    BY <1>2 DEF Start, Running, TypeOK
  <2>2. Cardinality(Running') = Cardinality(Running) + 1
    BY <2>1, RunningIsFinite, FS_AddElement
  <2> QED
    BY <2>1, <2>2, RunningIsFinite, BatchAssumption DEF PoolInv, BatchAssumption
<1>3. ASSUME NEW i \in Targets,
             \/ StartCancelled(i) \/ SpawnFails(i) \/ Reclaim(i) \/ Drain(i)
      PROVE  PoolInv'
  <2>1. Running' \subseteq Running
    BY <1>3 DEF StartCancelled, SpawnFails, Reclaim, Drain, Running, TypeOK
  <2> QED
    BY <1>1, <2>1
<1>4. ASSUME UNCHANGED future PROVE PoolInv'
  BY <1>1, <1>4 DEF Running
<1>5. ASSUME NEW i \in Targets,
             \/ Spawn(i) \/ GiveUp(i) \/ Expire(i) \/ Receive(i) \/ Kill(i) \/ WorkerStep(i)
             \/ Collect(i)
      PROVE  PoolInv'
  BY <1>4, <1>5 DEF Spawn, GiveUp, Expire, Receive, Kill, WorkerStep, Acquire, Enter, InsideStep, Pass, Grant, Leave,
                    WorkerDies, GhostAcquires, Report, Collect
<1>6. CASE Interrupt \/ CancelRun \/ Return \/ UNCHANGED vars
  BY <1>4, <1>6 DEF Interrupt, CancelRun, Return, vars
<1> QED
  BY <1>2, <1>3, <1>5, <1>6 DEF Next, MainStep, SupStep

-----------------------------------------------------------------------------
(* The theorems.                                                           *)

LEMMA Initially == Init => IInv
<1> SUFFICES ASSUME Init PROVE IInv
  OBVIOUS
<1>1. TypeOK
  BY DEF Init, TypeOK
<1>2. \A i \in Targets : FutureInv(i) /\ SupInv(i) /\ ResultInv(i)
  BY Constants DEF Init, FutureInv, SupInv, ResultInv, Verdicts
<1>3. MainInv /\ LockInv
  BY DEF Init, MainInv, LockInv, Inside
<1>4. PoolInv
  <2>1. Running = {}
    BY DEF Init, Running
  <2> QED
    BY <2>1, FS_EmptySet, BatchAssumption DEF PoolInv, BatchAssumption
<1> QED
  BY <1>1, <1>2, <1>3, <1>4 DEF IInv

\* The invariant the others follow from is inductive.
THEOREM Invariance == Spec => []IInv
<1>1. IInv /\ [Next]_vars => IInv'
  BY TypeStep, SoundStep, MainInvStep, LockStep, PoolStep DEF IInv, Sound
<1> QED
  BY <1>1, Initially, PTL DEF Spec

\* orchestrator.py:582: never more workers than threads, and one client at a
\* time inside the critical section of traffic.py, reused identities included.
THEOREM Pool == Spec => []PoolAndLock
<1>1. IInv => PoolAndLock
  <2> SUFFICES ASSUME IInv PROVE PoolAndLock
    OBVIOUS
  <2>1. {i \in Targets : worker[i] \notin {"none", "gone"}} \subseteq Running
    BY DEF IInv, FutureInv, SupInv, TypeOK, Running
  <2>2. WorkersAreBounded
    <3> DEFINE alive == {i \in Targets : worker[i] \notin {"none", "gone"}}
    <3>1. Cardinality(alive) <= Cardinality(Running) /\ IsFiniteSet(alive)
      BY <2>1, RunningIsFinite, FS_Subset
    <3>2. Cardinality(alive) \in Nat
      BY <3>1, FS_CardinalityType
    <3> HIDE DEF alive
    <3>3. Cardinality(alive) <= Threads
      BY <3>1, <3>2, RunningIsFinite, BatchAssumption DEF IInv, PoolInv, BatchAssumption
    <3> QED
      BY <3>3 DEF WorkersAreBounded, alive
  <2>3. OneInside
    BY Constants DEF IInv, LockInv, OneInside, Inside
  <2> QED
    BY <2>2, <2>3 DEF IInv, PoolAndLock
<1> QED
  BY <1>1, Invariance, PTL

\* orchestrator.py:552: a result is that of the target's own worker, or that the
\* run was cancelled.
THEOREM OwnResults == Spec => []ResultsAreOwn
<1>1. IInv => ResultsAreOwn
  BY Constants DEF IInv, ResultInv, MainInv, ResultsAreOwn, TypeOK, Verdicts
<1> QED
  BY <1>1, Invariance, PTL

\* orchestrator.py:577: a batch that has returned leaves no worker and no lease.
THEOREM NothingLeft == Spec => []NothingIsLeftBehind
<1>1. IInv => NothingIsLeftBehind
  BY DEF IInv, FutureInv, SupInv, MainInv, NothingIsLeftBehind, TypeOK
<1> QED
  BY <1>1, Invariance, PTL

\* orchestrator.py:690: a recorded result is final, and a finished one is
\* recorded as it was.
THEOREM Kept == Spec => FinishedIsKept
<1>1. IInv /\ [Next]_vars =>
        [\A i \in Targets :
           /\ results[i] # None => results'[i] = results[i]
           /\ results[i] = None /\ results'[i] # None /\ future[i] = "finished"
                => results'[i] = verdict[i]]_vars
  <2> SUFFICES ASSUME IInv, Next, NEW i \in Targets
               PROVE  /\ results[i] # None => results'[i] = results[i]
                      /\ results[i] = None /\ results'[i] # None /\ future[i] = "finished"
                           => results'[i] = verdict[i]
    OBVIOUS
  <2>1. ASSUME UNCHANGED results
        PROVE  /\ results[i] # None => results'[i] = results[i]
               /\ results[i] = None /\ results'[i] # None /\ future[i] = "finished"
                    => results'[i] = verdict[i]
    BY <2>1
  <2>2. CASE \E k \in Targets : Collect(k) \/ Drain(k)
    BY <2>2 DEF Collect, Drain, Salvaged, IInv, TypeOK
  <2>3. CASE ~ \E k \in Targets : Collect(k) \/ Drain(k)
    <3>1. UNCHANGED results
      BY <2>3 DEF Next, MainStep, SupStep, WorkerStep, Interrupt, CancelRun, Return,
                  StartCancelled, Start, Spawn, SpawnFails, GiveUp, Expire, Receive, Kill,
                  Reclaim, Acquire, Enter, InsideStep, Pass, Grant, Leave, WorkerDies, GhostAcquires, Report
    <3> QED
      BY <2>1, <3>1
  <2> QED
    BY <2>2, <2>3
<1> QED
  BY <1>1, Invariance, PTL DEF Spec, FinishedIsKept

\* traffic.py:37: once cancel() has set the flag no lease is granted, because the
\* lock is held from the look at the flag to the lease.
THEOREM NoneAfterCancel == Spec => NoAdmissionAfterCancel
<1>1. IInv /\ [Next]_vars => [cancelled => leases' \subseteq leases]_vars
  <2> SUFFICES ASSUME IInv, Next, cancelled
               PROVE  leases' \subseteq leases
    OBVIOUS
  <2>1. \A k \in Targets : worker[k] # "grant"
    BY DEF IInv, LockInv
  <2>2. ASSUME NEW k \in Targets, Kill(k) \/ WorkerDies(k)
        PROVE  leases' \subseteq leases
    BY <2>1, <2>2 DEF Kill, WorkerDies, WorkerEnds
  <2>3. ASSUME NEW k \in Targets, Grant(k) \/ Leave(k) \/ Reclaim(k)
        PROVE  leases' \subseteq leases
    BY <2>1, <2>3 DEF Grant, Leave, Reclaim
  <2>4. CASE ~ \E k \in Targets :
                 Kill(k) \/ WorkerDies(k) \/ Grant(k) \/ Leave(k) \/ Reclaim(k)
    <3>1. UNCHANGED leases
      BY <2>4 DEF Next, MainStep, SupStep, WorkerStep, Interrupt, CancelRun, Return,
                  StartCancelled, Start, Spawn, SpawnFails, GiveUp, Expire, Receive,
                  Acquire, Enter, InsideStep, Pass, GhostAcquires, Report, Collect, Drain
    <3> QED
      BY <3>1
  <2> QED
    BY <2>2, <2>3, <2>4
<1> QED
  BY <1>1, Invariance, PTL DEF Spec, NoAdmissionAfterCancel

=============================================================================
