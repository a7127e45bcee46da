------------------------------ MODULE ScanBatch ------------------------------
(***************************************************************************)
(* A batch of targets (scan_all, _bounded_scan_target and _target_worker of *)
(* src/orchestrator.py) over the shared admission lock of src/traffic.py.   *)
(*                                                                         *)
(* Each target has a future of the thread pool, a supervisor (the pool      *)
(* thread that runs the future) and a worker process.  The supervisor polls *)
(* the worker's pipe until a result, the deadline or a cancellation, kills  *)
(* the worker, and reclaims its leases under the lock.  The lock lives in   *)
(* the manager process, where a server thread owns it on behalf of a        *)
(* client: when the client is killed inside its critical section, or while  *)
(* its acquire is pending, the thread ends and the lock is never released.  *)
(* The thread identity may then pass to a client that connects later, for   *)
(* which the reentrant lock looks like its own.                             *)
(***************************************************************************)
EXTENDS Naturals, FiniteSets

CONSTANTS
  N,          \* targets of the batch
  Threads,    \* concurrency, the size of the thread pool
  Main,       \* the main thread, as a client of the lock
  Ghost,      \* the server thread of a client that was killed
  None

Targets == 1..N

\* "failed" stands for every failure: no process, no result, deadline.
Verdicts == {"scanned", "failed", "cancelled"}

ASSUME BatchAssumption ==
  /\ N \in Nat /\ Threads \in Nat \ {0}
  /\ {Main, Ghost, None} \cap Nat = {}
  /\ Main # Ghost /\ Main # None /\ Ghost # None /\ None \notin Verdicts

VARIABLES
  future,     \* [Targets -> state of the future]
  sup,        \* [Targets -> where its supervisor is]
  verdict,    \* [Targets -> what the supervisor returns, None before]
  worker,     \* [Targets -> where its worker process is]
  pipe,       \* [Targets -> what the worker has sent]
  lock,       \* the client that owns the manager's lock
  zombies,    \* killed workers whose acquire is still pending in the manager
  heir,       \* a client that shares the identity of the Ghost
  leases,     \* targets with an admission lease
  cancelled,
  main,
  results     \* [Targets -> what the batch has recorded, None before]

clients == <<lock, zombies, heir>>
vars == <<future, sup, verdict, worker, pipe, clients, leases, cancelled, main,
          results>>

Init ==
  /\ future = [i \in Targets |-> "pending"]
  /\ sup = [i \in Targets |-> "none"]
  /\ verdict = [i \in Targets |-> None]
  /\ worker = [i \in Targets |-> "none"]
  /\ pipe = [i \in Targets |-> "empty"]
  /\ lock = None
  /\ zombies = {}
  /\ heir = None
  /\ leases = {}
  /\ cancelled = FALSE
  /\ main = "collect"
  /\ results = [i \in Targets |-> None]

Running == {i \in Targets : future[i] = "running"}

\* Mutant: every process has a lock of its own.
CanAlwaysLock(c) == TRUE

\* c may enter the critical section: the lock is free, or looks like its own.
CanLock(c) == lock = None \/ (lock = Ghost /\ heir = c)

\* i is inside the critical section; its look at `cancelled` has let it pass or not.
Inside(i) == worker[i] \in {"crit", "grant"}

Lives(c) == c = Main \/ (c \in Targets /\ worker[c] # "gone")

\* A new connection of c may be given the identity of the dead server thread,
\* unless a client that lives already has it.
MayInherit(c) ==
  heir' \in IF lock = Ghost /\ ~Lives(heir) THEN {heir, c} ELSE {heir}

-----------------------------------------------------------------------------
(* The supervisor.                                                         *)

\* The pool takes the oldest pending future; a cancelled run starts no worker.
StartCancelled(i) ==
  /\ future[i] = "pending"
  /\ \A j \in Targets : j < i => future[j] # "pending"
  /\ Cardinality(Running) < Threads
  /\ cancelled
  /\ future' = [future EXCEPT ![i] = "finished"]
  /\ verdict' = [verdict EXCEPT ![i] = "cancelled"]
  /\ UNCHANGED <<sup, worker, pipe, clients, leases, cancelled, main, results>>

Start(i) ==
  /\ future[i] = "pending"
  /\ \A j \in Targets : j < i => future[j] # "pending"
  /\ Cardinality(Running) < Threads
  /\ ~cancelled
  /\ future' = [future EXCEPT ![i] = "running"]
  /\ sup' = [sup EXCEPT ![i] = "spawn"]
  /\ UNCHANGED <<verdict, worker, pipe, clients, leases, cancelled, main,
                 results>>

Spawn(i) ==
  /\ sup[i] = "spawn"
  /\ sup' = [sup EXCEPT ![i] = "loop"]
  /\ worker' = [worker EXCEPT ![i] = "work"]
  /\ MayInherit(i)
  /\ UNCHANGED <<future, verdict, pipe, lock, zombies, leases, cancelled, main,
                 results>>

\* process.start() raises: no process, nothing to reclaim.
SpawnFails(i) ==
  /\ sup[i] = "spawn"
  /\ sup' = [sup EXCEPT ![i] = "none"]
  /\ verdict' = [verdict EXCEPT ![i] = "failed"]
  /\ future' = [future EXCEPT ![i] = "finished"]
  /\ UNCHANGED <<worker, pipe, clients, leases, cancelled, main, results>>

\* One loop of polls.  The flag is read outside the lock: it may be set between
\* the look at it and the poll, and what the poll finds then still counts.
GiveUp(i) ==
  /\ sup[i] = "loop"
  /\ cancelled
  /\ sup' = [sup EXCEPT ![i] = "kill"]
  /\ verdict' = [verdict EXCEPT ![i] = "cancelled"]
  /\ UNCHANGED <<future, worker, pipe, clients, leases, cancelled, main,
                 results>>

\* Mutant: the deadline alone does not end the loop.
NotBefore(i) == cancelled

\* Time is not modelled: the deadline may have passed at any look at the clock.
Expired(i) == TRUE

\* The deadline passes; the flag, read again, decides what is said about it.
Expire(i) ==
  /\ sup[i] = "loop"
  /\ Expired(i)
  /\ sup' = [sup EXCEPT ![i] = "kill"]
  /\ verdict' = [verdict EXCEPT
       ![i] = IF cancelled THEN "cancelled" ELSE "failed"]
  /\ UNCHANGED <<future, worker, pipe, clients, leases, cancelled, main,
                 results>>

\* Mutant: the end of the pipe is a result.
AlwaysScanned(i) == "scanned"

Received(i) == IF pipe[i] = "result" THEN "scanned" ELSE "failed"

\* Bytes in the pipe, or its end once the process is gone.
Receive(i) ==
  /\ sup[i] = "loop"
  /\ pipe[i] # "empty" \/ worker[i] = "gone"
  /\ sup' = [sup EXCEPT ![i] = "kill"]
  /\ verdict' = [verdict EXCEPT ![i] = Received(i)]
  /\ UNCHANGED <<future, worker, pipe, clients, leases, cancelled, main,
                 results>>

\* What the end of worker i, wherever it is, does to the lock and the leases.
\* The last change it asked the manager for is made or not.
WorkerEnds(i) ==
  /\ worker' = [worker EXCEPT ![i] = "gone"]
  /\ zombies' = IF worker[i] = "wait" THEN zombies \cup {i} ELSE zombies
  /\ lock' = IF Inside(i) THEN Ghost ELSE lock
  /\ leases' \in CASE worker[i] = "crit"  -> {leases, leases \ {i}}
                   [] worker[i] = "grant" -> {leases, leases \cup {i}}
                   [] OTHER               -> {leases}
  /\ UNCHANGED heir

\* killpg in the finally clause; the worker may have ended by itself.
Kill(i) ==
  /\ sup[i] = "kill"
  /\ sup' = [sup EXCEPT ![i] = "reclaim"]
  /\ WorkerEnds(i)
  /\ UNCHANGED <<future, verdict, pipe, cancelled, main, results>>

\* Mutant: the leases of the killed worker stay.
NothingOf(i) == {}

LeasesOf(i) == leases \cap {i}

\* release_owner(), join, and the future is done.
Reclaim(i) ==
  /\ sup[i] = "reclaim"
  /\ lock = None
  /\ leases' = leases \ LeasesOf(i)
  /\ sup' = [sup EXCEPT ![i] = "none"]
  /\ future' = [future EXCEPT ![i] = "finished"]
  /\ UNCHANGED <<verdict, worker, pipe, clients, cancelled, main, results>>

-----------------------------------------------------------------------------
(* The worker: it admits and releases operations, then sends what it has.   *)

Acquire(i) ==
  /\ worker[i] = "work"
  /\ worker' = [worker EXCEPT ![i] = "wait"]
  /\ UNCHANGED <<future, sup, verdict, pipe, clients, leases, cancelled, main,
                 results>>

Enter(i) ==
  /\ worker[i] = "wait"
  /\ CanLock(i)
  /\ worker' = [worker EXCEPT ![i] = "crit"]
  /\ lock' = IF lock = None THEN i ELSE lock
  /\ UNCHANGED <<future, sup, verdict, pipe, zombies, heir, leases, cancelled,
                 main, results>>

LeaveLock(i) ==
  /\ worker' = [worker EXCEPT ![i] = "work"]
  /\ lock' = IF lock = i THEN None ELSE lock

\* admit(): the first thing inside is the look at `cancelled` ...
Pass(i) ==
  /\ worker[i] = "crit"
  /\ i \notin leases
  /\ ~cancelled
  /\ worker' = [worker EXCEPT ![i] = "grant"]
  /\ UNCHANGED <<future, sup, verdict, pipe, clients, leases, cancelled, main,
                 results>>

\* ... and a lease, or another poll, the last.
Grant(i) ==
  /\ worker[i] = "grant"
  /\ LeaveLock(i)
  /\ leases' \in {leases, leases \cup {i}}
  /\ UNCHANGED <<future, sup, verdict, pipe, zombies, heir, cancelled, main,
                 results>>

\* A held lease is given back; or the run is cancelled and the admission denied.
Leave(i) ==
  /\ worker[i] = "crit"
  /\ i \in leases \/ cancelled
  /\ LeaveLock(i)
  /\ leases' = leases \ {i}
  /\ UNCHANGED <<future, sup, verdict, pipe, zombies, heir, cancelled, main,
                 results>>

InsideStep(i) == Pass(i) \/ Grant(i) \/ Leave(i)

\* The result, or None for an exception.  The worker's own admissions have been
\* left, but a connection of the proxy of an external tool, a daemon thread, may
\* still hold one.
Report(i, sent) ==
  /\ worker[i] = "work"
  /\ worker' = [worker EXCEPT ![i] = "sent"]
  /\ pipe' = [pipe EXCEPT ![i] = sent]
  /\ UNCHANGED <<future, sup, verdict, clients, leases, cancelled, main,
                 results>>

\* The process is gone: after its report, or killed from outside the program.
WorkerDies(i) ==
  /\ worker[i] \in {"work", "wait", "crit", "grant", "sent"}
  /\ WorkerEnds(i)
  /\ UNCHANGED <<future, sup, verdict, pipe, cancelled, main, results>>

\* The manager gives the lock to a client that no longer exists.
GhostAcquires(i) ==
  /\ i \in zombies
  /\ lock = None
  /\ lock' = Ghost
  /\ zombies' = zombies \ {i}
  /\ UNCHANGED <<future, sup, verdict, worker, pipe, heir, leases, cancelled,
                 main, results>>

-----------------------------------------------------------------------------
(* The main thread.                                                        *)

Collect(i) ==
  /\ main = "collect"
  /\ future[i] = "finished"
  /\ results[i] = None
  /\ results' = [results EXCEPT ![i] = verdict[i]]
  /\ UNCHANGED <<future, sup, verdict, worker, pipe, clients, leases,
                 cancelled, main>>

Interrupt ==
  /\ main = "collect"
  /\ main' = "cancel"
  /\ MayInherit(Main)
  /\ UNCHANGED <<future, sup, verdict, worker, pipe, lock, zombies, leases,
                 cancelled, results>>

\* Mutant: cancel() does not take the lock.
CanAlwaysCancel == TRUE

CanCancel == CanLock(Main)

\* traffic.cancel(), under the lock.
CancelRun ==
  /\ main = "cancel"
  /\ CanCancel
  /\ cancelled' = TRUE
  /\ main' = "drain"
  /\ UNCHANGED <<future, sup, verdict, worker, pipe, clients, leases, results>>

\* Mutant: an interrupt gives up every target not yet collected.
GiveAllUp(i) == "cancelled"

Salvaged(i) == IF future[i] = "finished" THEN verdict[i] ELSE "cancelled"

\* In input order: a finished target keeps its result, the others are given up.
Drain(i) ==
  /\ main = "drain"
  /\ results[i] = None
  /\ \A j \in Targets : j < i => results[j] # None
  /\ future' = IF future[i] = "pending"
               THEN [future EXCEPT ![i] = "cancelled"] ELSE future
  /\ results' = [results EXCEPT ![i] = Salvaged(i)]
  /\ UNCHANGED <<sup, verdict, worker, pipe, clients, leases, cancelled, main>>

\* Leaving the executor waits for its threads.
Return ==
  /\ main \in {"collect", "drain"}
  /\ \A i \in Targets : results[i] # None
  /\ Running = {}
  /\ main' = "returned"
  /\ UNCHANGED <<future, sup, verdict, worker, pipe, clients, leases,
                 cancelled, results>>

-----------------------------------------------------------------------------
SupStep(i) ==
  \/ StartCancelled(i) \/ Start(i) \/ Spawn(i) \/ SpawnFails(i)
  \/ GiveUp(i) \/ Expire(i) \/ Receive(i) \/ Kill(i) \/ Reclaim(i)

WorkerStep(i) ==
  \/ Acquire(i) \/ Enter(i) \/ InsideStep(i) \/ WorkerDies(i) \/ GhostAcquires(i)
  \/ \E sent \in {"result", "none"} : Report(i, sent)

MainStep ==
  \/ Interrupt \/ CancelRun \/ Return
  \/ \E i \in Targets : Collect(i) \/ Drain(i)

Next == \/ MainStep
        \/ \E i \in Targets : SupStep(i) \/ WorkerStep(i)

Spec == Init /\ [][Next]_vars

\* Threads run and deadlines pass.  A worker must only leave the critical
\* section it is in; it may hang anywhere else, and nobody has to interrupt.
FairSpec ==
  /\ Spec
  /\ WF_vars(CancelRun) /\ WF_vars(Return)
  /\ \A i \in Targets :
       /\ WF_vars(SupStep(i)) /\ WF_vars(InsideStep(i))
       /\ WF_vars(Collect(i)) /\ WF_vars(Drain(i))

-----------------------------------------------------------------------------
(* Properties.                                                             *)

TypeOK ==
  /\ future \in [Targets -> {"pending", "running", "finished", "cancelled"}]
  /\ sup \in [Targets -> {"none", "spawn", "loop", "kill", "reclaim"}]
  /\ verdict \in [Targets -> Verdicts \cup {None}]
  /\ worker \in [Targets -> {"none", "work", "wait", "crit", "grant", "sent", "gone"}]
  /\ pipe \in [Targets -> {"empty", "result", "none"}]
  /\ lock \in Targets \cup {Ghost, None}
  /\ zombies \subseteq Targets
  /\ heir \in Targets \cup {Main, None}
  /\ leases \subseteq Targets
  /\ cancelled \in BOOLEAN
  /\ main \in {"collect", "cancel", "drain", "returned"}
  /\ results \in [Targets -> Verdicts \cup {None}]

\* Never more workers than the pool has threads, from spawn to kill.
WorkersAreBounded ==
  Cardinality({i \in Targets : worker[i] \notin {"none", "gone"}}) <= Threads

\* One client at a time is inside the critical section, even when a reused
\* thread identity makes a dead client's lock reentrant for another.
OneInside ==
  \A i, j \in Targets : Inside(i) /\ Inside(j) => i = j

\* The two of them and the types: what the pool and the lock are.
PoolAndLock == TypeOK /\ WorkersAreBounded /\ OneInside

\* A returned batch has one result for every target, in input order: the one of
\* the target's own worker, or that the run was cancelled.  A result counts as
\* scanned only if that worker sent it.
ResultsAreOwn ==
  \A i \in Targets :
    /\ main = "returned" => results[i] # None
    /\ results[i] \notin {None, "cancelled"} => results[i] = verdict[i]
    /\ results[i] = "scanned" => pipe[i] = "result"
    /\ results[i] = "cancelled" => cancelled

\* A batch that has returned leaves no worker behind, and no lease.
NothingIsLeftBehind ==
  main = "returned" =>
    /\ \A i \in Targets : worker[i] \in {"none", "gone"}
    /\ leases = {}

\* A recorded result is final, and one that was finished when it is recorded is
\* recorded as it was finished, interrupted or not.
FinishedIsKept ==
  [][\A i \in Targets :
       /\ results[i] # None => results'[i] = results[i]
       /\ results[i] = None /\ results'[i] # None /\ future[i] = "finished"
            => results'[i] = verdict[i]]_vars

\* Once cancel() has set the flag no lease is granted any more: not by a worker
\* that looked at the flag before, nor by one that is killed in its admission,
\* nor when the lock's owner is dead and its identity inherited.
NoAdmissionAfterCancel ==
  [][cancelled => leases' \subseteq leases]_vars

\* The only thing that can keep a batch from returning is a worker that died
\* with the lock, or waiting for it.
ReturnsUnlessLockIsLost == <>(main = "returned") \/ <>[](lock = Ghost)

\* docs/ARCHITECTURE.md: "The parent terminates an expired target worker and its
\* process group on POSIX, retaining sibling results."  So the batch returns.
BatchReturns == <>(main = "returned")

-----------------------------------------------------------------------------
(* The inductive invariant of the safety properties.                       *)

\* A target that is not running has nothing that runs; one that is finished has
\* a verdict, and its worker and its leases are gone.
FutureInv(i) ==
  /\ future[i] \in {"pending", "cancelled"} =>
       sup[i] = "none" /\ verdict[i] = None /\ worker[i] = "none"
  /\ future[i] = "pending" => results[i] = None
  /\ future[i] = "cancelled" => results[i] = "cancelled"
  /\ future[i] = "running" <=> sup[i] # "none"
  /\ future[i] = "finished" =>
       verdict[i] # None /\ worker[i] \in {"none", "gone"} /\ i \notin leases

\* There is a verdict when the loop has ended, and a worker since the spawn.
SupInv(i) ==
  /\ sup[i] \in {"spawn", "loop"} => verdict[i] = None
  /\ sup[i] \in {"kill", "reclaim"} => verdict[i] # None
  /\ sup[i] = "spawn" => worker[i] = "none"
  /\ sup[i] = "reclaim" => worker[i] = "gone"
  /\ worker[i] = "none" => i \notin leases

\* A verdict and a result have the cause they state.
ResultInv(i) ==
  /\ worker[i] \in {"none", "work", "wait", "crit", "grant"} => pipe[i] = "empty"
  /\ verdict[i] = "scanned" => pipe[i] = "result"
  /\ verdict[i] = "cancelled" => cancelled
  /\ results[i] \notin {None, "cancelled"} =>
       future[i] = "finished" /\ results[i] = verdict[i]
  /\ results[i] = "cancelled" => cancelled

MainInv ==
  /\ main = "drain" => cancelled
  /\ main = "returned" =>
       \A i \in Targets : results[i] # None /\ future[i] \in {"finished", "cancelled"}

\* Who is inside has the lock, or the identity of the dead client that has it.
\* So cancel() finds nobody between the look at the flag and the lease.
LockInv ==
  \A i \in Targets :
    /\ Inside(i) => lock = i \/ (lock = Ghost /\ heir = i)
    /\ worker[i] = "grant" => ~cancelled

PoolInv == Cardinality(Running) <= Threads

IInv ==
  /\ TypeOK
  /\ \A i \in Targets : FutureInv(i) /\ SupInv(i) /\ ResultInv(i)
  /\ MainInv
  /\ LockInv
  /\ PoolInv
=============================================================================
