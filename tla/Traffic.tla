------------------------------- MODULE Traffic -------------------------------
(***************************************************************************)
(* Run-wide admission (src/traffic.py): threads of the worker processes ask *)
(* one shared controller before each network operation.  An admission reads *)
(* the clock, waits for the shared lock, and then is denied, granted a      *)
(* lease, or sent back to poll.  Everything done under the lock is one      *)
(* step here; ScanBatch takes that step apart.                              *)
(*                                                                         *)
(* A request is one thread's call of admit(); it asks again after it is     *)
(* done, each time with a fresh lease.                                      *)
(***************************************************************************)
EXTENDS Naturals, FiniteSets

CONSTANTS
  Requests, Workers, Origins, Engines,
  Owner,             \* [Requests -> Workers], the process of the thread
  Provider,          \* the engine with a call budget of its own
  Concurrency, PerOrigin, MaxOperations, MaxProviderCalls,
  GlobalGap, OriginGap,   \* 1 / rate, in ticks
  Horizon,           \* bound on the clock and on deadlines
  None               \* no origin, no engine

ASSUME TrafficAssumption ==
  /\ IsFiniteSet(Requests)
  /\ Owner \in [Requests -> Workers]
  /\ Provider \in Engines /\ None \notin Origins \cup Engines
  /\ Concurrency \in Nat \ {0} /\ PerOrigin \in Nat \ {0}
  /\ MaxOperations \in Nat /\ MaxProviderCalls \in Nat
  /\ GlobalGap \in Nat /\ OriginGap \in Nat /\ Horizon \in Nat

VARIABLES
  now,          \* the monotonic clock
  cancelled,
  leases,       \* requests that have a lease
  next, nextOf, \* earliest next admission, for all and for each origin
  operations, calls, peak,   \* counters
  pc, stamp, deadline, origin, engine,  \* locals of admit()
  alive,        \* worker processes not killed
  log           \* history: one record per admission

shared == <<cancelled, leases, next, nextOf, operations, calls, peak, log>>
ask    == <<deadline, origin, engine>>
vars   == <<now, shared, pc, stamp, ask, alive>>

Init ==
  /\ now = 0
  /\ cancelled = FALSE
  /\ leases = {}
  /\ next = 0
  /\ nextOf = [o \in Origins |-> 0]
  /\ operations = 0
  /\ calls = [g \in Engines |-> 0]
  /\ peak = 0
  /\ pc = [r \in Requests |-> "idle"]
  /\ stamp = [r \in Requests |-> 0]
  /\ deadline = [r \in Requests |-> 0]
  /\ origin = [r \in Requests |-> None]
  /\ engine = [r \in Requests |-> None]
  /\ alive = Workers
  /\ log = {}

Tick ==
  /\ now < Horizon
  /\ now' = now + 1
  /\ UNCHANGED <<shared, pc, stamp, ask, alive>>

Ask(r, o, g, d) ==
  /\ pc[r] = "idle"
  /\ Owner[r] \in alive
  /\ pc' = [pc EXCEPT ![r] = "poll"]
  /\ origin' = [origin EXCEPT ![r] = o]
  /\ engine' = [engine EXCEPT ![r] = g]
  /\ deadline' = [deadline EXCEPT ![r] = d]
  /\ UNCHANGED <<now, shared, stamp, alive>>

\* The clock is read before the lock is taken.
ReadClock(r) ==
  /\ pc[r] = "poll"
  /\ pc' = [pc EXCEPT ![r] = "enter"]
  /\ stamp' = [stamp EXCEPT ![r] = now]
  /\ UNCHANGED <<now, shared, ask, alive>>

-----------------------------------------------------------------------------
(* Under the lock.                                                         *)

\* Mutant: the deadline is not looked at.
StoppedByCancel(r) == cancelled

Stopped(r) == cancelled \/ stamp[r] >= deadline[r]

Exhausted(r) ==
  \/ operations >= MaxOperations
  \/ engine[r] = Provider /\ calls[Provider] >= MaxProviderCalls

\* The leases that have not run out at the time the request has read.
Unexpired(r) == {q \in leases : deadline[q] > stamp[r]}

\* Mutants: one lease too many; no pace.
RoomForOneMore(r) == Cardinality(Unexpired(r)) <= Concurrency
RoomAtOnce(r) == Cardinality(Unexpired(r)) < Concurrency

Room(r) ==
  /\ Cardinality(Unexpired(r)) < Concurrency
  /\ Cardinality({q \in Unexpired(r) : origin[q] = origin[r]}) < PerOrigin
  /\ stamp[r] >= next
  /\ stamp[r] >= nextOf[origin[r]]

After(t, gap) == t + gap

\* admit() is left: its locals are gone.
Return(r) ==
  /\ pc' = [pc EXCEPT ![r] = "idle"]
  /\ stamp' = [stamp EXCEPT ![r] = 0]
  /\ deadline' = [deadline EXCEPT ![r] = 0]
  /\ origin' = [origin EXCEPT ![r] = None]
  /\ engine' = [engine EXCEPT ![r] = None]

DenyStopped(r) ==
  /\ pc[r] = "enter"
  /\ Stopped(r)
  /\ Return(r)
  /\ UNCHANGED <<now, shared, alive>>

DenyExhausted(r) ==
  /\ pc[r] = "enter"
  /\ ~Stopped(r)
  /\ Exhausted(r)
  /\ leases' = Unexpired(r)
  /\ Return(r)
  /\ UNCHANGED <<now, cancelled, next, nextOf, operations, calls, peak, log, alive>>

PollAgain(r) ==
  /\ pc[r] = "enter"
  /\ ~Stopped(r) /\ ~Exhausted(r) /\ ~Room(r)
  /\ leases' = Unexpired(r)
  /\ pc' = [pc EXCEPT ![r] = "poll"]
  /\ UNCHANGED <<now, cancelled, next, nextOf, operations, calls, peak, log,
                 stamp, ask, alive>>

Grant(r) ==
  /\ pc[r] = "enter"
  /\ ~Stopped(r) /\ ~Exhausted(r) /\ Room(r)
  /\ leases' = Unexpired(r) \cup {r}
  /\ next' = After(stamp[r], GlobalGap)
  /\ nextOf' = [nextOf EXCEPT ![origin[r]] = After(stamp[r], OriginGap)]
  /\ operations' = operations + 1
  /\ calls' = [calls EXCEPT ![engine[r]] = @ + 1]
  /\ peak' = IF peak < Cardinality(Unexpired(r)) + 1
             THEN Cardinality(Unexpired(r)) + 1 ELSE peak
  /\ log' = log \cup {[n |-> operations + 1, origin |-> origin[r]]}
  /\ pc' = [pc EXCEPT ![r] = "held"]
  /\ UNCHANGED <<now, cancelled, stamp, ask, alive>>

\* The finally clause; the lease may be gone already.
Release(r) ==
  /\ pc[r] = "held"
  /\ leases' = leases \ {r}
  /\ Return(r)
  /\ UNCHANGED <<now, cancelled, next, nextOf, operations, calls, peak, log, alive>>

OwnedBy(w) == {q \in leases : Owner[q] = w}

\* The parent reclaims what a killed worker held.
ReleaseOwner(w) ==
  /\ w \notin alive
  /\ leases' = leases \ OwnedBy(w)
  /\ UNCHANGED <<now, cancelled, next, nextOf, operations, calls, peak, log,
                 pc, stamp, ask, alive>>

Cancel ==
  /\ cancelled' = TRUE
  /\ UNCHANGED <<now, leases, next, nextOf, operations, calls, peak, log,
                 pc, stamp, ask, alive>>

\* SIGKILL: the threads are gone, their leases stay.
Kill(w) ==
  /\ w \in alive
  /\ alive' = alive \ {w}
  /\ pc' = [r \in Requests |-> IF Owner[r] = w THEN "gone" ELSE pc[r]]
  /\ UNCHANGED <<now, shared, stamp, ask>>

-----------------------------------------------------------------------------
Decide(r) == DenyStopped(r) \/ DenyExhausted(r) \/ PollAgain(r) \/ Grant(r)

Next ==
  \/ Tick \/ Cancel
  \/ \E r \in Requests :
       \/ \E o \in Origins, g \in Engines, d \in 1..Horizon : Ask(r, o, g, d)
       \/ ReadClock(r) \/ Decide(r) \/ Release(r)
  \/ \E w \in Workers : Kill(w) \/ ReleaseOwner(w)

Spec == Init /\ [][Next]_vars

-----------------------------------------------------------------------------
(* Properties.                                                             *)

LogEntry == [n : Nat \ {0}, origin : Origins]

TypeOK ==
  /\ now \in Nat /\ cancelled \in BOOLEAN
  /\ leases \subseteq Requests
  /\ next \in Nat /\ nextOf \in [Origins -> Nat]
  /\ operations \in Nat /\ calls \in [Engines -> Nat] /\ peak \in Nat
  /\ pc \in [Requests -> {"idle", "poll", "enter", "held", "gone"}]
  /\ stamp \in [Requests -> Nat] /\ deadline \in [Requests -> Nat]
  /\ origin \in [Requests -> Origins \cup {None}]
  /\ engine \in [Requests -> Engines \cup {None}]
  /\ alive \subseteq Workers
  /\ log \subseteq LogEntry

\* Work that is admitted and not past its deadline.
Working == {r \in Requests : pc[r] = "held" /\ deadline[r] > now}

\* Leases that expire, are released twice or are reclaimed from a dead worker
\* never let more live work through than the run and each origin may carry.
WorkIsBounded ==
  /\ Cardinality(Working) <= Concurrency
  /\ \A o \in Origins : Cardinality({r \in Working : origin[r] = o}) <= PerOrigin

\* The lease table itself is within both limits, and so is the reported peak.
LeasesAreBounded ==
  /\ Cardinality(leases) <= Concurrency
  /\ \A o \in Origins : Cardinality({r \in leases : origin[r] = o}) <= PerOrigin
  /\ peak <= Concurrency

\* The operation and the provider budget are never exceeded, by however many
\* workers, and every admission is counted exactly once.
BudgetsAreKept ==
  /\ Cardinality(log) = operations
  /\ operations <= MaxOperations
  /\ calls[Provider] <= MaxProviderCalls
  /\ calls[Provider] <= operations

\* All limits at once: work that is under way, and work in all.
LimitsAreKept == WorkIsBounded /\ BudgetsAreKept

\* The long-run rate: however long threads wait for the lock with an old clock
\* reading, n admissions take at least n - 1 gaps.
RateIsKept == operations * GlobalGap <= now + GlobalGap

\* The same for every origin.
OriginRateIsKept ==
  \A o \in Origins :
    Cardinality({e \in log : e.origin = o}) * OriginGap <= now + OriginGap

\* Both rates, as a run and its origins are promised them.
RatesAreKept == RateIsKept /\ OriginRateIsKept

-----------------------------------------------------------------------------
(* The inductive invariant behind them.                                    *)

\* A lease belongs to a thread that holds it or was killed with it, and live
\* work that is not past its deadline has its lease.
HolderInv ==
  /\ \A r \in leases : pc[r] \in {"held", "gone"}
  /\ Working \subseteq leases
  /\ \A r \in Requests : stamp[r] <= now
  /\ \A r \in Requests : pc[r] = "gone" <=> Owner[r] \notin alive

\* The history is what the counters count.
CountInv ==
  /\ IsFiniteSet(log)
  /\ \A e \in log : e.n <= operations

\* The schedule is never further than one gap ahead of the clock.
RateInv == operations * GlobalGap <= next /\ next <= now + GlobalGap

OriginRateInv == \A o \in Origins :
  /\ Cardinality({e \in log : e.origin = o}) * OriginGap <= nextOf[o]
  /\ nextOf[o] <= now + OriginGap

\* A request inside admit() knows what it asks for.
AskInv == \A r \in Requests :
  pc[r] \in {"poll", "enter", "held"} => origin[r] \in Origins /\ engine[r] \in Engines

IInv == /\ TypeOK /\ AskInv /\ HolderInv /\ LeasesAreBounded
        /\ CountInv /\ BudgetsAreKept /\ RateInv /\ OriginRateInv

-----------------------------------------------------------------------------
\* An admission is answered: granted or denied, at the latest by its deadline
\* (under the fairness of Engines).
AdmissionEnds ==
  \A r \in Requests : pc[r] = "poll" ~> pc[r] \in {"held", "idle", "gone"}
=============================================================================
