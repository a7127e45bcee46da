---------------------------- MODULE TrafficProofs ----------------------------
(* Theorems about Traffic and about the engines that go through it, for any   *)
(* number of workers, threads and origins.                                   *)
EXTENDS Engines, FiniteSetTheorems, TLAPS

\* Every step keeps the types.
LEMMA TypePreserved ==
  ASSUME TypeOK, AskInv, [Next]_vars
  PROVE  TypeOK' /\ AskInv'
<1> USE TrafficAssumption DEF vars, shared, ask, TypeOK, AskInv, LogEntry, Unexpired, Return
<1>1. ASSUME Tick
      PROVE  TypeOK' /\ AskInv'
  BY <1>1 DEF Tick
<1>2. ASSUME Cancel
      PROVE  TypeOK' /\ AskInv'
  BY <1>2 DEF Cancel
<1>3. ASSUME NEW r \in Requests, NEW o \in Origins, NEW g \in Engines, NEW d \in 1..Horizon,
             Ask(r, o, g, d)
      PROVE  TypeOK' /\ AskInv'
  BY <1>3 DEF Ask
<1>4. ASSUME NEW r \in Requests, ReadClock(r)
      PROVE  TypeOK' /\ AskInv'
  BY <1>4 DEF ReadClock
<1>5. ASSUME NEW r \in Requests, DenyStopped(r)
      PROVE  TypeOK' /\ AskInv'
  BY <1>5 DEF DenyStopped
<1>6. ASSUME NEW r \in Requests, DenyExhausted(r)
      PROVE  TypeOK' /\ AskInv'
  BY <1>6 DEF DenyExhausted
<1>7. ASSUME NEW r \in Requests, PollAgain(r)
      PROVE  TypeOK' /\ AskInv'
  BY <1>7 DEF PollAgain
<1>8. ASSUME NEW r \in Requests, Grant(r)
      PROVE  TypeOK' /\ AskInv'
  BY <1>8 DEF Grant, Stopped, Exhausted, Room, After
<1>9. ASSUME NEW r \in Requests, Release(r)
      PROVE  TypeOK' /\ AskInv'
  BY <1>9 DEF Release
<1>10. ASSUME NEW w \in Workers, Kill(w)
      PROVE  TypeOK' /\ AskInv'
  BY <1>10 DEF Kill
<1>11. ASSUME NEW w \in Workers, ReleaseOwner(w)
      PROVE  TypeOK' /\ AskInv'
  BY <1>11 DEF ReleaseOwner, OwnedBy
<1>12. CASE UNCHANGED vars
  BY <1>12 DEF vars
<1> HIDE DEF vars, shared, ask, TypeOK, AskInv, LogEntry, Unexpired, Return
<1>13. QED
  BY <1>1, <1>2, <1>3, <1>4, <1>5, <1>6, <1>7, <1>8, <1>9, <1>10, <1>11, <1>12 DEF Next, Decide

\* Every step keeps leases with the threads that hold them: only leases that have
\* run out at an earlier clock reading, or of a dead worker, are reclaimed.
LEMMA HolderPreserved ==
  ASSUME TypeOK, AskInv, HolderInv, [Next]_vars
  PROVE  HolderInv'
<1> USE TrafficAssumption DEF vars, shared, ask, TypeOK, HolderInv, Working, Unexpired, Return
<1>1. ASSUME Tick
      PROVE  HolderInv'
  BY <1>1 DEF Tick
<1>2. ASSUME Cancel
      PROVE  HolderInv'
  BY <1>2 DEF Cancel
<1>3. ASSUME NEW r \in Requests, NEW o \in Origins, NEW g \in Engines, NEW d \in 1..Horizon,
             Ask(r, o, g, d)
      PROVE  HolderInv'
  BY <1>3 DEF Ask
<1>4. ASSUME NEW r \in Requests, ReadClock(r)
      PROVE  HolderInv'
  BY <1>4 DEF ReadClock
<1>5. ASSUME NEW r \in Requests, DenyStopped(r)
      PROVE  HolderInv'
  BY <1>5 DEF DenyStopped
<1>6. ASSUME NEW r \in Requests, DenyExhausted(r)
      PROVE  HolderInv'
  BY <1>6 DEF DenyExhausted
<1>7. ASSUME NEW r \in Requests, PollAgain(r)
      PROVE  HolderInv'
  BY <1>7 DEF PollAgain
<1>8. ASSUME NEW r \in Requests, Grant(r)
      PROVE  HolderInv'
  BY <1>8 DEF Grant, Stopped, Exhausted, Room, After
<1>9. ASSUME NEW r \in Requests, Release(r)
      PROVE  HolderInv'
  BY <1>9 DEF Release
<1>10. ASSUME NEW w \in Workers, Kill(w)
      PROVE  HolderInv'
  BY <1>10 DEF Kill
<1>11. ASSUME NEW w \in Workers, ReleaseOwner(w)
      PROVE  HolderInv'
  BY <1>11 DEF ReleaseOwner, OwnedBy
<1>12. CASE UNCHANGED vars
  BY <1>12 DEF vars
<1> HIDE DEF vars, shared, ask, TypeOK, HolderInv, Working, Unexpired, Return
<1>13. QED
  BY <1>1, <1>2, <1>3, <1>4, <1>5, <1>6, <1>7, <1>8, <1>9, <1>10, <1>11, <1>12 DEF Next, Decide

\* A set of requests is no larger than one that contains it, also when only the
\* members with a property are counted.
LEMMA SmallerCount ==
  ASSUME NEW S, NEW T, IsFiniteSet(T), S \subseteq T
  PROVE  /\ IsFiniteSet(S)
         /\ Cardinality(S) \in Nat /\ Cardinality(T) \in Nat
         /\ Cardinality(S) <= Cardinality(T)
BY FS_Subset, FS_CardinalityType

\* Adding one element adds at most one.
LEMMA OneMoreCount ==
  ASSUME NEW S, NEW x, IsFiniteSet(S)
  PROVE  /\ IsFiniteSet(S \cup {x})
         /\ Cardinality(S) \in Nat
         /\ Cardinality(S \cup {x}) \in Nat
         /\ Cardinality(S \cup {x}) <= Cardinality(S) + 1
BY FS_AddElement, FS_CardinalityType

\* Leases and peak are within the limits of the run and of every origin when
\* leases only go away and the origins of the others stay.
LEMMA FewerLeases ==
  ASSUME TypeOK, LeasesAreBounded, leases' \subseteq leases, peak' = peak,
         \A q \in leases' : origin'[q] = origin[q]
  PROVE  LeasesAreBounded'
<1> USE TrafficAssumption DEF TypeOK, LeasesAreBounded
<1>1. IsFiniteSet(leases)
  BY FS_Subset
<1>2. Cardinality(leases') <= Concurrency
  BY <1>1, SmallerCount
<1>3. ASSUME NEW o \in Origins
      PROVE  Cardinality({r \in leases' : origin'[r] = o}) <= PerOrigin
  <2>1. {r \in leases' : origin'[r] = o} \subseteq {r \in leases : origin[r] = o}
    OBVIOUS
  <2>2. IsFiniteSet({r \in leases : origin[r] = o})
    BY <1>1, FS_Subset
  <2>3. QED  BY <2>1, <2>2, SmallerCount
<1>4. QED  BY <1>2, <1>3

\* Every step keeps the lease table within the limits.
LEMMA LeasesPreserved ==
  ASSUME TypeOK, HolderInv, LeasesAreBounded, [Next]_vars
  PROVE  LeasesAreBounded'
<1> USE TrafficAssumption DEF vars, shared, ask, TypeOK, HolderInv, LeasesAreBounded, Return
<1>1. ASSUME Tick
      PROVE  LeasesAreBounded'
  BY <1>1, FewerLeases DEF Tick
<1>2. ASSUME Cancel
      PROVE  LeasesAreBounded'
  BY <1>2, FewerLeases DEF Cancel
<1>3. ASSUME NEW r \in Requests, NEW o \in Origins, NEW g \in Engines, NEW d \in 1..Horizon,
             Ask(r, o, g, d)
      PROVE  LeasesAreBounded'
  BY <1>3, FewerLeases DEF Ask
<1>4. ASSUME NEW r \in Requests, ReadClock(r)
      PROVE  LeasesAreBounded'
  BY <1>4, FewerLeases DEF ReadClock
<1>5. ASSUME NEW r \in Requests, DenyStopped(r)
      PROVE  LeasesAreBounded'
  BY <1>5, FewerLeases DEF DenyStopped
<1>6. ASSUME NEW r \in Requests, DenyExhausted(r)
      PROVE  LeasesAreBounded'
  BY <1>6, FewerLeases DEF DenyExhausted, Unexpired
<1>7. ASSUME NEW r \in Requests, PollAgain(r)
      PROVE  LeasesAreBounded'
  BY <1>7, FewerLeases DEF PollAgain, Unexpired
<1>8. ASSUME NEW r \in Requests, Grant(r)
      PROVE  LeasesAreBounded'
  <2>1. IsFiniteSet(leases) /\ Unexpired(r) \subseteq leases
           /\ IsFiniteSet(Unexpired(r))
    BY FS_Subset DEF Unexpired
  <2>2. /\ leases' = Unexpired(r) \cup {r}
        /\ Cardinality(Unexpired(r)) < Concurrency
        /\ Cardinality({q \in Unexpired(r) : origin[q] = origin[r]}) < PerOrigin
        /\ origin' = origin
        /\ peak' = IF peak < Cardinality(Unexpired(r)) + 1
                   THEN Cardinality(Unexpired(r)) + 1 ELSE peak
    BY <1>8 DEF Grant, Room, After
  <2>3. Cardinality(leases') <= Concurrency
    <3>1. /\ Cardinality(Unexpired(r)) \in Nat
          /\ Cardinality(Unexpired(r) \cup {r}) \in Nat
          /\ Cardinality(Unexpired(r) \cup {r}) <= Cardinality(Unexpired(r)) + 1
      BY <2>1, OneMoreCount
    <3>2. QED  BY <2>2, <3>1
  <2>4. ASSUME NEW x \in Origins
        PROVE  Cardinality({q \in leases' : origin'[q] = x}) <= PerOrigin
    <3> DEFINE old == {q \in Unexpired(r) : origin[q] = x}
               new == {q \in leases' : origin'[q] = x}
    <3>1. IsFiniteSet(old) /\ IsFiniteSet({q \in leases : origin[q] = x})
      BY <2>1, FS_Subset
    <3>2. CASE origin[r] = x
      <4>1. new = old \cup {r}
        BY <2>2, <3>2
      <4>2. Cardinality(old) < PerOrigin
        BY <2>2, <3>2
      <4> HIDE DEF old, new
      <4>3. /\ Cardinality(old) \in Nat
            /\ Cardinality(old \cup {r}) \in Nat
            /\ Cardinality(old \cup {r}) <= Cardinality(old) + 1
        BY <3>1, OneMoreCount
      <4>4. Cardinality(new) <= PerOrigin
        BY <4>1, <4>2, <4>3
      <4>5. QED  BY <4>4 DEF new
    <3>3. CASE origin[r] # x
      <4>1. new = old
        BY <2>2, <3>3
      <4>2. old \subseteq {q \in leases : origin[q] = x}
        BY <2>1
      <4>3. /\ Cardinality(old) \in Nat
            /\ Cardinality({q \in leases : origin[q] = x}) \in Nat
            /\ Cardinality(old) <= Cardinality({q \in leases : origin[q] = x})
        BY <3>1, <4>2, SmallerCount
      <4>4. Cardinality(old) <= PerOrigin
        BY <4>3
      <4>5. QED  BY <4>1, <4>4
    <3>4. QED  BY <3>2, <3>3
  <2>5. peak' <= Concurrency
    BY <2>1, <2>2, FS_CardinalityType
  <2>6. QED  BY <2>3, <2>4, <2>5
<1>9. ASSUME NEW r \in Requests, Release(r)
      PROVE  LeasesAreBounded'
  BY <1>9, FewerLeases DEF Release
<1>10. ASSUME NEW w \in Workers, Kill(w)
      PROVE  LeasesAreBounded'
  BY <1>10, FewerLeases DEF Kill
<1>11. ASSUME NEW w \in Workers, ReleaseOwner(w)
      PROVE  LeasesAreBounded'
  BY <1>11, FewerLeases DEF ReleaseOwner, OwnedBy
<1>12. CASE UNCHANGED vars
  BY <1>12 DEF vars
<1> HIDE DEF vars, shared, ask, TypeOK, HolderInv, LeasesAreBounded, Return
<1>13. QED
  BY <1>1, <1>2, <1>3, <1>4, <1>5, <1>6, <1>7, <1>8, <1>9, <1>10, <1>11, <1>12 DEF Next, Decide

\* Every step counts each admission once and stays within the budgets.
LEMMA CountPreserved ==
  ASSUME TypeOK, AskInv, CountInv, BudgetsAreKept, [Next]_vars
  PROVE  CountInv' /\ BudgetsAreKept'
<1> USE TrafficAssumption DEF vars, shared, ask, TypeOK, AskInv, LogEntry, CountInv, BudgetsAreKept, Return
<1>1. ASSUME Tick
      PROVE  CountInv' /\ BudgetsAreKept'
  BY <1>1 DEF Tick
<1>2. ASSUME Cancel
      PROVE  CountInv' /\ BudgetsAreKept'
  BY <1>2 DEF Cancel
<1>3. ASSUME NEW r \in Requests, NEW o \in Origins, NEW g \in Engines, NEW d \in 1..Horizon,
             Ask(r, o, g, d)
      PROVE  CountInv' /\ BudgetsAreKept'
  BY <1>3 DEF Ask
<1>4. ASSUME NEW r \in Requests, ReadClock(r)
      PROVE  CountInv' /\ BudgetsAreKept'
  BY <1>4 DEF ReadClock
<1>5. ASSUME NEW r \in Requests, DenyStopped(r)
      PROVE  CountInv' /\ BudgetsAreKept'
  BY <1>5 DEF DenyStopped
<1>6. ASSUME NEW r \in Requests, DenyExhausted(r)
      PROVE  CountInv' /\ BudgetsAreKept'
  BY <1>6 DEF DenyExhausted
<1>7. ASSUME NEW r \in Requests, PollAgain(r)
      PROVE  CountInv' /\ BudgetsAreKept'
  BY <1>7 DEF PollAgain
<1>8. ASSUME NEW r \in Requests, Grant(r)
      PROVE  CountInv' /\ BudgetsAreKept'
  <2>1. /\ operations' = operations + 1
        /\ log' = log \cup {[n |-> operations + 1, origin |-> origin[r]]}
        /\ calls' = [calls EXCEPT ![engine[r]] = @ + 1]
        /\ operations < MaxOperations
        /\ engine[r] = Provider => calls[Provider] < MaxProviderCalls
    BY <1>8 DEF Grant, Exhausted
  <2>2. /\ IsFiniteSet(log')
        /\ Cardinality(log') = Cardinality(log) + 1
    <3>1. [n |-> operations + 1, origin |-> origin[r]] \notin log
      OBVIOUS
    <3>2. QED  BY <2>1, <3>1, FS_AddElement
  <2>3. calls'[Provider] <= MaxProviderCalls /\ calls'[Provider] <= operations'
    <3>1. engine[r] \in Engines
      BY <1>8 DEF Grant
    <3>2. calls'[Provider] = IF engine[r] = Provider THEN calls[Provider] + 1
                            ELSE calls[Provider]
      BY <2>1, <3>1
    <3>3. QED  BY <2>1, <3>2
  <2>4. \A e \in log' : e.n <= operations'
    BY <2>1
  <2>5. QED  BY <2>1, <2>2, <2>3, <2>4
<1>9. ASSUME NEW r \in Requests, Release(r)
      PROVE  CountInv' /\ BudgetsAreKept'
  BY <1>9 DEF Release
<1>10. ASSUME NEW w \in Workers, Kill(w)
      PROVE  CountInv' /\ BudgetsAreKept'
  BY <1>10 DEF Kill
<1>11. ASSUME NEW w \in Workers, ReleaseOwner(w)
      PROVE  CountInv' /\ BudgetsAreKept'
  BY <1>11 DEF ReleaseOwner, OwnedBy
<1>12. CASE UNCHANGED vars
  BY <1>12 DEF vars
<1> HIDE DEF vars, shared, ask, TypeOK, AskInv, LogEntry, CountInv, BudgetsAreKept, Return
<1>13. QED
  BY <1>1, <1>2, <1>3, <1>4, <1>5, <1>6, <1>7, <1>8, <1>9, <1>10, <1>11, <1>12 DEF Next, Decide

\* One more gap.
LEMMA OneMoreGap ==
  ASSUME NEW n \in Nat, NEW g \in Nat
  PROVE  (n + 1) * g = n * g + g
OBVIOUS

\* Every step keeps the schedule at most one gap ahead of the clock and the
\* admissions behind the schedule.
LEMMA RatePreserved ==
  ASSUME TypeOK, HolderInv, RateInv, [Next]_vars
  PROVE  RateInv'
<1> USE TrafficAssumption DEF vars, shared, ask, TypeOK, HolderInv, RateInv, Return
<1>1. ASSUME Tick
      PROVE  RateInv'
  BY <1>1 DEF Tick
<1>2. ASSUME Cancel
      PROVE  RateInv'
  BY <1>2 DEF Cancel
<1>3. ASSUME NEW r \in Requests, NEW o \in Origins, NEW g \in Engines, NEW d \in 1..Horizon,
             Ask(r, o, g, d)
      PROVE  RateInv'
  BY <1>3 DEF Ask
<1>4. ASSUME NEW r \in Requests, ReadClock(r)
      PROVE  RateInv'
  BY <1>4 DEF ReadClock
<1>5. ASSUME NEW r \in Requests, DenyStopped(r)
      PROVE  RateInv'
  BY <1>5 DEF DenyStopped
<1>6. ASSUME NEW r \in Requests, DenyExhausted(r)
      PROVE  RateInv'
  BY <1>6 DEF DenyExhausted
<1>7. ASSUME NEW r \in Requests, PollAgain(r)
      PROVE  RateInv'
  BY <1>7 DEF PollAgain
<1>8. ASSUME NEW r \in Requests, Grant(r)
      PROVE  RateInv'
  <2>1. /\ operations' = operations + 1
        /\ next' = stamp[r] + GlobalGap
        /\ stamp[r] >= next
        /\ now' = now
    BY <1>8 DEF Grant, Room, After
  <2>2. operations' * GlobalGap = operations * GlobalGap + GlobalGap
    BY <2>1, OneMoreGap
  <2>3. operations * GlobalGap \in Nat
    OBVIOUS
  <2>4. QED  BY <2>1, <2>2, <2>3
<1>9. ASSUME NEW r \in Requests, Release(r)
      PROVE  RateInv'
  BY <1>9 DEF Release
<1>10. ASSUME NEW w \in Workers, Kill(w)
      PROVE  RateInv'
  BY <1>10 DEF Kill
<1>11. ASSUME NEW w \in Workers, ReleaseOwner(w)
      PROVE  RateInv'
  BY <1>11 DEF ReleaseOwner, OwnedBy
<1>12. CASE UNCHANGED vars
  BY <1>12 DEF vars
<1> HIDE DEF vars, shared, ask, TypeOK, HolderInv, RateInv, Return
<1>13. QED
  BY <1>1, <1>2, <1>3, <1>4, <1>5, <1>6, <1>7, <1>8, <1>9, <1>10, <1>11, <1>12 DEF Next, Decide

\* The same for every origin.
LEMMA OriginRatePreserved ==
  ASSUME TypeOK, AskInv, HolderInv, CountInv, OriginRateInv, [Next]_vars
  PROVE  OriginRateInv'
<1> USE TrafficAssumption DEF vars, shared, ask, TypeOK, AskInv, LogEntry, HolderInv, CountInv, OriginRateInv, Return
<1>1. ASSUME Tick
      PROVE  OriginRateInv'
  <2>1. log' = log /\ nextOf' = nextOf /\ now' = now + 1
    BY <1>1 DEF Tick
  <2>2. \A o \in Origins : nextOf[o] <= now' + OriginGap
    <3>1. \A o \in Origins : nextOf[o] \in Nat /\ nextOf[o] <= now + OriginGap
      OBVIOUS
    <3> HIDE DEF OriginRateInv
    <3>2. QED  BY <2>1, <3>1
  <2>3. QED  BY <2>1, <2>2
<1>2. ASSUME Cancel
      PROVE  OriginRateInv'
  BY <1>2 DEF Cancel
<1>3. ASSUME NEW r \in Requests, NEW o \in Origins, NEW g \in Engines, NEW d \in 1..Horizon,
             Ask(r, o, g, d)
      PROVE  OriginRateInv'
  BY <1>3 DEF Ask
<1>4. ASSUME NEW r \in Requests, ReadClock(r)
      PROVE  OriginRateInv'
  BY <1>4 DEF ReadClock
<1>5. ASSUME NEW r \in Requests, DenyStopped(r)
      PROVE  OriginRateInv'
  BY <1>5 DEF DenyStopped
<1>6. ASSUME NEW r \in Requests, DenyExhausted(r)
      PROVE  OriginRateInv'
  BY <1>6 DEF DenyExhausted
<1>7. ASSUME NEW r \in Requests, PollAgain(r)
      PROVE  OriginRateInv'
  BY <1>7 DEF PollAgain
<1>8. ASSUME NEW r \in Requests, Grant(r)
      PROVE  OriginRateInv'
  <2>0. origin[r] \in Origins
    BY <1>8 DEF Grant
  <2>1. /\ log' = log \cup {[n |-> operations + 1, origin |-> origin[r]]}
        /\ nextOf' = [nextOf EXCEPT ![origin[r]] = stamp[r] + OriginGap]
        /\ stamp[r] >= nextOf[origin[r]]
        /\ now' = now
    BY <1>8 DEF Grant, Room, After
  <2> SUFFICES ASSUME NEW o \in Origins
               PROVE  /\ Cardinality({e \in log' : e.origin = o}) * OriginGap <= nextOf'[o]
                      /\ nextOf'[o] <= now' + OriginGap
    OBVIOUS
  <2> DEFINE old == {e \in log : e.origin = o}
             new == {e \in log' : e.origin = o}
             entry == [n |-> operations + 1, origin |-> origin[r]]
  <2>2. IsFiniteSet(old)
    BY FS_Subset
  <2>3. Cardinality(old) \in Nat
    BY <2>2, FS_CardinalityType
  <2>4. CASE origin[r] = o
    <3>1. new = old \cup {entry} /\ entry \notin old
      BY <2>1, <2>4
    <3>2. Cardinality(old) * OriginGap <= nextOf[o]
      OBVIOUS
    <3>3. nextOf'[o] = stamp[r] + OriginGap /\ stamp[r] >= nextOf[o] /\ stamp[r] <= now
      BY <2>1, <2>4
    <3> HIDE DEF old, new, entry
    <3>4. Cardinality(new) = Cardinality(old) + 1
      BY <2>2, <3>1, FS_AddElement
    <3>5. Cardinality(new) * OriginGap = Cardinality(old) * OriginGap + OriginGap
      BY <2>3, <3>4, OneMoreGap
    <3>6. Cardinality(old) * OriginGap \in Nat
      BY <2>3
    <3>7. Cardinality(new) * OriginGap <= nextOf'[o] /\ nextOf'[o] <= now' + OriginGap
      BY <2>1, <3>2, <3>3, <3>5, <3>6
    <3>8. QED  BY <3>7 DEF new
  <2>5. CASE origin[r] # o
    <3>1. new = old /\ nextOf'[o] = nextOf[o]
      BY <2>1, <2>5
    <3>2. QED  BY <2>1, <3>1
  <2>6. QED  BY <2>4, <2>5
<1>9. ASSUME NEW r \in Requests, Release(r)
      PROVE  OriginRateInv'
  BY <1>9 DEF Release
<1>10. ASSUME NEW w \in Workers, Kill(w)
      PROVE  OriginRateInv'
  BY <1>10 DEF Kill
<1>11. ASSUME NEW w \in Workers, ReleaseOwner(w)
      PROVE  OriginRateInv'
  BY <1>11 DEF ReleaseOwner, OwnedBy
<1>12. CASE UNCHANGED vars
  BY <1>12 DEF vars
<1> HIDE DEF vars, shared, ask, TypeOK, AskInv, LogEntry, HolderInv, CountInv, OriginRateInv, Return
<1>13. QED
  BY <1>1, <1>2, <1>3, <1>4, <1>5, <1>6, <1>7, <1>8, <1>9, <1>10, <1>11, <1>12 DEF Next, Decide

-----------------------------------------------------------------------------
\* A run starts without leases and admissions.
LEMMA InitIInv == Init => IInv
<1> SUFFICES ASSUME Init PROVE IInv
  OBVIOUS
<1>1. Cardinality({}) = 0 /\ IsFiniteSet({})
  BY FS_EmptySet
<1>2. TypeOK
  BY TrafficAssumption DEF Init, TypeOK
<1>9. AskInv /\ HolderInv
  BY TrafficAssumption DEF Init, AskInv, HolderInv, Working
<1>3. \A o \in Origins : {r \in leases : origin[r] = o} = {} /\ {e \in log : e.origin = o} = {}
  BY DEF Init
<1>4. LeasesAreBounded
  BY <1>1, <1>3, TrafficAssumption DEF Init, LeasesAreBounded
<1>5. CountInv /\ BudgetsAreKept
  BY <1>1, TrafficAssumption DEF Init, CountInv, BudgetsAreKept
<1>6. RateInv
  BY TrafficAssumption DEF Init, RateInv
<1>7. OriginRateInv
  BY <1>1, <1>3, TrafficAssumption DEF Init, OriginRateInv
<1>8. QED  BY <1>2, <1>9, <1>4, <1>5, <1>6, <1>7 DEF IInv

\* IInv is inductive.
LEMMA NextIInv == IInv /\ [Next]_vars => IInv'
BY TypePreserved, HolderPreserved, LeasesPreserved, CountPreserved,
   RatePreserved, OriginRatePreserved DEF IInv

THEOREM Invariance == Spec => []IInv
BY InitIInv, NextIInv, PTL DEF Spec

\* Types are kept.
THEOREM TypeCorrect == Spec => []TypeOK
<1>1. IInv => TypeOK  BY DEF IInv
<1>2. QED  BY <1>1, Invariance, PTL

\* The lease table and the peak stay within the limits.
THEOREM LeaseLimits == Spec => []LeasesAreBounded
<1>1. IInv => LeasesAreBounded  BY DEF IInv
<1>2. QED  BY <1>1, Invariance, PTL

\* Live work stays within the limits, whatever expires, dies or is reclaimed.
THEOREM WorkLimits == Spec => []WorkIsBounded
<1>1. ASSUME IInv PROVE WorkIsBounded
  <2> USE <1>1 DEF IInv, TypeOK, HolderInv, LeasesAreBounded
  <2>1. IsFiniteSet(leases) /\ Working \subseteq leases
    BY TrafficAssumption, FS_Subset
  <2>2. Cardinality(Working) <= Concurrency
    BY <2>1, SmallerCount, TrafficAssumption
  <2>3. ASSUME NEW o \in Origins
        PROVE  Cardinality({r \in Working : origin[r] = o}) <= PerOrigin
    <3>1. {r \in Working : origin[r] = o} \subseteq {r \in leases : origin[r] = o}
      BY <2>1
    <3>2. IsFiniteSet({r \in leases : origin[r] = o})
      BY <2>1, FS_Subset
    <3>3. /\ Cardinality({r \in Working : origin[r] = o}) \in Nat
          /\ Cardinality({r \in leases : origin[r] = o}) \in Nat
          /\ Cardinality({r \in Working : origin[r] = o})
               <= Cardinality({r \in leases : origin[r] = o})
      BY <3>1, <3>2, SmallerCount
    <3>4. Cardinality({r \in leases : origin[r] = o}) <= PerOrigin
      OBVIOUS
    <3>5. QED  BY <3>3, <3>4, TrafficAssumption
  <2>4. QED  BY <2>2, <2>3 DEF WorkIsBounded
<1>2. QED  BY <1>1, Invariance, PTL

\* Both budgets are kept and every admission is counted once.
THEOREM Budgets == Spec => []BudgetsAreKept
<1>1. IInv => BudgetsAreKept  BY DEF IInv
<1>2. QED  BY <1>1, Invariance, PTL

\* Live work and both budgets stay within every limit.
THEOREM Limits == Spec => []LimitsAreKept
<1>1. WorkIsBounded /\ BudgetsAreKept => LimitsAreKept  BY DEF LimitsAreKept
<1>2. QED  BY <1>1, WorkLimits, Budgets, PTL

\* The long-run rate of the run is kept, stale clock readings or not.
THEOREM Rate == Spec => []RateIsKept
<1>1. IInv => RateIsKept
  BY TrafficAssumption DEF IInv, TypeOK, RateInv, RateIsKept
<1>2. QED  BY <1>1, Invariance, PTL

\* The long-run rate of every origin is kept.
THEOREM OriginRate == Spec => []OriginRateIsKept
<1>1. ASSUME IInv PROVE OriginRateIsKept
  <2>1. ASSUME NEW o \in Origins
        PROVE  Cardinality({e \in log : e.origin = o}) * OriginGap <= now + OriginGap
    <3>1. IsFiniteSet({e \in log : e.origin = o})
      BY <1>1, FS_Subset DEF IInv, CountInv
    <3>2. Cardinality({e \in log : e.origin = o}) * OriginGap \in Nat
      BY <3>1, FS_CardinalityType, TrafficAssumption
    <3>3. QED
      BY <1>1, <3>2, TrafficAssumption DEF IInv, TypeOK, OriginRateInv
  <2>2. QED  BY <2>1 DEF OriginRateIsKept
<1>2. QED  BY <1>1, Invariance, PTL

\* The two rates together.
THEOREM Rates == Spec => []RatesAreKept
<1>1. RateIsKept /\ OriginRateIsKept => RatesAreKept  BY DEF RatesAreKept
<1>2. QED  BY <1>1, Rate, OriginRate, PTL

-----------------------------------------------------------------------------
(* The engines that dial for themselves.                                   *)

LEMMA InitEngineInv == EnginesInit => EngineInv
BY EnginesAssumption, TrafficAssumption
   DEF EnginesInit, Init, EngineInv, EnginesTypeOK, ThreadInv

\* What other threads and workers do is a step of Traffic, and leaves the
\* admissions of the engines' threads alone.
LEMMA ElsewherePreserves ==
  ASSUME EngineInv, TypeOK, Elsewhere, UNCHANGED engines
  PROVE  Next /\ EngineInv'
<1> USE EnginesAssumption, TrafficAssumption
<1> USE DEF EngineInv, EnginesTypeOK, ThreadInv, engines, work, links, TypeOK
<1> DEFINE Untouched == \A h \in Threads : pc'[h] = pc[h] /\ deadline'[h] = deadline[h]
<1>1. SUFFICES Next /\ Untouched
  OBVIOUS
<1>2. CASE Tick
  BY <1>2 DEF Tick, Next, ask
<1>3. CASE Cancel
  BY <1>3 DEF Cancel, Next, ask
<1>4. ASSUME NEW r \in Requests \ Threads, NEW o \in Origins,
             NEW g \in Engines, NEW d \in Later, Ask(r, o, g, d)
      PROVE  Next /\ Untouched
  BY <1>4 DEF Ask, Next, Later
<1>5. ASSUME NEW r \in Requests \ Threads, ReadClock(r)
      PROVE  Next /\ Untouched
  BY <1>5 DEF ReadClock, Next, ask
<1>6. ASSUME NEW r \in Requests \ Threads, Decide(r)
      PROVE  Next /\ Untouched
  <2>1. Next  BY <1>6 DEF Next
  <2>2. Untouched
    BY <1>6 DEF Decide, DenyStopped, DenyExhausted, PollAgain, Grant, Return, ask
  <2>3. QED  BY <2>1, <2>2
<1>7. ASSUME NEW r \in Requests \ Threads, Release(r)
      PROVE  Next /\ Untouched
  BY <1>7 DEF Release, Return, Next
<1>8. ASSUME NEW w \in Workers \ {Host}, Kill(w)
      PROVE  Next /\ Untouched
  BY <1>8 DEF Kill, Next, ask
<1>9. ASSUME NEW w \in Workers, ReleaseOwner(w)
      PROVE  Next /\ Untouched
  BY <1>9 DEF ReleaseOwner, Next, ask
<1>10. QED
  BY <1>2, <1>3, <1>4, <1>5, <1>6, <1>7, <1>8, <1>9 DEF Elsewhere

\* The worker's own steps leave admission alone, except that it is killed.
LEMMA WorkerPreserves ==
  ASSUME EngineInv, TypeOK,
         \/ \E ps \in Resolutions : Rebind(ps)
         \/ \E d \in Later : StartTool(d) \/ \E a \in Addresses : StartTls(d, a)
         \/ ToolEnds \/ ToolTimesOut \/ TlsEnds \/ HostDies
  PROVE  [Next]_vars /\ EngineInv'
<1> USE EnginesAssumption, TrafficAssumption
<1> USE DEF EngineInv, EnginesTypeOK, ThreadInv, links
<1>1. ASSUME NEW ps \in Resolutions, Rebind(ps)
      PROVE  [Next]_vars /\ EngineInv'
  BY <1>1 DEF Rebind, work, vars, ask
<1>2. ASSUME NEW d \in Later, StartTool(d)
      PROVE  [Next]_vars /\ EngineInv'
  <2>1. d \in 1..Horizon /\ tool + 1 \in 0..Tools  BY <1>2 DEF Later, StartTool
  <2>2. QED  BY <1>2, <2>1 DEF StartTool, vars, ask
<1>3. ASSUME NEW d \in Later, NEW a \in Addresses, StartTls(d, a)
      PROVE  [Next]_vars /\ EngineInv'
  <2>1. d \in 1..Horizon  BY DEF Later
  <2>2. QED  BY <1>3, <2>1 DEF StartTls, vars, ask
<1>4. CASE ToolEnds
  BY <1>4 DEF ToolEnds, vars, ask
<1>5. CASE ToolTimesOut
  BY <1>5 DEF ToolTimesOut, vars, ask
<1>6. CASE TlsEnds
  BY <1>6 DEF TlsEnds, Dialling, vars, ask
<1>7. CASE HostDies
  <2>1. Next  BY <1>7 DEF HostDies, Next
  <2>2. \A h \in Threads : pc'[h] = "gone"
    BY <1>7 DEF HostDies, Kill, TypeOK
  <2>3. EnginesTypeOK'  BY <1>7 DEF HostDies
  <2>4. QED  BY <1>7, <2>1, <2>2, <2>3 DEF HostDies
<1>8. QED
  BY <1>1, <1>2, <1>3, <1>4, <1>5, <1>6, <1>7

\* Every step of a connection is one of Traffic's or none, and the thread
\* gets no further than its admission does.
LEMMA ConnectionPreserves ==
  ASSUME EngineInv, TypeOK, NEW h \in Threads, Connection(h)
  PROVE  [Next]_vars /\ EngineInv'
<1> USE EnginesAssumption, TrafficAssumption
<1> USE DEF EngineInv, EnginesTypeOK, ThreadInv, TypeOK
<1>1. CASE ToolConnects(h)
  BY <1>1 DEF ToolConnects, Begins, work, vars, shared, ask
<1>2. CASE TlsConnects(h)
  BY <1>2 DEF TlsConnects, Begins, work, vars, shared, ask
<1>3. CASE Drop(h)
  BY <1>3 DEF Drop, At, Over, work, vars, shared, ask
<1>4. ASSUME NEW a \in Addresses, Lookup(h, a)
      PROVE  [Next]_vars /\ EngineInv'
  <2>1. kind[h] \in Engines /\ due[h] \in 1..Horizon
    BY <1>4 DEF Lookup, At
  <2>2. Next  BY <1>4, <2>1 DEF Lookup, Next
  <2>3. a \in Approved  BY <1>4 DEF Lookup, Resolves
  <2>4. /\ pc' = [pc EXCEPT ![h] = "poll"]
        /\ deadline' = [deadline EXCEPT ![h] = due[h]]
    BY <1>4 DEF Lookup, Ask
  <2>5. EnginesTypeOK'
    BY <1>4 DEF Lookup, Moves, work
  <2>6. ThreadInv'
    BY <1>4, <2>3, <2>4, <2>5 DEF Lookup, At, Moves, work
  <2>7. QED  BY <1>4, <2>2, <2>5, <2>6 DEF Lookup, Moves, work
<1>5. CASE Wait(h)
  <2>1. Next  BY <1>5 DEF Wait, Next, Decide
  <2>2. /\ pc'[h] \in {"poll", "enter"} /\ UNCHANGED deadline
        /\ \A r \in Requests \ {h} : pc'[r] = pc[r]
    BY <1>5 DEF Wait, ReadClock, PollAgain, ask
  <2>3. QED  BY <1>5, <2>1, <2>2 DEF Wait, At, engines, work, links
<1>6. CASE Deny(h)
  <2>1. Next  BY <1>6 DEF Deny, Next, Decide
  <2>2. /\ pc' = [pc EXCEPT ![h] = "idle"]
        /\ deadline' = [deadline EXCEPT ![h] = 0]
    BY <1>6 DEF Deny, DenyStopped, DenyExhausted, Return
  <2>3. QED  BY <1>6, <2>1, <2>2 DEF Deny, Over, work
<1>7. CASE Admit(h)
  <2>1. Next  BY <1>7 DEF Admit, Next, Decide
  <2>2. pc' = [pc EXCEPT ![h] = "held"] /\ UNCHANGED deadline
    BY <1>7 DEF Admit, Grant, ask
  <2>3. QED  BY <1>7, <2>1, <2>2 DEF Admit, At, Moves, work
<1>8. CASE Dial(h)
  BY <1>8 DEF Dial, Keep, At, Moves, work, vars, shared, ask
<1>9. CASE Close(h)
  <2>1. Next  BY <1>9 DEF Close, Next
  <2>2. /\ pc' = [pc EXCEPT ![h] = "idle"]
        /\ deadline' = [deadline EXCEPT ![h] = 0]
    BY <1>9 DEF Close, Release, Return
  <2>3. QED  BY <1>9, <2>1, <2>2 DEF Close, Over, work
<1>10. QED
  BY <1>1, <1>2, <1>3, <1>4, <1>5, <1>6, <1>7, <1>8, <1>9 DEF Connection

LEMMA EnginesPreserve ==
  ASSUME EngineInv, TypeOK, [EnginesNext]_all
  PROVE  [Next]_vars /\ EngineInv'
<1>1. CASE Elsewhere /\ UNCHANGED engines
  BY <1>1, ElsewherePreserves
<1>2. CASE UNCHANGED all
  BY <1>2 DEF all, engines, work, links, vars, shared, ask,
              EngineInv, EnginesTypeOK, ThreadInv
<1>3. CASE \E h \in Threads : Connection(h)
  BY <1>3, ConnectionPreserves
<1>4. QED
  BY <1>1, <1>2, <1>3, WorkerPreserves DEF EnginesNext

\* The engines use admission as every other thread does: their steps are steps
\* of Traffic, so that all that is proved of it holds of them.
THEOREM EnginesAreAdmitted == EnginesSpec => Spec /\ []EngineInv
<1>1. EnginesInit => Init  BY DEF EnginesInit
<1>2. IInv => TypeOK  BY DEF IInv
<1>3. IInv /\ [Next]_vars => IInv'
  BY NextIInv
<1>4. EngineInv /\ IInv /\ [EnginesNext]_all => EngineInv' /\ IInv' /\ [Next]_vars
  BY EnginesPreserve, <1>2, <1>3
<1>5. QED
  BY <1>1, <1>4, InitEngineInv, InitIInv, PTL DEF EnginesSpec, Spec

\* What is bounded for admissions is bounded for the engines' connections:
\* before its deadline, a thread that dials is at work with a lease.
THEOREM Dials == EnginesSpec => []DialsAreAdmitted
<1>1. ASSUME EngineInv, IInv, WorkIsBounded
      PROVE  DialsAreAdmitted
  <2>1. Dialled \subseteq Threads /\ Threads \subseteq Requests
    BY EnginesAssumption DEF Dialled
  <2>2. ASSUME NEW h \in Dialled
        PROVE  /\ addr[h] \in Approved
               /\ kind[h] = Tls => addr[h] = snapshot
               /\ pc[h] = "held" /\ deadline[h] = due[h]
    BY <1>1 DEF EngineInv, ThreadInv, Dialled
  <2>3. ASSUME NEW h \in Dialled, now < due[h]
        PROVE  h \in Working
    <3>1. now \in Nat /\ due[h] \in 0..Horizon
      BY <1>1, <2>1 DEF IInv, TypeOK, EngineInv, EnginesTypeOK
    <3>2. due[h] > now  BY <2>3, <3>1, TrafficAssumption
    <3>3. QED  BY <2>1, <2>2, <3>2 DEF Working
  <2>4. Working \subseteq leases
    BY <1>1 DEF IInv, HolderInv
  <2>5. IsFiniteSet(leases)
    BY <1>1, FS_Subset, TrafficAssumption DEF IInv, TypeOK
  <2>6. IsFiniteSet(Working) /\ Cardinality(Working) \in Nat
    BY <2>4, <2>5, SmallerCount
  <2>7. {h \in Dialled : now < due[h]} \cup (Working \ Threads) \subseteq Working
    BY <2>3
  <2>8. Cardinality({h \in Dialled : now < due[h]} \cup (Working \ Threads)) <= Concurrency
    <3>1. Cardinality(Working) <= Concurrency  BY <1>1 DEF WorkIsBounded
    <3>2. QED  BY <2>6, <2>7, <3>1, SmallerCount, TrafficAssumption
  <2>9. QED
    BY <1>1, <2>2, <2>3, <2>4, <2>8 DEF DialsAreAdmitted, EngineInv
<1>2. QED  BY <1>1, EnginesAreAdmitted, Invariance, WorkLimits, PTL

=============================================================================
