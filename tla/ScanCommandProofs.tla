-------------------------- MODULE ScanCommandProofs --------------------------
(* Theorems about ScanCommand, for any number of commands and targets, any    *)
(* plans and any results of the scans.                                        *)
EXTENDS ScanCommand, SequenceTheorems, TLAPS

\* The options of the running command are well typed, and a review makes the
\* security scan an extended one.
LEMMA ActivePlan ==
  ASSUME StageInv, Active
  PROVE  /\ plan \in PlanType /\ n \in 1..Runs
         /\ plan.at \in [Targets -> Urls]
         /\ plan.security \/ plan.visual
         /\ plan.review => plan.extended
BY CommandAssumption DEF StageInv, PlanType

\* The results of either scan are results, and two of them merge into one.
LEMMA ResultTypes ==
  /\ Outcomes \subseteq Results /\ Sights \subseteq Results /\ Lost \in Results
  /\ \A l, r \in Results : Merged(l, r) \in Results
BY CommandAssumption DEF Results, Lost, Merged, Both

LEMMA WholeType ==
  ASSUME StageInv, Active, stage \notin {"scan", "look"}
  PROVE  Whole \in [Targets -> Results]
<1>1. plan.security \/ plan.visual
  BY ActivePlan
<1>2. CASE plan.security /\ plan.visual
  <2>1. security \in [Targets -> Results] /\ visual \in [Targets -> Results]
    BY <1>2 DEF StageInv
  <2>2. Whole = [t \in Targets |-> Merged(security[t], visual[t])]
    BY <1>2 DEF Whole, Combined
  <2>3. QED  BY <2>1, <2>2, ResultTypes
<1>3. CASE ~(plan.security /\ plan.visual)
  BY <1>1, <1>3 DEF Whole, Combined, StageInv
<1>4. QED  BY <1>2, <1>3

\* What either of the reviews makes of a result is a result.
LEMMA ReviewTypes ==
  ASSUME NEW D \in SUBSET Targets, NEW o \in [D -> SUBSET Reviewed],
         NEW i \in Targets \cup {None}, NEW rs \in [Targets -> Results]
  PROVE  /\ \A t \in Targets : ReviewOf(rs[t], t, o, i) \in Results
         /\ ReviewedSnapshot(rs, o) \in [Targets -> Results]
<1>1. ASSUME NEW t \in Targets
      PROVE  ReviewOf(rs[t], t, o, i) \in Results
  <2>1. CASE t \in D
    BY <2>1 DEF ReviewOf, Results, Everything
  <2>2. CASE t \notin D
    BY <2>2 DEF ReviewOf, Results
  <2>3. QED  BY <2>1, <2>2
<1>2. ASSUME NEW t \in Targets
      PROVE  ReviewedSnapshot(rs, o)[t] \in Results
  <2> DEFINE more == UNION {o[u] : u \in LastOf(t) \cap DOMAIN o}
  <2>1. more \subseteq Everything
    BY DEF Everything
  <2>2. ReviewedSnapshot(rs, o)[t] =
          [rs[t] EXCEPT !.findings = @ \cup more,
                        !.status = IF LastOf(t) \subseteq DOMAIN o THEN @ ELSE "PARTIAL",
                        !.complete = FALSE]
    BY DEF ReviewedSnapshot
  <2> HIDE DEF more
  <2>3. QED  BY <2>1, <2>2 DEF Results
<1>3. DOMAIN ReviewedSnapshot(rs, o) = Targets
         /\ ReviewedSnapshot(rs, o) = [t \in Targets |-> ReviewedSnapshot(rs, o)[t]]
  BY DEF ReviewedSnapshot
<1>4. QED  BY <1>1, <1>2, <1>3

\* The modes that are left to push.
LEMMA TodoTypes ==
  /\ Todos \subseteq Seq({"security", "visual"})
  /\ \A q \in Todos \ {<<>>} :
       /\ Head(q) \in {"security", "visual"}
       /\ Tail(q) \in Todos
       /\ Tail(q) # <<>> => Head(Tail(q)) = "visual"
       /\ q \in ListsWith(Head(q))
       /\ Tail(q) \notin ListsWith("security")
       /\ Tail(q) \in ListsWith("visual") => q \in ListsWith("visual")
       /\ \A m \in {"security", "visual"} \ {Head(q)} : q \in ListsWith(m) => Tail(q) \in ListsWith(m)
  /\ <<>> \in Todos /\ <<>> \notin ListsWith("security") \cup ListsWith("visual")
  /\ ModesToPush \in Todos
  /\ ModesToPush \in ListsWith("security") <=> plan.security
  /\ ModesToPush \in ListsWith("visual") <=> plan.visual
  /\ plan.security \/ plan.visual =>
       /\ ModesToPush # <<>>
       /\ Head(ModesToPush) = IF plan.security THEN "security" ELSE "visual"
<1> DEFINE s == <<"security">>  v == <<"visual">>  both == <<"security", "visual">>
<1>1. s \in Seq({"security", "visual"}) /\ v \in Seq({"security", "visual"})
      /\ both \in Seq({"security", "visual"}) /\ <<>> \in Seq({"security", "visual"})
  OBVIOUS
<1>2. Head(s) = "security" /\ Head(v) = "visual" /\ Head(both) = "security"
  OBVIOUS
<1>3. Tail(s) = <<>> /\ Tail(v) = <<>> /\ Tail(both) = v
  OBVIOUS
<1>4. s \o v = both /\ s \o <<>> = s /\ <<>> \o v = v /\ <<>> \o <<>> = <<>>
  <2>1. s \o v = Append(s, "visual")
    BY <1>1, AppendIsConcat
  <2>2. Append(s, "visual") = both
    <3>1. /\ Append(s, "visual") \in Seq({"security", "visual"}) /\ Len(Append(s, "visual")) = 2
          /\ Append(s, "visual")[1] = "security" /\ Append(s, "visual")[2] = "visual"
      BY <1>1, AppendProperties
    <3>2. Len(both) = 2 /\ both[1] = "security" /\ both[2] = "visual"
      OBVIOUS
    <3> HIDE DEF s, both
    <3>3. QED  BY <1>1, <3>1, <3>2, SeqEqual
  <2> HIDE DEF s, v, both
  <2>3. \A q \in Seq({"security", "visual"}) : q \o <<>> = q /\ <<>> \o q = q
    BY ConcatEmptySeq
  <2>4. QED  BY <2>1, <2>2, <2>3, <1>1
<1>5. s # <<>> /\ v # <<>> /\ both # <<>> /\ s # v /\ s # both /\ v # both
  BY <1>2, <1>3
<1>6. /\ Todos = {<<>>, s, v, both}
      /\ ListsWith("security") = {s, both} /\ ListsWith("visual") = {v, both}
  BY DEF Todos, ListsWith
<1>7. ModesToPush = (IF plan.security THEN s ELSE <<>>) \o (IF plan.visual THEN v ELSE <<>>)
  BY DEF ModesToPush
<1> HIDE DEF s, v, both
<1>8. QED  BY <1>1, <1>2, <1>3, <1>4, <1>5, <1>6, <1>7

\* A snapshot of a result is a snapshot.
LEMMA SnapshotType ==
  ASSUME NEW r \in Results, NEW t \in Targets, NEW c \in BOOLEAN, n \in 1..Runs,
         plan \in PlanType
  PROVE  Snapshot(r, t, c) \in Snapshots
<1>1. plan.at[t] \in Urls
  BY DEF PlanType
<1>2. QED  BY <1>1 DEF Snapshot, Snapshots, Results

\* A function on 1..k is a sequence.
LEMMA FunctionAsSeq ==
  ASSUME NEW S, NEW k \in Nat, NEW F \in [1..k -> S]
  PROVE  F \in Seq(S) /\ Len(F) = k
<1>1. F \in Seq(S)
  BY SeqDef
<1>2. QED  BY <1>1, LenProperties

\* Saving the reports of one scan.
LEMMA SavedType ==
  ASSUME TypeOK, n \in 1..Runs, plan \in PlanType,
         NEW m \in {"security", "visual"}, NEW rs \in [Targets -> Results]
  PROVE  /\ AsSaved(m, rs) \in [Scanners -> Seq(Snapshots)]
         /\ ScannerOf(m) \in Scanners
         /\ \A x \in Scanners \ {ScannerOf(m)} : AsSaved(m, rs)[x] = saved[x]
         /\ \A t \in Targets : AsSaved(m, rs)[ScannerOf(m)][t] = Snapshot(rs[t], t, FALSE)
         /\ Len(AsSaved(m, rs)[ScannerOf(m)]) = T
<1> DEFINE q == [t \in Targets |-> Snapshot(rs[t], t, FALSE)]
<1>1. T \in Nat /\ q \in [1..T -> Snapshots]
  BY SnapshotType, CommandAssumption DEF Targets
<1>2. q \in Seq(Snapshots) /\ Len(q) = T
  BY <1>1, FunctionAsSeq
<1>3. ScannerOf(m) \in Scanners
  BY DEF ScannerOf, Kind, Scanners
<1>4. QED
  BY <1>2, <1>3 DEF AsSaved, TypeOK

\* Both saved reports together.
LEMMA BothType ==
  ASSUME TypeOK, n \in 1..Runs, plan \in PlanType,
         security \in [Targets -> Results], visual \in [Targets -> Results]
  PROVE  /\ SavedBoth \in [Scanners -> Seq(Snapshots)]
         /\ SavedBoth["visual"] = AsSaved("visual", visual)["visual"]
         /\ \A x \in Scanners \ {"visual"} : SavedBoth[x] = AsSaved("security", security)[x]
<1>1. AsSaved("security", security) \in [Scanners -> Seq(Snapshots)]
      /\ AsSaved("visual", visual) \in [Scanners -> Seq(Snapshots)] /\ "visual" \in Scanners
  BY SavedType DEF Scanners
<1>2. QED  BY <1>1 DEF SavedBoth

\* What a broken-off command may leave on disk, and what it writes if it is not.
LEMMA LeavesTypes ==
  ASSUME TypeOK, StageInv, Active
  PROVE  /\ Leaves \subseteq [Scanners -> Seq(Snapshots)]
         /\ stage = "merge" /\ plan.review => DraftSaved \in Leaves
         /\ stage = "write" \/ (stage = "merge" /\ ~plan.review) => FinalSaved \in Leaves
<1>1. /\ plan \in PlanType /\ n \in 1..Runs
      /\ saved \in [Scanners -> Seq(Snapshots)]
      /\ Head(ModesToPush) \in {"security", "visual"}
  BY ActivePlan, TodoTypes DEF TypeOK
<1>2. ASSUME stage = "merge", plan.review
      PROVE  DraftSaved \in [Scanners -> Seq(Snapshots)]
  <2>1. Whole \in [Targets -> Results]
    BY <1>2, WholeType
  <2>2. QED  BY <1>1, <2>1, SavedType DEF DraftSaved
<1>3. ASSUME stage = "write" \/ (stage = "merge" /\ ~plan.review)
      PROVE  FinalSaved \in [Scanners -> Seq(Snapshots)]
  <2>1. Final \in [Targets -> Results]
    BY <1>3, WholeType DEF Final, StageInv
  <2>2. CASE Combined
    <3>1. security \in [Targets -> Results] /\ visual \in [Targets -> Results]
      BY <1>3, <2>2 DEF Combined, StageInv
    <3>2. QED  BY <1>1, <2>2, <3>1, BothType DEF FinalSaved
  <2>3. CASE ~Combined
    BY <1>1, <2>1, <2>3, SavedType DEF FinalSaved
  <2>4. QED  BY <2>2, <2>3
<1>4. ASSUME stage \in {"merge", "write"}, Combined
      PROVE  AsSaved("security", security) \in [Scanners -> Seq(Snapshots)]
  <2>1. security \in [Targets -> Results]
    BY <1>4 DEF Combined, StageInv
  <2>2. QED  BY <1>1, <2>1, SavedType
<1>5. QED  BY <1>1, <1>2, <1>3, <1>4 DEF Leaves
-----------------------------------------------------------------------------
\* Lanes that stay as they are keep what is known of them.
LEMMA SameLanes ==
  ASSUME TypeOK, RowsInv, OrderInv, OpenInv,
         UNCHANGED <<lane, done, open>>, n \in Nat, n' \in Nat, n <= n', looked \subseteq looked'
  PROVE  RowsInv' /\ OrderInv' /\ OpenInv'
<1>1. RowsInv'
  <2> SUFFICES ASSUME NEW m \in Scanners, NEW i \in 1..Len(lane[m])
               PROVE  /\ lane[m][i].run <= n'
                      /\ m = "security" => lane[m][i].findings \subseteq Rules
                      /\ lane[m][i].closes => m \in Closing /\
                           \A x \in Rules \ lane[m][i].findings :
                             <<lane[m][i].run, <<lane[m][i].at, x>>>> \in looked'
    BY DEF RowsInv
  <2>1. lane[m][i] \in Snapshots
    BY ElementOfSeq DEF TypeOK
  <2>2. lane[m][i].run \in Nat
    BY <2>1 DEF Snapshots
  <2>3. QED  BY <2>2 DEF RowsInv
<1>2. OrderInv'
  BY DEF OrderInv
<1>3. OpenInv'
  BY DEF OpenInv
<1>4. QED  BY <1>1, <1>2, <1>3

\* Rows of the current run that are put at the end of a lane.
LEMMA Appended ==
  ASSUME TypeOK, RowsInv, OrderInv, OpenInv,
         NEW m \in Scanners, NEW q \in Seq(Snapshots),
         lane' = [lane EXCEPT ![m] = @ \o q],
         UNCHANGED <<n, done, open, looked>>,
         \A i \in 1..Len(q) :
           /\ q[i].run = n
           /\ m = "security" => q[i].findings \subseteq Rules
           /\ q[i].closes =>
                /\ m \in Closing
                /\ \A x \in Rules \ q[i].findings : <<n, <<q[i].at, x>>>> \in looked
                /\ \A j \in 1..Len(lane[m]) : lane[m][j].run < n
                /\ \A j \in 1..i-1 : q[j].target # q[i].target
  PROVE  /\ lane' \in [Scanners -> Seq(Snapshots)]
         /\ Len(lane'[m]) = Len(lane[m]) + Len(q)
         /\ \A x \in Scanners \ {m} : lane'[x] = lane[x]
         /\ RowsInv' /\ OrderInv' /\ OpenInv'
<1>1. lane[m] \in Seq(Snapshots) /\ lane'[m] = lane[m] \o q /\ n \in Nat
  BY CommandAssumption DEF TypeOK
<1>2. /\ lane'[m] \in Seq(Snapshots)
      /\ Len(lane[m]) \in Nat /\ Len(q) \in Nat
      /\ Len(lane'[m]) = Len(lane[m]) + Len(q)
      /\ \A i \in 1..Len(lane[m]) : lane'[m][i] = lane[m][i]
      /\ \A i \in Len(lane[m])+1..Len(lane'[m]) :
           i - Len(lane[m]) \in 1..Len(q) /\ lane'[m][i] = q[i - Len(lane[m])]
  BY <1>1, ConcatProperties, LenProperties
<1>3. lane' \in [Scanners -> Seq(Snapshots)] /\ \A x \in Scanners \ {m} : lane'[x] = lane[x]
  BY <1>2 DEF TypeOK
<1>4. ASSUME NEW i \in 1..Len(lane[m])
      PROVE  lane[m][i].run \in Nat
  <2>1. lane[m][i] \in Snapshots
    BY <1>1, ElementOfSeq
  <2>2. QED  BY <2>1, CommandAssumption DEF Snapshots
<1>5. ASSUME NEW x \in Scanners, NEW i \in 1..Len(lane'[x])
      PROVE  LET s == lane'[x][i]
             IN /\ s.run <= n
                /\ x = "security" => s.findings \subseteq Rules
                /\ s.closes => x \in Closing /\
                     \A y \in Rules \ s.findings : <<s.run, <<s.at, y>>>> \in looked
  <2>1. CASE x = m /\ i \in Len(lane[m])+1..Len(lane'[m])
    <3>1. PICK k \in 1..Len(q) : lane'[x][i] = q[k]
      BY <2>1, <1>2
    <3>2. QED  BY <2>1, <3>1, <1>1
  <2>2. CASE x # m \/ i \in 1..Len(lane[m])
    BY <2>2, <1>2, <1>3 DEF RowsInv
  <2>3. QED  BY <2>1, <2>2, <1>2
<1>6. RowsInv'
  BY <1>5 DEF RowsInv
<1>7. ASSUME NEW x \in Scanners, NEW j \in 1..Len(lane'[x]), NEW i \in 1..j-1
      PROVE  LET r == lane'[x][i]  s == lane'[x][j]
             IN r.run <= s.run /\ (r.run = s.run /\ r.target = s.target => ~s.closes)
  <2>1. CASE x # m
    BY <2>1, <1>3 DEF OrderInv
  <2>2. CASE x = m /\ j \in 1..Len(lane[m])
    <3>1. i \in 1..Len(lane[m])
      BY <2>2, <1>2
    <3>2. QED  BY <2>2, <3>1, <1>2 DEF OrderInv
  <2>3. CASE x = m /\ j \in Len(lane[m])+1..Len(lane'[m])
    <3>1. PICK k \in 1..Len(q) : k = j - Len(lane[m]) /\ lane'[m][j] = q[k]
      BY <2>3, <1>2
    <3>2. CASE i \in 1..Len(lane[m])
      <4>1. lane'[m][i] = lane[m][i] /\ lane[m][i].run <= n /\ lane[m][i].run \in Nat
        BY <3>2, <1>2, <1>4 DEF RowsInv
      <4>2. q[k].run = n /\ (q[k].closes => lane[m][i].run < n)
        BY <3>2
      <4>3. q[k].closes => lane[m][i].run # n
        BY <4>1, <4>2, <1>1
      <4>4. QED  BY <2>3, <3>1, <3>2, <4>1, <4>2, <4>3, <1>1
    <3>3. CASE i \in Len(lane[m])+1..Len(lane'[m])
      <4>1. PICK h \in 1..Len(q) : h = i - Len(lane[m]) /\ lane'[m][i] = q[h]
        BY <3>3, <1>2
      <4>2. h \in 1..k-1
        BY <4>1, <3>1, <3>3, <2>3, <1>2
      <4>3. q[h].run = n /\ q[k].run = n
        OBVIOUS
      <4>4. q[k].closes => q[h].target # q[k].target
        BY <4>2
      <4>5. QED  BY <2>3, <3>1, <4>1, <4>3, <4>4, <1>1
    <3>4. QED  BY <3>2, <3>3, <2>3, <1>2
  <2>4. QED  BY <2>1, <2>2, <2>3, <1>2
<1>8. OrderInv'
  BY <1>7 DEF OrderInv
<1>9. ASSUME NEW x \in Scanners, NEW f \in Facts, open'[x][f] # 0
      PROVE  \E i \in 1..done'[x] : lane'[x][i].run = open'[x][f] /\ Names(lane'[x][i], f)
  <2>1. open[x][f] # 0 /\ open'[x] = open[x] /\ done'[x] = done[x]
    BY <1>9
  <2>2. PICK i \in 1..done[x] : lane[x][i].run = open[x][f] /\ Names(lane[x][i], f)
    BY <2>1 DEF OpenInv
  <2>3. i \in 1..Len(lane[x])
    BY LenProperties DEF TypeOK
  <2>4. lane'[x][i] = lane[x][i]
    BY <2>3, <1>2, <1>3
  <2>5. QED  BY <2>1, <2>2, <2>4
<1>10. OpenInv'
  BY <1>9 DEF OpenInv, Names
<1>11. QED  BY <1>2, <1>3, <1>6, <1>8, <1>10
-----------------------------------------------------------------------------
\* A command that ends, however it does.
LEMMA EndsTypes ==
  ASSUME TypeOK, StageInv, NEW e \in Exits, Ends(e),
         saved' \in [Scanners -> Seq(Snapshots)],
         lane' \in [Scanners -> Seq(Snapshots)],
         \A m \in Scanners : done[m] <= Len(lane'[m])
  PROVE  TypeOK' /\ StageInv'
BY TodoTypes DEF Ends, TypeOK, StageInv, Active

\* The ways a command comes to its end.
Over == \/ ScanFails \/ LookFails \/ ReviewFails \/ WriteFails \/ SyncDies \/ Finish \/ Killed
        \/ \E k \in 0..T-1, e \in Exits : PushDies(k, e)

LEMMA OverEnds ==
  ASSUME Over
  PROVE  /\ Active /\ \E e \in Exits : Ends(e)
         /\ lane' = lane \/ (Pushing /\ \E k \in 0..T-1 : Enqueue(Head(todo), k))
         /\ saved' \in Leaves \cup {saved}
BY DEF Over, ScanFails, LookFails, ReviewFails, WriteFails, SyncDies, Finish, Killed, PushDies,
       Pushing, Exits, Active

\* What a push has put in a lane, the first k targets of the mode.
Queued(m, k) == [t \in 1..k |-> Snapshot(ScanOf(m)[t], t, Closes(m, ScanOf(m)[t]))]

LEMMA EnqueueType ==
  ASSUME TypeOK, n \in 1..Runs, plan \in PlanType,
         NEW m \in {"security", "visual"}, NEW k \in 0..T,
         ScanOf(m) \in [Targets -> Results], Enqueue(m, k)
  PROVE  /\ Queued(m, k) \in Seq(Snapshots) /\ Len(Queued(m, k)) = k
         /\ ScannerOf(m) \in Scanners
         /\ lane' = [lane EXCEPT ![ScannerOf(m)] = @ \o Queued(m, k)]
         /\ lane' \in [Scanners -> Seq(Snapshots)]
         /\ \A x \in Scanners : done[x] <= Len(lane'[x])
<1> DEFINE q == Queued(m, k)
           x == ScannerOf(m)
<1>1. k \in Nat /\ 1..k \subseteq Targets
  BY CommandAssumption DEF Targets
<1>2. ASSUME NEW t \in 1..k
      PROVE  q[t] \in Snapshots
  <2>1. Closes(m, ScanOf(m)[t]) \in BOOLEAN
    BY DEF Closes
  <2>2. QED  BY <1>1, <2>1, SnapshotType DEF Queued
<1>3. q \in [1..k -> Snapshots]
  BY <1>2 DEF Queued
<1>4. q \in Seq(Snapshots) /\ Len(q) = k
  BY <1>1, <1>3, FunctionAsSeq
<1>5. x \in Scanners /\ lane[x] \in Seq(Snapshots)
  BY DEF ScannerOf, Kind, Scanners, TypeOK
<1>6. lane' = [lane EXCEPT ![x] = @ \o q]
  BY DEF Enqueue, Queued
<1> HIDE DEF q, x
<1>7. lane[x] \o q \in Seq(Snapshots) /\ Len(lane[x] \o q) = Len(lane[x]) + Len(q)
  BY <1>4, <1>5, ConcatProperties
<1>8. lane' \in [Scanners -> Seq(Snapshots)]
  BY <1>5, <1>6, <1>7 DEF TypeOK
<1>9. ASSUME NEW y \in Scanners
      PROVE  done[y] <= Len(lane'[y])
  <2>1. done[y] \in Nat /\ done[y] <= Len(lane[y]) /\ Len(lane[y]) \in Nat
    BY LenProperties DEF TypeOK
  <2>2. CASE y = x
    BY <2>1, <2>2, <1>1, <1>4, <1>5, <1>6, <1>7 DEF TypeOK
  <2>3. CASE y # x
    BY <2>1, <2>3, <1>6 DEF TypeOK
  <2>4. QED  BY <2>2, <2>3
<1>10. QED  BY <1>4, <1>5, <1>6, <1>8, <1>9 DEF q, x
-----------------------------------------------------------------------------
\* What scans did not see are facts.
LEMMA FactTypes == n \in 1..Runs => \A rs : Absent(rs) \subseteq (1..Runs) \X Facts
<1>1. Urls \X Rules \subseteq Facts
  BY DEF Facts, Everything
<1>2. QED  BY <1>1 DEF Absent

\* Steps of a command that only change where it is, and the flags.
LEMMA TypePreserved ==
  ASSUME TypeOK, StageInv, [Next]_vars
  PROVE  TypeOK' /\ StageInv'
<1> USE CommandAssumption DEF Active
<1>0. \A m \in Scanners : done[m] \in Nat /\ Len(lane[m]) \in Nat /\ done[m] <= Len(lane[m])
  BY LenProperties DEF TypeOK
<1>1. ASSUME n < Runs, NEW p \in Plans[n + 1], Begin(p)
      PROVE  TypeOK' /\ StageInv'
  <2>1. n + 1 \in 1..Runs /\ p \in PlanType
    <3>1. n \in 0..Runs
      BY DEF TypeOK
    <3>2. n + 1 \in 1..Runs
      BY <1>1, <3>1
    <3>3. Plans[n + 1] \subseteq PlanType
      BY <3>2
    <3>4. QED
      BY <1>1, <3>2, <3>3
  <2>2. TypeOK'
    BY <1>1, <2>1 DEF Begin, remote, TypeOK
  <2>3. StageInv'
    BY <1>1, <2>1 DEF Begin, StageInv
  <2>4. QED  BY <2>2, <2>3
<1>2. ASSUME Scan
      PROVE  TypeOK' /\ StageInv'
  <2>1. security' \in [Targets -> Results]
    BY <1>2, ResultTypes DEF Scan
  <2>2. looked' \subseteq (1..Runs) \X Facts
    BY <1>2, FactTypes, ActivePlan DEF Scan, TypeOK
  <2>3. TypeOK'
    BY <1>2, <2>1, <2>2 DEF Scan, remote, TypeOK
  <2>4. StageInv'
    BY <1>2, <2>1 DEF Scan, StageInv
  <2>5. QED  BY <2>3, <2>4
<1>3. ASSUME Look
      PROVE  TypeOK' /\ StageInv'
  <2>1. visual' \in [Targets -> Results]
    BY <1>3, ResultTypes DEF Look
  <2>2. TypeOK'
    BY <1>3, <2>1 DEF Look, remote, TypeOK
  <2>3. StageInv'
    BY <1>3, <2>1 DEF Look, StageInv
  <2>4. QED  BY <2>2, <2>3
<1>4. ASSUME NEW e \in Exits, Ends(e), saved' \in [Scanners -> Seq(Snapshots)], UNCHANGED lane
      PROVE  TypeOK' /\ StageInv'
  BY <1>0, <1>4, EndsTypes DEF TypeOK
<1>5. ASSUME ScanFails \/ LookFails \/ ReviewFails \/ WriteFails \/ SyncDies \/ Finish \/ Killed
      PROVE  TypeOK' /\ StageInv'
  <2>1. saved' \in [Scanners -> Seq(Snapshots)]
    <3>1. CASE WriteFails \/ Killed
      <4>1. Active /\ saved' \in Leaves
        BY <3>1 DEF WriteFails, Killed
      <4>2. QED  BY <4>1, LeavesTypes
    <3>2. CASE ScanFails \/ LookFails \/ ReviewFails \/ SyncDies \/ Finish
      BY <3>2 DEF ScanFails, LookFails, ReviewFails, SyncDies, Finish, TypeOK
    <3>3. QED  BY <1>5, <3>1, <3>2
  <2>2. QED
    BY <1>4, <1>5, <2>1 DEF ScanFails, LookFails, ReviewFails, WriteFails, SyncDies, Finish, Killed, Exits
<1>6. ASSUME Draft
      PROVE  TypeOK' /\ StageInv'
  <2>1. Whole \in [Targets -> Results]
    BY <1>6, WholeType DEF Draft
  <2>2. saved' \in [Scanners -> Seq(Snapshots)]
    BY <1>6, LeavesTypes DEF Draft
  <2>3. TypeOK'
    BY <1>6, <2>1, <2>2 DEF Draft, remote, TypeOK
  <2>4. StageInv'
    BY <1>6, <2>1 DEF Draft, StageInv
  <2>5. QED  BY <2>3, <2>4
<1>7. ASSUME NEW D \in SUBSET Targets, NEW o \in [D -> SUBSET Reviewed],
             NEW i \in Targets \cup {None}, Review(o, i)
      PROVE  TypeOK' /\ StageInv'
  <2>0. ASSUME NEW rs \in [Targets -> Results]
        PROVE  /\ \A t \in Targets : ReviewOf(rs[t], t, o, i) \in Results
               /\ ReviewedSnapshot(rs, o) \in [Targets -> Results]
    BY ReviewTypes
  <2>1. report \in [Targets -> Results]
    BY <1>7 DEF Review, StageInv
  <2>2. report' \in [Targets -> Results]
    BY <1>7, <2>0, <2>1 DEF Review
  <2>3. CASE plan.security
    <3>1. security' \in [Targets -> Results] /\ UNCHANGED visual
      BY <1>7, <2>0, <2>3 DEF Review, StageInv
    <3>2. TypeOK'
      BY <1>7, <2>2, <3>1 DEF Review, remote, TypeOK
    <3>3. StageInv'
      BY <1>7, <2>2, <3>1 DEF Review, StageInv
    <3>4. QED  BY <3>2, <3>3
  <2>4. CASE ~plan.security
    <3>1. plan.visual
      BY <1>7, <2>4, ActivePlan DEF Review
    <3>2. visual' \in [Targets -> Results] /\ UNCHANGED security
      BY <1>7, <2>0, <2>4, <3>1 DEF Review, StageInv
    <3>3. TypeOK'
      BY <1>7, <2>2, <3>2 DEF Review, remote, TypeOK
    <3>4. StageInv'
      BY <1>7, <2>2, <2>4, <3>2 DEF Review, StageInv
    <3>5. QED  BY <3>3, <3>4
  <2>5. QED  BY <2>3, <2>4
<1>8. ASSUME Write
      PROVE  TypeOK' /\ StageInv'
  <2>1. Final \in [Targets -> Results]
    BY <1>8, WholeType DEF Final, Write, StageInv
  <2>2. saved' \in [Scanners -> Seq(Snapshots)]
    BY <1>8, LeavesTypes DEF Write
  <2>3. TypeOK'
    BY <1>8, <2>1, <2>2 DEF Write, remote, TypeOK
  <2>4. StageInv'
    BY <1>8 DEF Write, StageInv
  <2>5. QED  BY <2>3, <2>4
<1>9. ASSUME NEW ok \in BOOLEAN, Store(ok)
      PROVE  TypeOK' /\ StageInv'
  <2>1. todo' \in Todos /\ todo' \in Seq({"security", "visual"})
    BY <1>9, TodoTypes DEF Store
  <2>2. TypeOK'
    BY <1>9, <2>1 DEF Store, remote, TypeOK
  <2>3. /\ todo' \in ListsWith("security") => plan.security
        /\ todo' \in ListsWith("visual") => plan.visual
    BY <1>9, TodoTypes DEF Store
  <2>4. stage = "store" /\ stage' = "push" /\ UNCHANGED <<n, plan, security, visual, report>>
    BY <1>9 DEF Store
  <2>5. StageInv'
    BY <2>1, <2>3, <2>4 DEF StageInv
  <2>6. QED  BY <2>2, <2>5
<1>10. ASSUME Pushing
       PROVE  /\ Head(todo) \in {"security", "visual"} /\ Tail(todo) \in Todos
              /\ Tail(todo) \in Seq({"security", "visual"})
              /\ n \in 1..Runs /\ plan \in PlanType
  BY <1>10, TodoTypes, ActivePlan DEF Pushing, StageInv
<1>11. ASSUME Pushing, NEW k \in 0..T, Enqueue(Head(todo), k)
       PROVE  /\ lane' \in [Scanners -> Seq(Snapshots)]
              /\ \A x \in Scanners : done[x] <= Len(lane'[x])
  <2>1. ScanOf(Head(todo)) \in [Targets -> Results]
    BY <1>10, <1>11, TodoTypes DEF ScanOf, Pushing, StageInv
  <2>2. QED  BY <1>10, <1>11, <2>1, EnqueueType
<1>12. ASSUME Push
       PROVE  TypeOK' /\ StageInv'
  <2>1. Pushing /\ T \in 0..T
    BY <1>12 DEF Push
  <2>2. /\ lane' \in [Scanners -> Seq(Snapshots)]
        /\ \A x \in Scanners : done[x] <= Len(lane'[x])
    BY <1>11, <1>12, <2>1 DEF Push
  <2>3. TypeOK'
    BY <1>10, <1>12, <2>1, <2>2 DEF Push, TypeOK
  <2>4. StageInv'
    BY <1>10, <1>12, <2>1, TodoTypes DEF Push, Pushing, StageInv
  <2>5. QED  BY <2>3, <2>4
<1>13. ASSUME NEW k \in 0..T-1, PushFails(k)
       PROVE  TypeOK' /\ StageInv'
  <2>1. Pushing /\ k \in 0..T
    BY <1>13 DEF PushFails
  <2>2. /\ lane' \in [Scanners -> Seq(Snapshots)]
        /\ \A x \in Scanners : done[x] <= Len(lane'[x])
    BY <1>11, <1>13, <2>1 DEF PushFails
  <2>3. TypeOK'
    BY <1>10, <1>13, <2>1, <2>2 DEF PushFails, Noticed, TypeOK
  <2>4. StageInv'
    BY <1>10, <1>13, <2>1, TodoTypes DEF PushFails, Pushing, StageInv
  <2>5. QED  BY <2>3, <2>4
<1>14. ASSUME NEW k \in 0..T-1, NEW e \in Exits, PushDies(k, e)
       PROVE  TypeOK' /\ StageInv'
  <2>1. Pushing /\ k \in 0..T /\ saved' \in [Scanners -> Seq(Snapshots)]
    BY <1>14 DEF PushDies, TypeOK
  <2>2. /\ lane' \in [Scanners -> Seq(Snapshots)]
        /\ \A x \in Scanners : done[x] <= Len(lane'[x])
    BY <1>11, <1>14, <2>1 DEF PushDies
  <2>3. QED  BY <1>14, <2>1, <2>2, EndsTypes DEF PushDies
<1>15. ASSUME Synced
       PROVE  TypeOK' /\ StageInv'
  <2>1. todo # <<>> /\ Tail(todo) \in Todos /\ Tail(todo) \in Seq({"security", "visual"})
    BY <1>15, TodoTypes DEF Synced, StageInv
  <2>2. TypeOK'
    BY <1>15, <2>1 DEF Synced, remote, TypeOK, Waits
  <2>3. StageInv'
    BY <1>15, <2>1, TodoTypes DEF Synced, StageInv
  <2>4. QED  BY <2>2, <2>3
<1>16. ASSUME Retry \/ Retried
       PROVE  TypeOK' /\ StageInv'
  <2>1. TypeOK'
    BY <1>16 DEF Retry, Retried, memory, remote, TypeOK
  <2>2. StageInv'
    BY <1>16 DEF Retry, Retried, memory, StageInv
  <2>3. QED  BY <2>1, <2>2
<1>17. ASSUME NEW m \in Scanners, Deliver(m)
       PROVE  TypeOK' /\ StageInv'
  <2>1. done[m] + 1 \in 1..Len(lane[m]) /\ done[m] \in Nat
    BY <1>0, <1>17 DEF Deliver, Waiting
  <2>2. lane[m][done[m] + 1] \in Snapshots
    BY <2>1, ElementOfSeq DEF TypeOK
  <2>3. open' \in [Scanners -> [Facts -> 0..Runs]]
    BY <1>17, <2>2 DEF Deliver, Snapshots, TypeOK
  <2>4. done' \in [Scanners -> Nat] /\ \A x \in Scanners : done'[x] <= Len(lane[x])
    BY <1>0, <1>17, <2>1 DEF Deliver, TypeOK
  <2>5. TypeOK'
    BY <1>17, <2>3, <2>4 DEF Deliver, memory, TypeOK
  <2>6. StageInv'
    BY <1>17 DEF Deliver, memory, StageInv
  <2>7. QED  BY <2>5, <2>6
<1>18. ASSUME NEW m \in Scanners, Hold(m)
       PROVE  TypeOK' /\ StageInv'
  <2>1. TypeOK'
    BY <1>18 DEF Hold, memory, remote, TypeOK
  <2>2. StageInv'
    BY <1>18 DEF Hold, memory, StageInv
  <2>3. QED  BY <2>1, <2>2
<1>19. ASSUME NEW m \in Scanners, Upload(m)
       PROVE  TypeOK' /\ StageInv'
  <2>1. PICK i \in 1..Len(saved[m]) : lane' = [lane EXCEPT ![m] = Append(@, saved[m][i])]
    BY <1>19 DEF Upload
  <2>2. saved[m][i] \in Snapshots /\ lane[m] \in Seq(Snapshots)
    BY ElementOfSeq DEF TypeOK
  <2>3. /\ Append(lane[m], saved[m][i]) \in Seq(Snapshots)
        /\ Len(Append(lane[m], saved[m][i])) = Len(lane[m]) + 1
    BY <2>2, AppendProperties
  <2>4. lane' \in [Scanners -> Seq(Snapshots)] /\ \A x \in Scanners : done[x] <= Len(lane'[x])
    BY <1>0, <2>1, <2>3 DEF TypeOK
  <2>5. TypeOK'
    BY <1>19, <2>4 DEF Upload, memory, TypeOK
  <2>6. StageInv'
    BY <1>19 DEF Upload, memory, StageInv
  <2>7. QED  BY <2>5, <2>6
<1>20. CASE UNCHANGED vars
  <2>1. TypeOK'
    BY <1>20 DEF vars, memory, remote, TypeOK
  <2>2. StageInv'
    BY <1>20 DEF vars, memory, StageInv
  <2>3. QED  BY <2>1, <2>2
<1>21. QED
  BY <1>1, <1>2, <1>3, <1>5, <1>6, <1>7, <1>8, <1>9, <1>12, <1>13, <1>14, <1>15, <1>16,
     <1>17, <1>18, <1>19, <1>20 DEF Next
-----------------------------------------------------------------------------
\* A baseline scan stays as it was made: only a review changes it, and a
\* reviewed scan is not a baseline scan.
LEMMA ScanPreserved ==
  ASSUME TypeOK, StageInv, ScanInv, [Next]_vars
  PROVE  ScanInv'
<1>1. ASSUME UNCHANGED <<n, plan, security>>, looked \subseteq looked', Active, stage # "scan"
      PROVE  ScanInv'
  BY <1>1 DEF ScanInv, Active, Baseline, Absent
<1>2. ASSUME ~Active' \/ stage' = "scan"
      PROVE  ScanInv'
  BY <1>2 DEF ScanInv, Active
<1>3. ASSUME NEW p \in Plans[n + 1], Begin(p)
      PROVE  ScanInv'
  BY <1>3 DEF Begin, ScanInv
<1>4. ASSUME Scan
      PROVE  ScanInv'
  BY <1>4 DEF Scan, ScanInv, Baseline, Absent
<1>5. ASSUME NEW D \in SUBSET Targets, NEW o \in [D -> SUBSET Reviewed],
             NEW i \in Targets \cup {None}, Review(o, i)
      PROVE  ScanInv'
  <2>1. plan.extended /\ plan' = plan
    BY <1>5, ActivePlan DEF Review, StageInv, Active
  <2>2. QED  BY <2>1 DEF ScanInv, Baseline
<1>6. ASSUME NEW e \in Exits, Ends(e)
      PROVE  ScanInv'
  BY <1>2, <1>6 DEF Ends, Active
<1>7. ASSUME Over
      PROVE  ScanInv'
  BY <1>6, <1>7, OverEnds
<1>8. ASSUME Look \/ Draft \/ Write \/ Push \/ Synced \/ (\E ok \in BOOLEAN : Store(ok))
               \/ (\E k \in 0..T-1 : PushFails(k))
      PROVE  ScanInv'
  BY <1>1, <1>8 DEF Look, Draft, Write, Push, Synced, Store, PushFails, Pushing, Active
<1>9. ASSUME Retry \/ Retried \/ \E m \in Scanners : Upload(m)
      PROVE  ScanInv'
  BY <1>2, <1>9 DEF Retry, Retried, Upload, Active
<1>10. ASSUME NEW m \in Scanners, Deliver(m) \/ Hold(m)
       PROVE  ScanInv'
  BY <1>1, <1>2, <1>10 DEF Deliver, Hold, memory, Active
<1>11. CASE UNCHANGED vars
  BY <1>11 DEF ScanInv, Active, Baseline, Absent, vars, memory
<1>12. QED
  BY <1>3, <1>4, <1>5, <1>7, <1>8, <1>9, <1>10, <1>11 DEF Next, Over
-----------------------------------------------------------------------------
\* The rows that saving the reports of one scan makes.
LEMMA SavedRows ==
  ASSUME TypeOK, SavedInv, n \in 1..Runs, plan \in PlanType, NEW m \in {"security", "visual"},
         NEW rs \in [Targets -> Results],
         ScannerOf(m) = "security" => \A t \in Targets : rs[t].findings \subseteq Rules
  PROVE  \A x \in Scanners : \A i \in 1..Len(AsSaved(m, rs)[x]) : SavedRow(x, AsSaved(m, rs)[x][i])
<1> SUFFICES ASSUME NEW x \in Scanners, NEW i \in 1..Len(AsSaved(m, rs)[x])
             PROVE  SavedRow(x, AsSaved(m, rs)[x][i])
  OBVIOUS
<1>1. CASE x = ScannerOf(m)
  <2>1. i \in Targets
    BY <1>1, SavedType DEF Targets
  <2>2. AsSaved(m, rs)[x][i] = Snapshot(rs[i], i, FALSE)
    BY <1>1, <2>1, SavedType
  <2>3. QED  BY <1>1, <2>1, <2>2 DEF Snapshot, SavedRow
<1>2. CASE x # ScannerOf(m)
  <2>1. AsSaved(m, rs)[x] = saved[x]
    BY <1>2, SavedType
  <2>2. QED  BY <2>1 DEF SavedInv
<1>3. QED  BY <1>1, <1>2

\* All that a command may leave on disk is such rows.
LEMMA LeavesRows ==
  ASSUME TypeOK, StageInv, ScanInv, SavedInv, Active, NEW d \in Leaves
  PROVE  \A x \in Scanners : \A i \in 1..Len(d[x]) : SavedRow(x, d[x][i])
<1> DEFINE Fine(e) == \A x \in Scanners : \A i \in 1..Len(e[x]) : SavedRow(x, e[x][i])
<1>1. /\ plan \in PlanType /\ n \in 1..Runs /\ (plan.review => plan.extended)
      /\ Head(ModesToPush) \in {"security", "visual"}
      /\ Head(ModesToPush) = IF plan.security THEN "security" ELSE "visual"
      /\ Fine(saved)
  BY ActivePlan, TodoTypes DEF SavedInv
<1>2. ASSUME stage = "merge", plan.review
      PROVE  Fine(DraftSaved)
  <2>1. Whole \in [Targets -> Results]
    BY <1>2, WholeType
  <2>2. ScannerOf(Head(ModesToPush)) # "security"
    BY <1>1, <1>2 DEF ScannerOf, Kind
  <2>3. Fine(AsSaved(Head(ModesToPush), Whole))
    BY <1>1, <2>1, <2>2, SavedRows
  <2>4. QED  BY <1>1, <2>3 DEF DraftSaved
<1>3. ASSUME stage \in {"merge", "write"}, plan.security, Baseline
      PROVE  \A t \in Targets : security[t].findings \subseteq Rules
  <2>1. security \in [Targets -> Outcomes]
    BY <1>3 DEF ScanInv
  <2>2. QED  BY <2>1, CommandAssumption
<1>4. ASSUME stage \in {"merge", "write"}, Combined
      PROVE  Fine(AsSaved("security", security)) /\ Fine(SavedBoth)
  <2>1. security \in [Targets -> Results] /\ visual \in [Targets -> Results] /\ plan.security
    BY <1>4 DEF Combined, StageInv
  <2>2. Fine(AsSaved("security", security))
    BY <1>1, <1>3, <1>4, <2>1, SavedRows DEF ScannerOf, Kind, Baseline
  <2>3. Fine(AsSaved("visual", visual))
    BY <1>1, <2>1, SavedRows DEF ScannerOf, Kind
  <2>4. QED  BY <1>1, <2>1, <2>2, <2>3, BothType
<1>5. ASSUME stage = "write" \/ (stage = "merge" /\ ~plan.review)
      PROVE  Fine(FinalSaved)
  <2>1. Final \in [Targets -> Results]
    BY <1>5, WholeType DEF Final, StageInv
  <2>2. CASE Combined
    BY <1>1, <1>4, <1>5, <2>2 DEF FinalSaved
  <2>3. CASE ~Combined
    <3>1. ASSUME ScannerOf(Head(ModesToPush)) = "security"
          PROVE  \A t \in Targets : Final[t].findings \subseteq Rules
      <4>1. plan.security /\ Baseline
        BY <1>1, <3>1 DEF ScannerOf, Kind, Baseline
      <4>2. Final = security
        BY <1>1, <2>3, <4>1 DEF Final, Whole, Baseline
      <4>3. QED  BY <1>3, <1>5, <4>1, <4>2
    <3>2. Fine(AsSaved(Head(ModesToPush), Final))
      BY <1>1, <2>1, <3>1, SavedRows
    <3>3. QED  BY <1>1, <2>3, <3>2 DEF FinalSaved
  <2>4. QED  BY <2>2, <2>3
<1> HIDE DEF Fine
<1>6. Fine(d)
  BY <1>1, <1>2, <1>4, <1>5 DEF Leaves
<1>7. QED  BY <1>6 DEF Fine

\* Only reports of the last command are on disk, and they close nothing.
LEMMA SavedPreserved ==
  ASSUME TypeOK, StageInv, ScanInv, SavedInv, [Next]_vars
  PROVE  SavedInv'
<1>1. ASSUME UNCHANGED <<n, saved>>
      PROVE  SavedInv'
  BY <1>1 DEF SavedInv, SavedRow
<1>2. ASSUME NEW p \in Plans[n + 1], Begin(p)
      PROVE  SavedInv'
  BY <1>2 DEF Begin, SavedInv
<1>3. ASSUME n' = n, saved' \in Leaves, Active
      PROVE  SavedInv'
  <2>1. \A x \in Scanners : \A i \in 1..Len(saved'[x]) : SavedRow(x, saved'[x][i])
    BY <1>3, LeavesRows
  <2>2. QED  BY <1>3, <2>1 DEF SavedInv, SavedRow
<1>4. ASSUME Draft \/ Write
      PROVE  SavedInv'
  <2>1. Active /\ n' = n
    BY <1>4 DEF Draft, Write, Active
  <2>2. saved' \in Leaves
    BY <1>4, <2>1, LeavesTypes DEF Draft, Write
  <2>3. QED  BY <1>3, <2>1, <2>2
<1>6. ASSUME Over
      PROVE  SavedInv'
  <2>1. Active /\ n' = n /\ saved' \in Leaves \cup {saved}
    BY <1>6, OverEnds DEF Ends
  <2>2. QED  BY <1>1, <1>3, <2>1
<1>7. ASSUME Scan \/ Look \/ Push \/ Synced \/ Retry \/ Retried
               \/ (\E D \in SUBSET Targets : \E o \in [D -> SUBSET Reviewed], i \in Targets \cup {None} :
                     Review(o, i))
               \/ (\E ok \in BOOLEAN : Store(ok)) \/ (\E k \in 0..T-1 : PushFails(k))
               \/ (\E m \in Scanners : Deliver(m) \/ Hold(m) \/ Upload(m))
      PROVE  SavedInv'
  <2>1. UNCHANGED <<n, saved>>
    BY <1>7 DEF Scan, Look, Push, Synced, Retry, Retried, Review, Store, PushFails, Deliver, Hold, Upload
  <2>2. QED  BY <1>1, <2>1
<1>8. CASE UNCHANGED vars
  BY <1>1, <1>8 DEF vars
<1>9. QED
  BY <1>2, <1>4, <1>6, <1>7, <1>8 DEF Next, Over
-----------------------------------------------------------------------------
\* Until its security scan is queued, a command has no rows in that lane.
LEMMA FreshPreserved ==
  ASSUME TypeOK, StageInv, RowsInv, FreshInv, [Next]_vars
  PROVE  FreshInv'
<1>1. ASSUME ~Active' \/ stage' = "sync"
               \/ (stage' = "push" /\ (todo' = <<>> \/ Head(todo') # "security"))
      PROVE  FreshInv'
  BY <1>1 DEF FreshInv, Active
<1>2. ASSUME UNCHANGED <<n, lane>>, Active, stage # "sync",
             stage = "push" => todo # <<>> /\ Head(todo) = "security"
      PROVE  FreshInv'
  BY <1>2 DEF FreshInv
<1>3. ASSUME NEW p \in Plans[n + 1], Begin(p)
      PROVE  FreshInv'
  <2>1. ASSUME NEW m \in Closing, NEW i \in 1..Len(lane[m])
        PROVE  lane[m][i].run < n + 1
    <3>1. m \in Scanners /\ n \in Nat
      BY CommandAssumption DEF Scanners, Closing, TypeOK
    <3>2. lane[m][i] \in Snapshots
      BY <3>1, ElementOfSeq DEF TypeOK
    <3>3. lane[m][i].run \in Nat
      BY <3>2, CommandAssumption DEF Snapshots
    <3>4. lane[m][i].run <= n
      BY <3>1 DEF RowsInv
    <3>5. QED  BY <3>1, <3>3, <3>4
  <2>2. lane' = lane /\ n' = n + 1
    BY <1>3 DEF Begin, remote
  <2>3. QED  BY <2>1, <2>2 DEF FreshInv
<1>4. ASSUME Scan \/ Look \/ Draft \/ Write
               \/ (\E D \in SUBSET Targets : \E o \in [D -> SUBSET Reviewed], i \in Targets \cup {None} :
                     Review(o, i))
               \/ (\E ok \in BOOLEAN : Store(ok))
      PROVE  FreshInv'
  <2>1. UNCHANGED <<n, lane>> /\ Active /\ stage \notin {"sync", "push"}
    BY <1>4 DEF Scan, Look, Draft, Write, Review, Store, remote, Active
  <2>2. QED  BY <1>2, <2>1
<1>5. ASSUME Over
      PROVE  FreshInv'
  <2>1. stage' = "idle"
    BY <1>5, OverEnds DEF Ends
  <2>2. QED  BY <1>1, <2>1 DEF Active
<1>6. ASSUME todo \in Todos, todo # <<>>, stage' = "push", todo' = Tail(todo)
      PROVE  FreshInv'
  <2>1. todo' # <<>> => Head(todo') = "visual"
    BY <1>6, TodoTypes
  <2>2. QED  BY <1>1, <1>6, <2>1
<1>7. ASSUME Push \/ Synced \/ \E k \in 0..T-1 : PushFails(k)
      PROVE  FreshInv'
  <2>1. todo \in Todos /\ todo # <<>>
    BY <1>7 DEF Push, Synced, PushFails, Pushing, StageInv
  <2>2. stage' = "sync" \/ (stage' = "push" /\ todo' = Tail(todo))
    BY <1>7 DEF Push, Synced, PushFails, Pushing
  <2>3. QED  BY <1>1, <1>6, <2>1, <2>2
<1>8. ASSUME Retry \/ Retried \/ \E m \in Scanners : Upload(m)
      PROVE  FreshInv'
  BY <1>1, <1>8 DEF Retry, Retried, Upload, Active
<1>9. ASSUME NEW m \in Scanners, Deliver(m) \/ Hold(m)
      PROVE  FreshInv'
  BY <1>1, <1>9 DEF Deliver, Hold, Active
<1>10. CASE UNCHANGED vars
  BY <1>10 DEF FreshInv, Active, vars, memory, remote
<1>11. QED
  BY <1>3, <1>4, <1>5, <1>7, <1>8, <1>9, <1>10 DEF Next, Over
-----------------------------------------------------------------------------
\* What a snapshot says.
LEMMA SnapshotFields ==
  \A r, t, c : LET s == Snapshot(r, t, c)
               IN /\ s.run = n /\ s.target = t /\ s.at = plan.at[t] /\ s.closes = c
                  /\ s.findings = IF r.status = "FAILED" THEN {} ELSE r.findings
BY DEF Snapshot

\* What a push queues keeps the lanes in order, and only a complete baseline
\* scan closes.
LEMMA EnqueuePreserves ==
  ASSUME IInv, Pushing, NEW k \in 0..T, Enqueue(Head(todo), k),
         UNCHANGED <<n, done, open, looked>>
  PROVE  RowsInv' /\ OrderInv' /\ OpenInv'
<1> DEFINE m == Head(todo)  q == Queued(m, k)
<1> USE DEF IInv
<1>1. /\ m \in {"security", "visual"} /\ n \in 1..Runs /\ plan \in PlanType
      /\ todo \in ListsWith(m) /\ Active /\ stage = "push" /\ todo # <<>>
  BY TodoTypes, ActivePlan DEF Pushing, StageInv, Active
<1>2. /\ m = "security" => plan.security
      /\ ScanOf(m) \in [Targets -> Results]
  BY <1>1 DEF ScanOf, StageInv
<1>3. /\ q \in Seq(Snapshots) /\ Len(q) = k /\ ScannerOf(m) \in Scanners
      /\ lane' = [lane EXCEPT ![ScannerOf(m)] = @ \o q]
  BY <1>1, <1>2, EnqueueType
<1>4. k \in Nat /\ 1..k \subseteq Targets
  BY CommandAssumption DEF Targets
<1>5. ASSUME m = "security", Baseline
      PROVE  /\ ScanOf(m) = security /\ ScannerOf(m) \in Closing
             /\ security \in [Targets -> Outcomes]
             /\ plan.approved => Absent(security) \subseteq looked
             /\ \A j \in 1..Len(lane[ScannerOf(m)]) : lane[ScannerOf(m)][j].run < n
  <2>1. ScanOf(m) = security /\ ScannerOf(m) \in Closing
    BY <1>5 DEF ScannerOf, Kind, Closing, Baseline, ScanOf
  <2>2. security \in [Targets -> Outcomes] /\ (plan.approved => Absent(security) \subseteq looked)
    BY <1>1, <1>2, <1>5 DEF ScanInv
  <2>3. \A j \in 1..Len(lane[ScannerOf(m)]) : lane[ScannerOf(m)][j].run < n
    BY <1>1, <1>5, <2>1 DEF FreshInv
  <2>4. QED  BY <2>1, <2>2, <2>3
<1>6. ASSUME NEW i \in 1..Len(q)
      PROVE  /\ q[i].run = n
             /\ ScannerOf(m) = "security" => q[i].findings \subseteq Rules
             /\ q[i].closes =>
                  /\ ScannerOf(m) \in Closing
                  /\ \A x \in Rules \ q[i].findings : <<n, <<q[i].at, x>>>> \in looked
                  /\ \A j \in 1..Len(lane[ScannerOf(m)]) : lane[ScannerOf(m)][j].run < n
                  /\ \A j \in 1..i-1 : q[j].target # q[i].target
  <2>1. i \in 1..k /\ i \in Targets
    BY <1>3, <1>4
  <2>2. \A j \in 1..k : q[j] = Snapshot(ScanOf(m)[j], j, Closes(m, ScanOf(m)[j]))
    BY DEF Queued
  <2>3. /\ q[i].run = n /\ q[i].closes = Closes(m, ScanOf(m)[i]) /\ q[i].at = plan.at[i]
        /\ \A j \in 1..k : q[j].target = j
    BY <2>1, <2>2, SnapshotFields
  <2>4. ASSUME ScannerOf(m) = "security"
        PROVE  q[i].findings \subseteq Rules
    <3>1. m = "security" /\ Baseline
      BY <1>1, <2>4 DEF ScannerOf, Kind, Baseline
    <3>2. security[i] \in Outcomes /\ ScanOf(m) = security
      BY <1>5, <2>1, <3>1
    <3>3. security[i].findings \subseteq Rules
      BY <3>2, CommandAssumption
    <3>4. QED  BY <2>1, <2>2, <3>2, <3>3, SnapshotFields
  <2>5. ASSUME q[i].closes
        PROVE  /\ ScannerOf(m) \in Closing
               /\ \A x \in Rules \ q[i].findings : <<n, <<q[i].at, x>>>> \in looked
               /\ \A j \in 1..Len(lane[ScannerOf(m)]) : lane[ScannerOf(m)][j].run < n
               /\ \A j \in 1..i-1 : q[j].target # q[i].target
    <3>1. m = "security" /\ Baseline /\ plan.approved /\ ScanOf(m)[i].plain /\ ScanOf(m)[i].complete
      BY <2>3, <2>5 DEF Closes
    <3>2. ScanOf(m) = security /\ ScannerOf(m) \in Closing
      BY <1>5, <3>1
    <3>3. security[i] \in Outcomes /\ security[i].plain /\ security[i].complete
      BY <1>5, <2>1, <3>1, <3>2
    <3>4. security[i].status = "SUCCESS"
      BY <3>3, CommandAssumption
    <3>5. q[i].findings = security[i].findings
      BY <2>1, <2>2, <3>2, <3>4, SnapshotFields
    <3>6. ASSUME NEW x \in Rules \ q[i].findings
          PROVE  <<n, <<q[i].at, x>>>> \in looked
      <4> DEFINE g == <<plan.at[i], x>>
      <4>1. g \in Urls \X Rules /\ g[1] = plan.at[i] /\ g[2] = x
        BY <1>1, <2>1 DEF PlanType
      <4>2. <<n, g>> \in Absent(security)
        <5>1. /\ plan.at[i] = g[1] /\ security[i].status = "SUCCESS" /\ security[i].plain
              /\ g[2] \notin security[i].findings
          BY <3>3, <3>4, <3>5, <4>1
        <5> HIDE DEF g
        <5>2. QED  BY <2>1, <4>1, <5>1 DEF Absent
      <4>3. QED  BY <1>5, <2>3, <3>1, <4>2
    <3>7. \A j \in 1..i-1 : q[j].target # q[i].target
      BY <2>1, <2>3, <1>4
    <3>8. QED  BY <1>5, <3>1, <3>2, <3>6, <3>7
  <2>6. QED  BY <2>3, <2>4, <2>5
<1> HIDE DEF q, m
<1>7. QED  BY <1>3, <1>6, Appended

\* The lanes stay in order, what closes is a complete baseline scan, and what
\* is open was reported.
LEMMA LanesPreserved ==
  ASSUME IInv, [Next]_vars
  PROVE  RowsInv' /\ OrderInv' /\ OpenInv'
<1> DEFINE P == RowsInv' /\ OrderInv' /\ OpenInv'
<1> USE DEF IInv
<1>0. n \in Nat
  BY CommandAssumption DEF TypeOK
<1>1. ASSUME UNCHANGED <<lane, done, open>>, n' \in Nat, n <= n', looked \subseteq looked'
      PROVE  P
  BY <1>0, <1>1, SameLanes
<1> HIDE DEF P
<1>2. ASSUME UNCHANGED <<n, looked, lane, done, open>>
      PROVE  P
  BY <1>0, <1>1, <1>2
<1>3. ASSUME NEW p \in Plans[n + 1], Begin(p)
      PROVE  P
  <2>1. UNCHANGED <<lane, done, open>> /\ looked' = looked /\ n' = n + 1
    BY <1>3 DEF Begin, remote
  <2>2. QED  BY <1>0, <1>1, <2>1
<1>4. ASSUME Scan
      PROVE  P
  <2>1. UNCHANGED <<n, lane, done, open>> /\ looked \subseteq looked'
    BY <1>4 DEF Scan, remote
  <2>2. QED  BY <1>0, <1>1, <2>1
<1>6. ASSUME Look \/ Draft \/ Write \/ Synced \/ Retry \/ Retried
               \/ (\E D \in SUBSET Targets : \E o \in [D -> SUBSET Reviewed], i \in Targets \cup {None} :
                     Review(o, i))
               \/ (\E ok \in BOOLEAN : Store(ok))
               \/ (\E m \in Scanners : Hold(m))
      PROVE  P
  <2>1. UNCHANGED <<n, looked, lane, done, open>>
    BY <1>6 DEF Look, Draft, Write, Synced, Retry, Retried, Review, Store, Hold, remote
  <2>2. QED  BY <1>2, <2>1
<1>7. ASSUME Pushing, NEW k \in 0..T, Enqueue(Head(todo), k), UNCHANGED <<n, done, open, looked>>
      PROVE  P
  BY <1>7, EnqueuePreserves DEF P
<1>8. ASSUME Push \/ (\E k \in 0..T-1 : PushFails(k))
      PROVE  P
  <2>1. Pushing /\ UNCHANGED <<n, done, open, looked>>
    BY <1>8 DEF Push, PushFails
  <2>2. \E k \in 0..T : Enqueue(Head(todo), k)
    BY <1>8, CommandAssumption DEF Push, PushFails
  <2>3. QED  BY <1>7, <2>1, <2>2
<1>5. ASSUME Over
      PROVE  P
  <2>1. UNCHANGED <<n, looked, done, open>>
    BY <1>5, OverEnds DEF Ends
  <2>2. lane' = lane \/ (Pushing /\ \E k \in 0..T : Enqueue(Head(todo), k))
    BY <1>5, OverEnds, CommandAssumption
  <2>3. QED  BY <1>2, <1>7, <2>1, <2>2
<1>9. ASSUME NEW m \in Scanners, Upload(m)
      PROVE  P
  <2>1. PICK i \in 1..Len(saved[m]) : lane' = [lane EXCEPT ![m] = Append(@, saved[m][i])]
    BY <1>9 DEF Upload
  <2>2. saved[m][i] \in Snapshots /\ lane[m] \in Seq(Snapshots) /\ SavedRow(m, saved[m][i])
    BY ElementOfSeq DEF TypeOK, SavedInv
  <2> DEFINE q == <<saved[m][i]>>
  <2>3. q \in Seq(Snapshots) /\ Len(q) = 1 /\ q[1] = saved[m][i]
    BY <2>2
  <2>4. Append(lane[m], saved[m][i]) = lane[m] \o q
    BY <2>2, AppendIsConcat
  <2> HIDE DEF q
  <2>5. lane' = [lane EXCEPT ![m] = @ \o q]
    BY <2>1, <2>4
  <2>6. UNCHANGED <<n, done, open, looked>>
    BY <1>9 DEF Upload
  <2>7. ASSUME NEW h \in 1..Len(q)
        PROVE  q[h].run = n /\ ~q[h].closes /\ (m = "security" => q[h].findings \subseteq Rules)
    BY <2>2, <2>3 DEF SavedRow
  <2>8. QED  BY <2>3, <2>5, <2>6, <2>7, Appended DEF P
<1>10. ASSUME NEW m \in Scanners, Deliver(m)
       PROVE  P
  <2>1. UNCHANGED <<n, lane, looked>>
    BY <1>10 DEF Deliver
  <2>2. RowsInv' /\ OrderInv'
    BY <2>1 DEF RowsInv, OrderInv
  <2>3. done[m] \in Nat /\ done' = [done EXCEPT ![m] = @ + 1] /\ \A x \in Scanners : done[x] \in Nat
    BY <1>10 DEF Deliver, TypeOK
  <2>4. ASSUME NEW x \in Scanners, NEW f \in Facts, open'[x][f] # 0
        PROVE  \E i \in 1..done'[x] : lane'[x][i].run = open'[x][f] /\ Names(lane'[x][i], f)
    <3>1. CASE open'[x][f] = open[x][f]
      <4>1. PICK i \in 1..done[x] : lane[x][i].run = open[x][f] /\ Names(lane[x][i], f)
        BY <2>4, <3>1 DEF OpenInv
      <4>2. i \in 1..done'[x]
        BY <2>3 DEF TypeOK
      <4>3. QED  BY <2>1, <3>1, <4>1, <4>2
    <3>2. CASE open'[x][f] # open[x][f]
      <4>1. x = m /\ Names(lane[m][done[m] + 1], f) /\ open'[x][f] = lane[m][done[m] + 1].run
        BY <1>10, <2>4, <3>2 DEF Deliver, TypeOK
      <4>2. done[m] + 1 \in 1..done'[m]
        BY <2>3 DEF TypeOK
      <4>3. QED  BY <2>1, <4>1, <4>2
    <3>3. QED  BY <3>1, <3>2
  <2>5. OpenInv'
    BY <2>4 DEF OpenInv, Names
  <2>6. QED  BY <2>2, <2>5 DEF P
<1>11. ASSUME UNCHANGED vars
       PROVE  P
  <2>1. UNCHANGED <<n, looked, lane, done, open>>
    BY <1>11 DEF vars, remote
  <2>2. QED  BY <1>2, <2>1
<1>12. P
  <2> HIDE DEF IInv
  <2>1. CASE UNCHANGED vars
    BY <1>11, <2>1
  <2>2. CASE Next
    BY <1>3, <1>4, <1>5, <1>6, <1>8, <1>9, <1>10, <2>2 DEF Next, Over
  <2>3. QED  BY <2>1, <2>2
<1>13. QED  BY <1>12 DEF P
-----------------------------------------------------------------------------
LEMMA InitIInv == Init => IInv
<1> SUFFICES ASSUME Init PROVE IInv
  OBVIOUS
<1> USE CommandAssumption DEF Init
<1>1. \A m \in Scanners : Len(saved[m]) = 0 /\ Len(lane[m]) = 0
  OBVIOUS
<1>2. TypeOK
  <2>1. \A S : <<>> \in Seq(S)
    OBVIOUS
  <2>2. /\ saved \in [Scanners -> Seq(Snapshots)] /\ lane \in [Scanners -> Seq(Snapshots)]
        /\ done \in [Scanners -> Nat] /\ open \in [Scanners -> [Facts -> 0..Runs]]
        /\ todo \in Seq({"security", "visual"})
        /\ \A m \in Scanners : done[m] <= Len(lane[m])
    BY <1>1, <2>1
  <2>3. /\ n \in 0..Runs /\ plan \in PlanType \cup {None} /\ exit \in Exits \cup {None}
        /\ {security, visual, report, written} \subseteq [Targets -> Results] \cup {<<>>}
        /\ held \subseteq Scanners
        /\ looked \subseteq (1..Runs) \X Facts
    OBVIOUS
  <2>4. cancelled \in BOOLEAN /\ failure \in BOOLEAN /\ stored \in BOOLEAN
    OBVIOUS
  <2>5. stage = "idle"
    OBVIOUS
  <2> HIDE DEF Init
  <2>6. QED  BY <2>2, <2>3, <2>4, <2>5 DEF TypeOK
<1>3. StageInv
  BY TodoTypes DEF StageInv, Active
<1>4. ScanInv /\ FreshInv
  BY DEF ScanInv, FreshInv, Active
<1>5. SavedInv /\ RowsInv /\ OrderInv
  BY <1>1 DEF SavedInv, RowsInv, OrderInv
<1>6. OpenInv
  BY DEF OpenInv
<1>7. QED  BY <1>2, <1>3, <1>4, <1>5, <1>6 DEF IInv

\* IInv is inductive: what SecMan is told about a target comes from the scans
\* of the commands, in their order, whatever fails in between.
THEOREM Invariance == Spec => []IInv
<1>1. IInv /\ [Next]_vars => IInv'
  BY TypePreserved, ScanPreserved, SavedPreserved, FreshPreserved, LanesPreserved DEF IInv
<1>2. QED  BY InitIInv, <1>1, PTL DEF Spec

\* Types are kept.
THEOREM TypeCorrect == Spec => []TypeOK
<1>1. IInv => TypeOK  BY DEF IInv
<1>2. QED  BY <1>1, Invariance, PTL

\* SecMan closes a finding only on the word of a complete baseline scan that
\* looked for whatever rule it does not name, and that comes after the scan that
\* last reported it, or is of another target of that command; what no rule finds,
\* only where the scans share a scanner.
THEOREM ClosedTruly == Spec => ClosedMeansGone
<1> DEFINE P(m, f) ==
             LET s == lane[m][done'[m]]
             IN /\ \A x \in Rules \ s.findings : <<s.run, <<s.at, x>>>> \in looked
                /\ f[1] # s.at => SubjectOf[f[1]] = SubjectOf[s.at]
                /\ f[2] \notin Rules => m = "shared"
                /\ \/ s.run > open[m][f]
                   \/ \E i \in 1..done[m] : /\ lane[m][i].run = s.run /\ lane[m][i].target # s.target
                                            /\ Names(lane[m][i], f)
<1>1. IInv /\ [Next]_vars =>
        [\A m \in Scanners : \A f \in Facts :
           open[m][f] # 0 /\ open'[m][f] = 0 => P(m, f)]_vars
  <2> SUFFICES ASSUME IInv, [Next]_vars, NEW m \in Scanners, NEW f \in Facts,
                      open[m][f] # 0, open'[m][f] = 0
               PROVE  P(m, f)
    OBVIOUS
  <2> USE DEF IInv
  <2>1. PICK y \in Scanners : Deliver(y)
    <3>1. open' # open
      OBVIOUS
    <3>2. QED
      BY <3>1 DEF Next, Begin, Review, Scan, ScanFails, Look, LookFails, Draft, ReviewFails, Write,
         WriteFails, Store, PushFails, PushDies, SyncDies, Push, Synced, Finish, Killed, Retry, Retried,
         Hold, Upload, Ends, remote, vars
  <2> DEFINE d == done[m]  s == lane[m][d + 1]
  <2>2. /\ y = m /\ d + 1 \in 1..Len(lane[m]) /\ d \in Nat /\ done'[m] = d + 1
        /\ ~Names(s, f) /\ s.closes /\ SubjectOf[f[1]] = SubjectOf[s.at]
    <3>1. y = m
      BY <2>1 DEF Deliver, TypeOK
    <3>2. d + 1 \in 1..Len(lane[m]) /\ d \in Nat /\ done'[m] = d + 1
      BY <2>1, <3>1, LenProperties DEF Deliver, Waiting, TypeOK
    <3>3. s \in Snapshots
      BY <3>2, ElementOfSeq DEF TypeOK
    <3>4. s.run # 0
      BY <3>3, CommandAssumption DEF Snapshots
    <3>5. QED  BY <2>1, <3>1, <3>2, <3>4 DEF Deliver, TypeOK
  <2>3. s \in Snapshots /\ s.run \in Nat
    <3>1. s \in Snapshots
      BY <2>2, ElementOfSeq DEF TypeOK
    <3>2. QED  BY <3>1, CommandAssumption DEF Snapshots
  <2>4. m \in Closing /\ \A x \in Rules \ s.findings : <<s.run, <<s.at, x>>>> \in looked
    BY <2>2 DEF RowsInv
  <2>5. PICK i \in 1..d : lane[m][i].run = open[m][f] /\ Names(lane[m][i], f)
    BY DEF OpenInv
  <2>6. i \in 1..(d + 1)-1 /\ i \in 1..Len(lane[m])
    BY <2>2, LenProperties DEF TypeOK
  <2>7. f[2] \notin Rules => m = "shared"
    <3>1. m = "security" => f[2] \in Rules
      BY <2>5, <2>6 DEF RowsInv, Names
    <3>2. QED  BY <2>4, <3>1 DEF Closing
  <2>8. lane[m][i].run <= s.run /\ (lane[m][i].run = s.run => lane[m][i].target # s.target)
    BY <2>2, <2>6 DEF OrderInv
  <2>9. open[m][f] \in Nat
    BY CommandAssumption DEF TypeOK
  <2>10. \/ s.run > open[m][f]
         \/ \E h \in 1..d : /\ lane[m][h].run = s.run /\ lane[m][h].target # s.target
                            /\ Names(lane[m][h], f)
    BY <2>3, <2>5, <2>8, <2>9
  <2>11. QED  BY <2>2, <2>4, <2>7, <2>10
<1>2. QED  BY <1>1, Invariance, PTL DEF Spec, ClosedMeansGone
-----------------------------------------------------------------------------
\* Both modes, as the scans are named.
LEMMA ModeFacts ==
  /\ \A m \in Modes : m = "security" \/ m = "visual"
  /\ Planned("security") = plan.security /\ Planned("visual") = plan.visual
  /\ ScanOf("security") = security /\ ScanOf("visual") = visual
  /\ "security" \in Modes /\ "visual" \in Modes
BY DEF Modes, Planned, ScanOf

\* The results of a command once its scans are over.
LEMMA ScanTypes ==
  ASSUME StageInv, ScansInv, Active, stage \notin {"scan", "look"}
  PROVE  /\ plan.security => security \in [Targets -> Results]
         /\ plan.visual => visual \in [Targets -> Results]
         /\ ~plan.security => security = <<>> /\ plan.visual
         /\ ~plan.visual => visual = <<>>
<1>1. plan.security \/ plan.visual
  BY ActivePlan
<1>2. QED
  BY <1>1, ModeFacts DEF StageInv, ScansInv

\* The merged report says all that the scans say, and is no better than either.
LEMMA WholeSays ==
  ASSUME StageInv, ScansInv, Active, stage \notin {"scan", "look"}
  PROVE  \A t \in Targets, m \in Modes : Planned(m) =>
           /\ ScanOf(m)[t].findings \subseteq Whole[t].findings
           /\ Whole[t].status = "SUCCESS" => ScanOf(m)[t].status = "SUCCESS"
<1>1. CASE plan.security /\ plan.visual
  <2>1. security \in [Targets -> Results] /\ visual \in [Targets -> Results]
    BY <1>1, ScanTypes
  <2>2. Whole = [t \in Targets |-> Merged(security[t], visual[t])]
    BY <1>1 DEF Whole, Combined
  <2>3. ASSUME NEW t \in Targets
        PROVE  /\ security[t].findings \subseteq Whole[t].findings
               /\ visual[t].findings \subseteq Whole[t].findings
               /\ Whole[t].status = "SUCCESS" =>
                    security[t].status = "SUCCESS" /\ visual[t].status = "SUCCESS"
    <3>1. security[t] \in Results /\ visual[t] \in Results /\ Whole[t] = Merged(security[t], visual[t])
      BY <2>1, <2>2
    <3>2. \A l, r \in Results :
            /\ Merged(l, r).findings = l.findings \cup r.findings
            /\ Merged(l, r).status = Both(l.status, r.status)
      BY DEF Merged, Results
    <3>3. QED  BY <3>1, <3>2 DEF Both
  <2>4. QED  BY <2>3, ModeFacts
<1>2. CASE plan.security /\ ~plan.visual
  <2>1. Whole = security
    BY <1>2 DEF Whole, Combined
  <2>2. QED  BY <1>2, <2>1, ModeFacts
<1>3. CASE ~plan.security
  <2>1. Whole = visual
    BY <1>3 DEF Whole, Combined
  <2>2. QED  BY <1>3, <2>1, ModeFacts
<1>4. QED  BY <1>1, <1>2, <1>3

\* Results of scans that were not asked for stay empty.
LEMMA ScansPreserved ==
  ASSUME TypeOK, StageInv, ScansInv, [Next]_vars
  PROVE  ScansInv'
<1> USE DEF Active
<1>1. ASSUME UNCHANGED <<plan, security, visual>>, stage' \in {"idle", "retry"} <=> stage \in {"idle", "retry"},
             stage' \notin {"scan", "look"} \/ stage' = stage
      PROVE  ScansInv'
  BY <1>1 DEF ScansInv, Planned, ScanOf
<1>2. ASSUME NEW e \in Exits, Ends(e)
      PROVE  ScansInv'
  BY <1>2 DEF Ends, ScansInv
<1>3. ASSUME n < Runs, NEW p \in Plans[n + 1], Begin(p)
      PROVE  ScansInv'
  <2>1. /\ stage = "idle" /\ plan' = p /\ security' = <<>> /\ visual' = <<>>
        /\ stage' = IF p.security THEN "scan" ELSE "look"
    BY <1>3 DEF Begin, ScansInv
  <2>2. p.security \/ p.visual
    <3>1. n + 1 \in 1..Runs
      BY <1>3, CommandAssumption DEF TypeOK
    <3>2. QED  BY <3>1, CommandAssumption
  <2>3. QED  BY <2>1, <2>2 DEF ScansInv, Modes, Planned, ScanOf
<1>4. CASE Scan
  <2>1. /\ stage = "scan" /\ UNCHANGED <<plan, visual>> /\ plan.security
        /\ stage' = IF plan.visual THEN "look" ELSE "merge"
    BY <1>4 DEF Scan, ScansInv
  <2>2. QED  BY <2>1 DEF ScansInv, Modes, Planned, ScanOf
<1>5. CASE Look
  <2>1. stage = "look" /\ stage' = "merge" /\ UNCHANGED <<plan, security>> /\ plan.visual
    BY <1>5 DEF Look, ScansInv
  <2>2. QED  BY <2>1 DEF ScansInv, Modes, Planned, ScanOf
<1>6. ASSUME NEW D \in SUBSET Targets, NEW o \in [D -> SUBSET Reviewed],
             NEW i \in Targets \cup {None}, Review(o, i)
      PROVE  ScansInv'
  <2>1. /\ stage = "review" /\ stage' = "write" /\ plan' = plan
        /\ IF plan.security THEN visual' = visual ELSE security' = security
    BY <1>6 DEF Review
  <2>2. plan.security \/ plan.visual
    BY <2>1, ActivePlan
  <2>3. QED  BY <2>1, <2>2 DEF ScansInv, Modes, Planned, ScanOf
<1>7. CASE Draft \/ Write \/ (\E ok \in BOOLEAN : Store(ok)) \/ Push \/ Synced \/ Retry \/ Retried
             \/ (\E k \in 0..T-1 : PushFails(k))
             \/ (\E m \in Scanners : Deliver(m) \/ Hold(m) \/ Upload(m))
  BY <1>1, <1>7 DEF Draft, Write, Store, Push, Pushing, Synced, Retry, Retried, PushFails, Deliver, Hold, Upload,
     memory
<1>8. CASE Over
  BY <1>2, <1>8, OverEnds
<1>9. CASE UNCHANGED vars
  BY <1>1, <1>9 DEF vars, memory
<1>10. QED
  BY <1>3, <1>4, <1>5, <1>6, <1>7, <1>8, <1>9 DEF Next, Over

\* A review only adds to the report, and to the scan what it adds to the report,
\* if not of the same target, of one with the same public URL.
ReviewedReport(qs, o, i) == [t \in Targets |-> ReviewOf(qs[t], t, o, i)]
LEMMA ReviewSays ==
  ASSUME report \in [Targets -> Results], NEW rs \in [Targets -> Results], NEW i,
         NEW o, DOMAIN o \subseteq Targets, \A t \in DOMAIN o : o[t] \subseteq Reviewed,
         \A t \in Targets : rs[t].findings \subseteq Tells(report, t)
  PROVE  /\ \A t \in Targets : Tells(report, t) \subseteq Tells(ReviewedReport(report, o, i), t)
         /\ \A t \in Targets : ReviewedSnapshot(rs, o)[t].findings
                               \subseteq Tells(ReviewedReport(report, o, i), t)
         /\ (\A t \in Targets : ReviewedReport(report, o, i)[t].status = "SUCCESS") =>
              \A t \in Targets : /\ report[t].status = "SUCCESS"
                                 /\ ReviewedSnapshot(rs, o)[t].status = rs[t].status
<1> DEFINE after == ReviewedReport(report, o, i)
<1>1. ASSUME NEW t \in Targets
      PROVE  /\ report[t].findings \subseteq after[t].findings
             /\ t \in DOMAIN o => o[t] \subseteq after[t].findings /\ o[t] \subseteq Reviewed
             /\ after[t].status = "SUCCESS" => t \in DOMAIN o /\ report[t].status = "SUCCESS"
  <2>1. report[t] \in Results /\ after[t] = ReviewOf(report[t], t, o, i)
    BY DEF ReviewedReport
  <2>2. CASE t \in DOMAIN o
    <3>1. after[t].findings = report[t].findings \cup o[t] /\ after[t].status = report[t].status
      BY <2>1, <2>2 DEF ReviewOf, Results
    <3>2. QED  BY <2>2, <3>1
  <2>3. CASE t \notin DOMAIN o
    <3>1. after[t].findings = report[t].findings /\ after[t].status # "SUCCESS"
      BY <2>1, <2>3 DEF ReviewOf, Results
    <3>2. QED  BY <2>3, <3>1
  <2>4. QED  BY <2>2, <2>3
<1> HIDE DEF after
<1>2. ASSUME NEW t \in Targets
      PROVE  Tells(report, t) \subseteq Tells(after, t)
  BY <1>1 DEF Tells, Twins
<1>3. ASSUME NEW t \in Targets
      PROVE  /\ ReviewedSnapshot(rs, o)[t].findings =
                  rs[t].findings \cup UNION {o[u] : u \in LastOf(t) \cap DOMAIN o}
             /\ LastOf(t) \subseteq DOMAIN o => ReviewedSnapshot(rs, o)[t].status = rs[t].status
  <2>1. rs[t] \in Results
    OBVIOUS
  <2> DEFINE more == UNION {o[u] : u \in LastOf(t) \cap DOMAIN o}
  <2>2. ReviewedSnapshot(rs, o)[t] =
          [rs[t] EXCEPT !.findings = @ \cup more,
                        !.status = IF LastOf(t) \subseteq DOMAIN o THEN @ ELSE "PARTIAL",
                        !.complete = FALSE]
    BY DEF ReviewedSnapshot
  <2> HIDE DEF more
  <2>3. QED  BY <2>1, <2>2 DEF Results, more
<1>4. ASSUME NEW t \in Targets, NEW x \in ReviewedSnapshot(rs, o)[t].findings
      PROVE  x \in Tells(after, t)
  <2>1. CASE x \in rs[t].findings
    BY <1>2, <2>1
  <2>2. CASE x \notin rs[t].findings
    <3>1. PICK u \in LastOf(t) \cap DOMAIN o : x \in o[u]
      BY <1>3, <1>4, <2>2
    <3>2. u \in Twins(t) /\ u \in Targets /\ u \in DOMAIN o
      BY <3>1 DEF LastOf, Twins
    <3>3. x \in after[u].findings \cap Reviewed
      BY <1>1, <3>1, <3>2
    <3>4. QED  BY <3>2, <3>3 DEF Tells
  <2>3. QED  BY <2>1, <2>2
<1>5. ASSUME \A t \in Targets : after[t].status = "SUCCESS", NEW t \in Targets
      PROVE  report[t].status = "SUCCESS" /\ ReviewedSnapshot(rs, o)[t].status = rs[t].status
  <2>1. LastOf(t) \subseteq DOMAIN o
    BY <1>1, <1>5 DEF LastOf, Twins
  <2>2. QED  BY <1>1, <1>3, <1>5, <2>1
<1>6. QED  BY <1>2, <1>4, <1>5 DEF after

\* The report keeps up with the scans, and the failure flag with the report.
LEMMA ReportPreserved ==
  ASSUME TypeOK, StageInv, ScansInv, ReportInv, [Next]_vars
  PROVE  ReportInv'
<1>2. ASSUME stage' \in {"idle", "retry", "scan", "look", "merge"}
      PROVE  ReportInv'
  BY <1>2 DEF ReportInv
<1>3. CASE \/ n < Runs /\ \E p \in Plans[n + 1] : Begin(p)
           \/ Scan \/ Look \/ Retry \/ Retried \/ Over
  BY <1>2, <1>3, OverEnds DEF Begin, Scan, Look, Retry, Retried, Ends
<1>4. CASE Draft
  <2>1. /\ stage = "merge" /\ stage' = "review" /\ report' = Whole /\ written' = Whole
        /\ UNCHANGED <<plan, security, visual>>
    BY <1>4 DEF Draft
  <2>2. \A t \in Targets, m \in Modes : Planned(m) =>
          /\ ScanOf(m)[t].findings \subseteq Whole[t].findings
          /\ Whole[t].status = "SUCCESS" => ScanOf(m)[t].status = "SUCCESS"
    BY <2>1, WholeSays DEF Active
  <2>3. \A t \in Targets, m \in Modes : Planned(m)' => ScanOf(m)'[t].findings \subseteq Tells(report, t)'
    BY <2>1, <2>2 DEF Tells, Planned, ScanOf
  <2>4. (\A t \in Targets : report'[t].status = "SUCCESS") => Earned'
    BY <2>1, <2>2 DEF Earned, Planned, ScanOf
  <2>5. QED  BY <2>1, <2>3, <2>4 DEF ReportInv
<1>5. ASSUME NEW D \in SUBSET Targets, NEW o \in [D -> SUBSET Reviewed],
             NEW i \in Targets \cup {None}, Review(o, i)
      PROVE  ReportInv'
  <2>1. /\ stage = "review" /\ stage' = "write" /\ plan' = plan
        /\ report' = ReviewedReport(report, o, i)
        /\ IF plan.security
           THEN security' = ReviewedSnapshot(security, o) /\ UNCHANGED visual
           ELSE visual' = ReviewedSnapshot(visual, o) /\ UNCHANGED security
    BY <1>5 DEF Review, ReviewedReport
  <2>2. /\ report \in [Targets -> Results]
        /\ plan.security => security \in [Targets -> Results]
        /\ plan.visual => visual \in [Targets -> Results]
        /\ ~plan.security => plan.visual
    BY <2>1, ScanTypes DEF StageInv, Active
  <2>3. /\ \A t \in Targets, m \in Modes : Planned(m) => ScanOf(m)[t].findings \subseteq Tells(report, t)
        /\ (\A t \in Targets : report[t].status = "SUCCESS") => Earned
    BY <2>1 DEF ReportInv
  <2>4. ASSUME NEW rs \in [Targets -> Results], \A t \in Targets : rs[t].findings \subseteq Tells(report, t)
        PROVE  /\ \A t \in Targets : Tells(report, t) \subseteq Tells(report', t)
               /\ \A t \in Targets : ReviewedSnapshot(rs, o)[t].findings \subseteq Tells(report', t)
               /\ (\A t \in Targets : report'[t].status = "SUCCESS") =>
                    \A t \in Targets : /\ report[t].status = "SUCCESS"
                                       /\ ReviewedSnapshot(rs, o)[t].status = rs[t].status
    <3> DEFINE after == ReviewedReport(report, o, i)
    <3>1. /\ \A t \in Targets : Tells(report, t) \subseteq Tells(after, t)
          /\ \A t \in Targets : ReviewedSnapshot(rs, o)[t].findings \subseteq Tells(after, t)
          /\ (\A t \in Targets : after[t].status = "SUCCESS") =>
               \A t \in Targets : /\ report[t].status = "SUCCESS"
                                  /\ ReviewedSnapshot(rs, o)[t].status = rs[t].status
      <4>1. report \in [Targets -> Results] /\ rs \in [Targets -> Results]
        BY <2>2, <2>4
      <4>2. \A t \in Targets : rs[t].findings \subseteq Tells(report, t)
        BY <2>4
      <4>3. DOMAIN o \subseteq Targets /\ \A t \in DOMAIN o : o[t] \subseteq Reviewed
        BY <1>5
      <4>4. QED  BY <4>1, <4>2, <4>3, ReviewSays DEF after
    <3>2. report' = after
      BY <2>1
    <3> HIDE DEF after
    <3>3. QED  BY <3>1, <3>2
  <2>5. PICK c \in Modes : /\ Planned(c) /\ ScanOf(c)' = ReviewedSnapshot(ScanOf(c), o)
                           /\ ScanOf(c) \in [Targets -> Results]
                           /\ \A m \in Modes \ {c} : ScanOf(m)' = ScanOf(m)
    <3>1. CASE plan.security
      <4>1. Planned("security") /\ "security" \in Modes /\ \A m \in Modes \ {"security"} : m = "visual"
        BY <3>1, ModeFacts
      <4>2. ScanOf("security")' = ReviewedSnapshot(ScanOf("security"), o) /\ ScanOf("visual")' = ScanOf("visual")
        BY <2>1, <3>1 DEF ScanOf
      <4>3. QED  BY <2>2, <3>1, <4>1, <4>2, ModeFacts
    <3>2. CASE ~plan.security
      <4>1. Planned("visual") /\ "visual" \in Modes /\ \A m \in Modes \ {"visual"} : m = "security"
        BY <2>2, <3>2, ModeFacts
      <4>2. ScanOf("visual")' = ReviewedSnapshot(ScanOf("visual"), o) /\ ScanOf("security")' = ScanOf("security")
        BY <2>1, <3>2 DEF ScanOf
      <4>3. QED  BY <2>2, <3>2, <4>1, <4>2, ModeFacts
    <3>3. QED  BY <3>1, <3>2
  <2>6. /\ \A t \in Targets : Tells(report, t) \subseteq Tells(report', t)
        /\ \A t \in Targets : ReviewedSnapshot(ScanOf(c), o)[t].findings \subseteq Tells(report', t)
        /\ (\A t \in Targets : report'[t].status = "SUCCESS") =>
             \A t \in Targets : /\ report[t].status = "SUCCESS"
                                /\ ReviewedSnapshot(ScanOf(c), o)[t].status = ScanOf(c)[t].status
    BY <2>3, <2>4, <2>5
  <2>7. \A m \in Modes : Planned(m)' = Planned(m)
    BY <2>1 DEF Planned
  <2>8. \A t \in Targets : Tells(report, t)' = Tells(report', t)
    BY <2>1 DEF Tells, Twins
  <2>9. \A t \in Targets, m \in Modes : Planned(m) => ScanOf(m)'[t].findings \subseteq Tells(report', t)
    BY <2>3, <2>5, <2>6
  <2>10. (\A t \in Targets : report'[t].status = "SUCCESS") =>
           \A t \in Targets, m \in Modes : Planned(m) => ScanOf(m)'[t].status = "SUCCESS"
    BY <2>3, <2>5, <2>6 DEF Earned
  <2>11. (\A t \in Targets : report'[t].status = "SUCCESS") => Earned'
    BY <2>7, <2>10 DEF Earned
  <2>12. \A t \in Targets, m \in Modes : Planned(m)' => ScanOf(m)'[t].findings \subseteq Tells(report, t)'
    BY <2>7, <2>8, <2>9
  <2>13. QED  BY <2>1, <2>11, <2>12 DEF ReportInv
<1>6. CASE Write
  <2>1. /\ stage \in {"merge", "write"} /\ (stage = "merge" => ~plan.review) /\ stage' = "store"
        /\ report' = Final /\ written' = Final
        /\ failure' = \E t \in Targets : Final[t].status # "SUCCESS"
        /\ UNCHANGED <<plan, security, visual>>
    BY <1>6 DEF Write
  <2>2. /\ \A t \in Targets, m \in Modes : Planned(m) => ScanOf(m)[t].findings \subseteq Tells(Final, t)
        /\ (\A t \in Targets : Final[t].status = "SUCCESS") => Earned
        /\ Final \in [Targets -> Results]
    <3>1. CASE stage = "merge"
      <4>1. Final = Whole /\ Whole \in [Targets -> Results]
        BY <2>1, <3>1, WholeType DEF Active, Final
      <4>2. \A t \in Targets : Whole[t].findings \subseteq Tells(Whole, t)
        BY DEF Tells
      <4>3. QED  BY <3>1, <4>1, <4>2, WholeSays DEF Active, Earned
    <3>2. CASE stage = "write"
      <4>1. Final = report /\ report \in [Targets -> Results]
        BY <3>2 DEF Final, StageInv
      <4>2. QED  BY <3>2, <4>1 DEF ReportInv
    <3>3. QED  BY <2>1, <3>1, <3>2
  <2>3. ~failure' => Earned'
    BY <2>1, <2>2 DEF Earned, Planned, ScanOf
  <2>4. \A t \in Targets, m \in Modes : Planned(m)' => ScanOf(m)'[t].findings \subseteq Tells(report, t)'
    BY <2>1, <2>2 DEF Tells, Twins, Planned, ScanOf
  <2>5. QED  BY <2>1, <2>2, <2>3, <2>4 DEF ReportInv
<1>7. ASSUME NEW ok \in BOOLEAN, Store(ok)
      PROVE  ReportInv'
  <2>1. /\ stage = "store" /\ stage' = "push"
        /\ UNCHANGED <<plan, security, visual, report, cancelled, written>>
        /\ IF plan.store /\ ~cancelled
           THEN stored' = ok /\ failure' = (failure \/ ~ok)
           ELSE UNCHANGED <<stored, failure>>
    BY <1>7 DEF Store
  <2>2. (~failure' => ~failure) /\ (plan.store /\ ~cancelled /\ ~failure' => stored')
    BY <2>1
  <2>3. QED  BY <2>1, <2>2 DEF ReportInv, Earned, Planned, ScanOf, Tells, Twins
<1>8. ASSUME UNCHANGED <<plan, security, visual, report, cancelled, written, stored>>,
             stage \in {"push", "sync"}, stage' \in {"push", "sync"}, failure => failure'
      PROVE  ReportInv'
  BY <1>8 DEF ReportInv, Earned, Planned, ScanOf, Tells, Twins
<1>9. CASE Push \/ Synced \/ \E k \in 0..T-1 : PushFails(k)
  <2>1. /\ UNCHANGED <<plan, security, visual, report, cancelled, written, stored>>
        /\ stage \in {"push", "sync"} /\ stage' \in {"push", "sync"}
    BY <1>9 DEF Push, Pushing, Synced, PushFails
  <2>2. failure => failure'
    BY <1>9 DEF Push, Synced, PushFails, Noticed
  <2>3. QED  BY <1>8, <2>1, <2>2
<1>10. CASE UNCHANGED vars \/ \E m \in Scanners : Deliver(m) \/ Hold(m) \/ Upload(m)
  <2>1. UNCHANGED <<plan, security, visual, report, cancelled, written, stored, stage, failure>>
    BY <1>10 DEF Deliver, Hold, Upload, vars, memory
  <2>2. QED  BY <2>1 DEF ReportInv, Earned, Planned, ScanOf, Tells, Twins
<1>11. QED
  BY <1>3, <1>4, <1>5, <1>6, <1>7, <1>9, <1>10 DEF Next, Over

\* HasRow, of a lane q of which k rows are delivered, for the run r.
GotRow(q, k, r, t, d) ==
  \E j \in 1..Len(q) : q[j].run = r /\ q[j].target = t /\ (d => j <= k)

\* What HandedInv says of a mode, now and after a step of the same command.
LEMMA HandedHere ==
  ASSUME HandedInv, stage \in {"push", "sync"}, ~failure, plan.push, ~cancelled,
         NEW m \in Modes, NEW t \in Targets
  PROVE  LET c == ScannerOf(m)
         IN /\ Planned(m) /\ todo \notin ListsWith(m) => GotRow(lane[c], done[c], n, t, ~plan.defer)
            /\ stage = "sync" /\ m = Head(todo) => GotRow(lane[c], done[c], n, t, FALSE)
BY DEF HandedInv, HasRow, GotRow

LEMMA HandedNext ==
  ASSUME UNCHANGED <<n, plan>>,
         ASSUME stage' \in {"push", "sync"}, ~failure', plan.push, ~cancelled',
                NEW m \in Modes, NEW t \in Targets
         PROVE  LET c == ScannerOf(m)
                IN /\ Planned(m) /\ todo' \notin ListsWith(m) =>
                        GotRow(lane'[c], done'[c], n, t, ~plan.defer)
                   /\ stage' = "sync" /\ m = Head(todo') => GotRow(lane'[c], done'[c], n, t, FALSE)
  PROVE  HandedInv'
<1>1. \A m \in Modes : ScannerOf(m)' = ScannerOf(m) /\ Planned(m)' = Planned(m)
  BY DEF ScannerOf, Kind, Combined, Planned
<1>2. \A c, t, d : HasRow(c, t, d)' <=> GotRow(lane'[c], done'[c], n, t, d)
  BY DEF HasRow, GotRow
<1>3. SUFFICES ASSUME stage' \in {"push", "sync"}, ~failure', plan.push, ~cancelled',
                      NEW m \in Modes, NEW t \in Targets
               PROVE  /\ Planned(m) /\ todo' \notin ListsWith(m) => HasRow(ScannerOf(m), t, ~plan.defer)'
                      /\ stage' = "sync" /\ m = Head(todo') => HasRow(ScannerOf(m), t, FALSE)'
  BY <1>1 DEF HandedInv
<1>4. /\ HasRow(ScannerOf(m), t, ~plan.defer)' <=>
           GotRow(lane'[ScannerOf(m)], done'[ScannerOf(m)], n, t, ~plan.defer)
      /\ HasRow(ScannerOf(m), t, FALSE)' <=>
           GotRow(lane'[ScannerOf(m)], done'[ScannerOf(m)], n, t, FALSE)
  BY <1>1 DEF HasRow, GotRow
<1>5. QED  BY <1>3, <1>4

\* What a push of k targets adds to a lane: rows of this run that the report
\* covers, one for each of the targets.
LEMMA EnqueueRows ==
  ASSUME IInv, OutcomeInv, Pushing, NEW k \in 0..T, Enqueue(Head(todo), k), n' = n
  PROVE  LET m == ScannerOf(Head(todo))
         IN /\ m \in Scanners
            /\ \A x \in Scanners : /\ Len(lane[x]) \in Nat /\ Len(lane'[x]) \in Nat
                                   /\ Len(lane[x]) <= Len(lane'[x])
                                   /\ \A j \in 1..Len(lane[x]) : lane'[x][j] = lane[x][j]
            /\ \A x \in Scanners \ {m} : lane'[x] = lane[x]
            /\ \A j \in Len(lane[m])+1..Len(lane'[m]) :
                 lane'[m][j].findings \subseteq Said(lane'[m][j].target)
            /\ \A t \in 1..k : GotRow(lane'[m], done[m], n, t, FALSE)
<1> DEFINE m == Head(todo)  q == Queued(m, k)
<1> USE DEF IInv, OutcomeInv
<1>1. /\ m \in Modes /\ n \in 1..Runs /\ plan \in PlanType
      /\ todo \in ListsWith(m) /\ Active /\ stage = "push" /\ todo # <<>>
  BY TodoTypes, ActivePlan DEF Pushing, StageInv, Active, Modes
<1>2. ScanOf(m) \in [Targets -> Results]
  BY <1>1 DEF ScanOf, StageInv, Modes
<1>3. /\ q \in Seq(Snapshots) /\ Len(q) = k /\ ScannerOf(m) \in Scanners
      /\ lane' = [lane EXCEPT ![ScannerOf(m)] = @ \o q]
  BY <1>1, <1>2, EnqueueType DEF Modes
<1>4. k \in Nat /\ 1..k \subseteq Targets
  BY CommandAssumption DEF Targets
<1>5. ASSUME NEW i \in 1..k
      PROVE  /\ q[i].run = n /\ q[i].target = i
             /\ q[i].findings \subseteq Said(q[i].target)
  <2>1. q[i] = Snapshot(ScanOf(m)[i], i, Closes(m, ScanOf(m)[i]))
    BY DEF Queued
  <2>2. q[i].run = n /\ q[i].target = i /\ q[i].findings \subseteq ScanOf(m)[i].findings
    BY <2>1, SnapshotFields
  <2>3. Planned(m) /\ written = report /\ i \in Targets
    BY <1>1, <1>4 DEF ReportInv, Planned, StageInv, Modes
  <2>4. ScanOf(m)[i].findings \subseteq Tells(report, i)
    BY <1>1, <2>3 DEF ReportInv
  <2>5. QED  BY <2>2, <2>3, <2>4 DEF Said
<1>6. \A x \in Scanners : lane[x] \in Seq(Snapshots)
  BY DEF TypeOK
<1> DEFINE c == ScannerOf(m)
<1> HIDE DEF q, c
<1>7. /\ lane'[c] = lane[c] \o q /\ c \in Scanners
      /\ \A x \in Scanners \ {c} : lane'[x] = lane[x]
  BY <1>3 DEF TypeOK, c
<1>8. /\ Len(lane[c]) \in Nat /\ Len(lane'[c]) = Len(lane[c]) + k
      /\ \A j \in 1..Len(lane[c]) : lane'[c][j] = lane[c][j]
      /\ \A j \in 1..k : lane'[c][Len(lane[c]) + j] = q[j]
  <2>1. lane[c] \in Seq(Snapshots) /\ q \in Seq(Snapshots) /\ Len(q) = k
    BY <1>3, <1>6, <1>7
  <2>2. /\ Len(lane[c]) \in Nat /\ Len(lane[c] \o q) = Len(lane[c]) + k
        /\ \A j \in 1..Len(lane[c]) : (lane[c] \o q)[j] = lane[c][j]
    <3> DEFINE l == lane[c]
    <3>1. l \in Seq(Snapshots)
      BY <2>1
    <3> HIDE DEF l
    <3>2. /\ Len(l) \in Nat /\ Len(l \o q) = Len(l) + k
          /\ \A j \in 1..Len(l) : (l \o q)[j] = l[j]
      BY <1>4, <2>1, <3>1
    <3>3. QED  BY <3>2 DEF l
  <2>3. ASSUME NEW j \in 1..k
        PROVE  (lane[c] \o q)[Len(lane[c]) + j] = q[j]
    BY <1>4, <2>1, <2>2
  <2>4. QED  BY <1>7, <2>2, <2>3
<1>9. \A x \in Scanners : /\ Len(lane[x]) \in Nat /\ Len(lane'[x]) \in Nat
                          /\ Len(lane[x]) <= Len(lane'[x])
                          /\ \A j \in 1..Len(lane[x]) : lane'[x][j] = lane[x][j]
  <2>1. \A x \in Scanners : Len(lane[x]) \in Nat
    BY <1>6, LenProperties
  <2>2. SUFFICES ASSUME NEW x \in Scanners
                 PROVE  /\ Len(lane[x]) \in Nat /\ Len(lane'[x]) \in Nat
                        /\ Len(lane[x]) <= Len(lane'[x])
                        /\ \A j \in 1..Len(lane[x]) : lane'[x][j] = lane[x][j]
    OBVIOUS
  <2>3. CASE x = c
    BY <1>4, <1>8, <2>3
  <2>4. CASE x # c
    BY <1>7, <2>1, <2>4
  <2>5. QED  BY <2>3, <2>4
<1>10. ASSUME NEW j \in Len(lane[c])+1..Len(lane'[c])
       PROVE  lane'[c][j].findings \subseteq Said(lane'[c][j].target)
  <2>1. j - Len(lane[c]) \in 1..k /\ j = Len(lane[c]) + (j - Len(lane[c]))
    BY <1>4, <1>8
  <2>2. lane'[c][j] = q[j - Len(lane[c])]
    BY <1>8, <2>1
  <2>3. QED  BY <1>5, <2>1, <2>2
<1>11. ASSUME NEW t \in 1..k
       PROVE  GotRow(lane'[c], done[c], n, t, FALSE)
  <2>1. Len(lane[c]) + t \in 1..Len(lane'[c]) /\ lane'[c][Len(lane[c]) + t] = q[t]
    BY <1>4, <1>8
  <2>2. q[t].run = n /\ q[t].target = t
    BY <1>5
  <2>3. QED  BY <2>1, <2>2 DEF GotRow
<1>12. QED  BY <1>7, <1>9, <1>10, <1>11 DEF c

\* A command has rows of its own only once it pushes, and they say nothing that
\* its report does not.
LEMMA OwnRowsPreserved ==
  ASSUME IInv, OutcomeInv, [Next]_vars
  PROVE  OwnRowsInv'
<1> USE DEF IInv, OutcomeInv
<1>1. ASSUME stage' \in {"idle", "retry"}
      PROVE  OwnRowsInv'
  BY <1>1 DEF OwnRowsInv, Active
<1>2. CASE Over \/ Retry \/ Retried \/ \E m \in Scanners : Upload(m)
  BY <1>1, <1>2, OverEnds DEF Retry, Retried, Upload, Ends
<1>3. ASSUME n < Runs, NEW p \in Plans[n + 1], Begin(p)
      PROVE  OwnRowsInv'
  <2>1. n \in Nat /\ n' = n + 1 /\ lane' = lane /\ stage' \in {"scan", "look"}
    BY <1>3, CommandAssumption DEF Begin, remote, TypeOK
  <2>2. ASSUME NEW m \in Scanners, NEW i \in 1..Len(lane[m])
        PROVE  lane[m][i].run < n + 1
    <3>1. lane[m][i].run <= n
      BY DEF RowsInv
    <3>2. lane[m][i] \in Snapshots
      BY ElementOfSeq DEF TypeOK
    <3>3. QED  BY <2>1, <3>1, <3>2, CommandAssumption DEF Snapshots
  <2>3. QED  BY <2>1, <2>2 DEF OwnRowsInv
<1>4. ASSUME UNCHANGED <<n, lane>>, Active, stage \notin {"push", "sync"}
      PROVE  OwnRowsInv'
  <2>1. n \in Nat
    BY CommandAssumption DEF TypeOK
  <2>2. ASSUME NEW m \in Scanners, NEW i \in 1..Len(lane[m])
        PROVE  lane[m][i].run < n /\ lane[m][i].run # n
    BY <1>4, <2>1 DEF OwnRowsInv
  <2>3. QED  BY <1>4, <2>2 DEF OwnRowsInv
<1>5. CASE \/ Scan \/ Look \/ Draft \/ Write \/ (\E ok \in BOOLEAN : Store(ok))
           \/ \E D \in SUBSET Targets : \E o \in [D -> SUBSET Reviewed], i \in Targets \cup {None} :
                Review(o, i)
  BY <1>4, <1>5 DEF Scan, Look, Draft, Write, Store, Review, remote, Active
<1>6. ASSUME UNCHANGED <<n, lane, plan, written>>, stage \in {"push", "sync"}, stage' \in {"push", "sync"}
      PROVE  OwnRowsInv'
  BY <1>6 DEF OwnRowsInv, Said, Tells, Twins
<1>7. CASE Synced
  BY <1>6, <1>7 DEF Synced, remote
<1>8. ASSUME NEW m \in Scanners, Deliver(m) \/ Hold(m)
      PROVE  OwnRowsInv'
  <2>1. stage' = stage /\ stage \in {"sync", "retry"} /\ UNCHANGED <<n, lane, plan, written>>
    BY <1>8 DEF Deliver, Hold, memory, remote
  <2>2. QED  BY <1>1, <1>6, <2>1
<1>9. ASSUME Push \/ \E k \in 0..T-1 : PushFails(k)
      PROVE  OwnRowsInv'
  <2>1. /\ Pushing /\ stage = "push" /\ stage' \in {"push", "sync"} /\ UNCHANGED <<n, plan, written>>
    BY <1>9 DEF Push, PushFails, Pushing
  <2>2. PICK k \in 0..T : Enqueue(Head(todo), k)
    BY <1>9, CommandAssumption DEF Push, PushFails
  <2> DEFINE c == ScannerOf(Head(todo))
  <2>3. /\ \A x \in Scanners : /\ Len(lane[x]) \in Nat /\ Len(lane'[x]) \in Nat
                               /\ \A j \in 1..Len(lane[x]) : lane'[x][j] = lane[x][j]
        /\ \A x \in Scanners \ {c} : lane'[x] = lane[x]
        /\ \A j \in Len(lane[c])+1..Len(lane'[c]) :
             lane'[c][j].findings \subseteq Said(lane'[c][j].target)
    BY <2>1, <2>2, EnqueueRows
  <2> HIDE DEF c
  <2>4. ASSUME NEW m \in Scanners, NEW i \in 1..Len(lane'[m]), lane'[m][i].run = n
        PROVE  lane'[m][i].findings \subseteq Said(lane'[m][i].target)
    <3>1. CASE i \in 1..Len(lane[m])
      BY <2>1, <2>3, <2>4, <3>1 DEF OwnRowsInv
    <3>2. CASE i \notin 1..Len(lane[m])
      BY <2>3, <3>2
    <3>3. QED  BY <3>1, <3>2
  <2>5. \A t : Said(t)' = Said(t)
    BY <2>1 DEF Said, Tells, Twins
  <2>6. QED  BY <2>1, <2>4, <2>5 DEF OwnRowsInv
<1>10. CASE UNCHANGED vars
  BY <1>10 DEF OwnRowsInv, Active, Said, Tells, Twins, vars, memory, remote
<1> HIDE DEF IInv, OutcomeInv
<1>11. QED
  BY <1>2, <1>3, <1>5, <1>7, <1>8, <1>9, <1>10 DEF Next, Over

\* What was pushed is in its lane, and delivered unless that was deferred.
LEMMA HandedPreserved ==
  ASSUME IInv, OutcomeInv, [Next]_vars
  PROVE  HandedInv'
<1> USE DEF IInv, OutcomeInv
<1>1. ASSUME stage' \notin {"push", "sync"}
      PROVE  HandedInv'
  BY <1>1 DEF HandedInv
<1>2. CASE \/ Over \/ Retry \/ Retried \/ (\E m \in Scanners : Upload(m))
           \/ Scan \/ Look \/ Draft \/ Write
           \/ (\E p : Begin(p)) \/ (\E o, i : Review(o, i))
  BY <1>1, <1>2, OverEnds DEF Retry, Retried, Upload, Ends, Scan, Look, Draft, Write, Begin, Review
<1>3. ASSUME NEW ok \in BOOLEAN, Store(ok)
      PROVE  HandedInv'
  <2>1. /\ stage' = "push" /\ UNCHANGED <<plan, cancelled>>
        /\ todo' = IF plan.push /\ ~cancelled THEN ModesToPush ELSE <<>>
    BY <1>3 DEF Store
  <2>2. \A m \in Modes : Planned(m) => ModesToPush \in ListsWith(m)
    BY TodoTypes DEF Modes, Planned
  <2>3. QED  BY <2>1, <2>2 DEF HandedInv, Planned
<1>4. \A x \in Scanners : lane[x] \in Seq(Snapshots) /\ Len(lane[x]) \in Nat /\ done[x] \in Nat
  BY LenProperties DEF TypeOK
<1>5. \A m \in Modes : ScannerOf(m) \in Scanners
  BY DEF Modes, ScannerOf, Kind, Scanners
<1>6. ASSUME NEW c \in Scanners, NEW t \in Targets, NEW d \in BOOLEAN,
             GotRow(lane[c], done[c], n, t, d),
             Len(lane'[c]) \in Nat, Len(lane[c]) <= Len(lane'[c]),
             \A j \in 1..Len(lane[c]) : lane'[c][j] = lane[c][j],
             done'[c] \in Nat, done[c] <= done'[c]
      PROVE  GotRow(lane'[c], done'[c], n, t, d)
  <2>1. PICK j \in 1..Len(lane[c]) : /\ lane[c][j].run = n /\ lane[c][j].target = t
                                     /\ d => j <= done[c]
    BY <1>6 DEF GotRow
  <2>2. j \in 1..Len(lane'[c]) /\ (d => j <= done'[c]) /\ lane'[c][j] = lane[c][j]
    BY <1>4, <1>6, <2>1
  <2>3. QED  BY <2>1, <2>2 DEF GotRow
<1>7. CASE Push
  <2>1. /\ Pushing /\ stage = "push" /\ todo # <<>> /\ todo \in Todos
        /\ UNCHANGED <<n, plan, cancelled, failure, done>>
        /\ stage' = IF plan.defer THEN "push" ELSE "sync"
        /\ todo' = IF plan.defer THEN Tail(todo) ELSE todo
        /\ Enqueue(Head(todo), T) /\ T \in 0..T
    BY <1>7, CommandAssumption DEF Push, Pushing, StageInv
  <2>2. /\ Head(todo) \in Modes /\ plan.defer \in BOOLEAN
    BY <2>1, TodoTypes, ActivePlan DEF Modes, Active, PlanType
  <2>3. /\ \A x \in Scanners : /\ Len(lane'[x]) \in Nat /\ Len(lane[x]) <= Len(lane'[x])
                               /\ \A j \in 1..Len(lane[x]) : lane'[x][j] = lane[x][j]
    BY <2>1, EnqueueRows
  <2> DEFINE h == ScannerOf(Head(todo))
  <2>4. \A t \in Targets : GotRow(lane'[h], done[h], n, t, FALSE)
    BY <2>1, EnqueueRows DEF Targets
  <2> HIDE DEF h
  <2>5. ASSUME ~failure', plan.push, ~cancelled', NEW m \in Modes, NEW t \in Targets
        PROVE  LET c == ScannerOf(m)
               IN /\ Planned(m) /\ todo' \notin ListsWith(m) =>
                       GotRow(lane'[c], done'[c], n, t, ~plan.defer)
                  /\ stage' = "sync" /\ m = Head(todo') => GotRow(lane'[c], done'[c], n, t, FALSE)
    <3> DEFINE c == ScannerOf(m)
    <3>1. c \in Scanners /\ done'[c] = done[c] /\ (m = Head(todo) => c = h)
      BY <1>5, <2>1 DEF h
    <3>2. Planned(m) /\ todo \notin ListsWith(m) => GotRow(lane[c], done[c], n, t, ~plan.defer)
      BY <2>1, <2>5, HandedHere
    <3> HIDE DEF c
    <3>3. Planned(m) /\ todo \notin ListsWith(m) => GotRow(lane'[c], done'[c], n, t, ~plan.defer)
      <4>1. /\ (~plan.defer) \in BOOLEAN
            /\ Len(lane'[c]) \in Nat /\ Len(lane[c]) <= Len(lane'[c])
            /\ \A j \in 1..Len(lane[c]) : lane'[c][j] = lane[c][j]
            /\ done'[c] \in Nat /\ done[c] <= done'[c]
        BY <1>4, <2>2, <2>3, <3>1
      <4>2. GotRow(lane[c], done[c], n, t, ~plan.defer) => GotRow(lane'[c], done'[c], n, t, ~plan.defer)
        BY <1>6, <3>1, <4>1
      <4>3. QED  BY <3>2, <4>2
    <3>4. m = Head(todo) => GotRow(lane'[c], done'[c], n, t, FALSE)
      BY <2>4, <3>1
    <3>5. CASE plan.defer /\ m = Head(todo)
      <4>1. (~plan.defer) = FALSE /\ stage' = "push"
        BY <2>1, <2>2, <3>5
      <4>2. QED  BY <3>4, <3>5, <4>1 DEF c
    <3>6. CASE plan.defer /\ m # Head(todo)
      <4>1. todo' \notin ListsWith(m) => todo \notin ListsWith(m)
        BY <2>1, <3>6, TodoTypes DEF Modes
      <4>2. stage' = "push"
        BY <2>1, <3>6
      <4>3. QED  BY <3>3, <4>1, <4>2 DEF c
    <3>7. CASE ~plan.defer
      <4>1. todo' = todo
        BY <2>1, <3>7
      <4>2. QED  BY <3>3, <3>4, <4>1 DEF c
    <3>8. QED  BY <3>5, <3>6, <3>7
  <2>6. QED  BY <2>1, <2>5, HandedNext
<1>8. CASE \E k \in 0..T-1 : PushFails(k)
  BY <1>8 DEF PushFails, Noticed, HandedInv
<1>9. CASE Synced
  <2>1. /\ stage = "sync" /\ stage' = "push" /\ todo # <<>> /\ todo \in Todos
        /\ failure' = (failure \/ Waits(Head(todo))) /\ todo' = Tail(todo)
        /\ UNCHANGED <<n, plan, cancelled, lane, done>>
    BY <1>9 DEF Synced, StageInv, remote
  <2>2. ASSUME ~failure', plan.push, ~cancelled', NEW m \in Modes, NEW t \in Targets,
               Planned(m), todo' \notin ListsWith(m)
        PROVE  GotRow(lane[ScannerOf(m)], done[ScannerOf(m)], n, t, ~plan.defer)
    <3>1. CASE todo \notin ListsWith(m)
      BY <2>1, <2>2, <3>1, HandedHere
    <3>2. CASE todo \in ListsWith(m)
      <4>1. m = Head(todo)
        BY <2>1, <2>2, <3>2, TodoTypes DEF Modes
      <4> DEFINE c == ScannerOf(m)
      <4>2. GotRow(lane[c], done[c], n, t, FALSE)
        BY <2>1, <2>2, <4>1, HandedHere
      <4>3. \A i \in done[c]+1..Len(lane[c]) : lane[c][i].run # n
        BY <2>1, <2>2, <4>1 DEF Waits
      <4>4. c \in Scanners
        BY <1>5
      <4> HIDE DEF c
      <4>5. PICK j \in 1..Len(lane[c]) : lane[c][j].run = n /\ lane[c][j].target = t
        BY <4>2 DEF GotRow
      <4>6. j <= done[c]
        BY <1>4, <4>3, <4>4, <4>5
      <4>7. GotRow(lane[c], done[c], n, t, ~plan.defer)
        BY <4>5, <4>6 DEF GotRow
      <4>8. QED  BY <4>7 DEF c
    <3>3. QED  BY <3>1, <3>2
  <2>3. QED  BY <2>1, <2>2, HandedNext
<1>10. ASSUME UNCHANGED <<n, stage, plan, todo, failure, cancelled, lane>>,
              \A x \in Scanners : done'[x] \in Nat /\ done[x] <= done'[x]
       PROVE  HandedInv'
  <2>1. ASSUME stage' \in {"push", "sync"}, ~failure', plan.push, ~cancelled',
               NEW m \in Modes, NEW t \in Targets
        PROVE  LET c == ScannerOf(m)
               IN /\ Planned(m) /\ todo' \notin ListsWith(m) =>
                       GotRow(lane'[c], done'[c], n, t, ~plan.defer)
                  /\ stage' = "sync" /\ m = Head(todo') => GotRow(lane'[c], done'[c], n, t, FALSE)
    <3> DEFINE c == ScannerOf(m)
    <3>1. /\ Planned(m) /\ todo \notin ListsWith(m) => GotRow(lane[c], done[c], n, t, ~plan.defer)
          /\ stage = "sync" /\ m = Head(todo) => GotRow(lane[c], done[c], n, t, FALSE)
      BY <1>10, <2>1, HandedHere
    <3>2. c \in Scanners /\ plan.defer \in BOOLEAN
      BY <1>5, <1>10, <2>1, ActivePlan DEF Active, PlanType
    <3> HIDE DEF c
    <3>3. \A d \in BOOLEAN : GotRow(lane[c], done[c], n, t, d) => GotRow(lane'[c], done'[c], n, t, d)
      <4>1. Len(lane[c]) \in Nat /\ lane' = lane /\ done'[c] \in Nat /\ done[c] <= done'[c]
        BY <1>4, <1>10, <3>2
      <4>2. QED  BY <1>6, <3>2, <4>1
    <3>4. /\ Planned(m) /\ todo' \notin ListsWith(m) => GotRow(lane'[c], done'[c], n, t, ~plan.defer)
          /\ stage' = "sync" /\ m = Head(todo') => GotRow(lane'[c], done'[c], n, t, FALSE)
      BY <1>10, <3>1, <3>2, <3>3
    <3>5. QED  BY <3>4 DEF c
  <2>2. QED  BY <1>10, <2>1, HandedNext
<1>11. ASSUME NEW m \in Scanners, Deliver(m) \/ Hold(m)
       PROVE  HandedInv'
  <2>1. UNCHANGED <<n, stage, plan, todo, failure, cancelled, lane>>
    BY <1>11 DEF Deliver, Hold, memory, remote
  <2>2. done' = done \/ done' = [done EXCEPT ![m] = done[m] + 1]
    BY <1>11 DEF Deliver, Hold, remote
  <2>3. \A x \in Scanners : done'[x] \in Nat /\ done[x] <= done'[x]
    <3>1. done \in [Scanners -> Nat]
      BY DEF TypeOK
    <3>2. QED  BY <2>2, <3>1
  <2>4. QED  BY <1>10, <2>1, <2>3
<1>12. CASE UNCHANGED vars
  BY <1>4, <1>10, <1>12 DEF vars, memory, remote
<1>13. CASE Next
  <2> HIDE DEF IInv, OutcomeInv
  <2>1. QED
    BY <1>2, <1>3, <1>7, <1>8, <1>9, <1>11, <1>13 DEF Next, Over
<1>14. QED  BY <1>12, <1>13
-----------------------------------------------------------------------------
LEMMA InitOutcome == Init => OutcomeInv
BY DEF Init, OutcomeInv, ScansInv, ReportInv, OwnRowsInv, HandedInv, Active

\* What a command has found, written, stored and queued hangs together in every
\* state of it.
THEOREM OutcomeInvariance == Spec => []OutcomeInv
<1>1. IInv /\ OutcomeInv /\ [Next]_vars => OutcomeInv'
  BY ScansPreserved, ReportPreserved, OwnRowsPreserved, HandedPreserved DEF IInv, OutcomeInv
<1>2. QED  BY InitOutcome, <1>1, Invariance, PTL DEF Spec

\* Nothing a scan says of a target is missing from the report of the command once
\* there is one, and no snapshot it hands over says more than it does.
THEOREM NothingFoundIsLost == Spec => []ReportsOutliveFailures
<1>1. OutcomeInv => ReportsOutliveFailures
  BY DEF OutcomeInv, ReportInv, OwnRowsInv, ReportsOutliveFailures, Said
<1>2. QED  BY <1>1, OutcomeInvariance, PTL

\* Status 0 is given only to commands all of whose scans succeeded, that stored
\* and handed over what they were asked to, and in which no scan found anything
\* severe if that was to be told; status 1 only to those of them that found
\* something severe, and to those that end in a traceback.
THEOREM ExitCodesAreTrue == Spec => ExitIsTrue
<1> DEFINE True ==
             /\ Status[exit'] = 0 =>
                  /\ AllWell
                  /\ plan.gate => \A t \in Targets, m \in Modes :
                                    Planned(m) => ScanOf(m)[t].findings \cap Severe = {}
             /\ Status[exit'] = 1 =>
                  \/ exit' = "raised" /\ stage \in {"scan", "merge", "push", "sync"}
                  \/ AllWell /\ plan.gate /\ \E t \in Targets : written[t].findings \cap Severe # {}
<1>1. ASSUME IInv, OutcomeInv, [Next]_vars, exit = None, exit' # None
      PROVE  True
  <2> USE DEF IInv, OutcomeInv
  <2>1. Over
    BY <1>1 DEF Over, Next, Begin, Scan, Look, Draft, Review, Write, Store, Push, PushFails, Synced,
       Retry, Retried, Deliver, Hold, Upload, vars
  <2>2. exit' \in Exits
    BY <2>1, OverEnds DEF Ends
  <2>3. /\ Status[exit'] = 0 => exit' = "passed"
        /\ Status[exit'] = 1 => exit' \in {"gated", "raised"}
    BY <2>2 DEF Status, Exits
  <2>4. CASE exit' = "raised"
    <3>1. stage \in {"scan", "merge", "push", "sync"}
      BY <2>1, <2>4 DEF Over, ScanFails, LookFails, ReviewFails, WriteFails, SyncDies, Finish, Killed,
         PushDies, Pushing, Ends
    <3>2. QED  BY <2>3, <2>4, <3>1
  <2>5. CASE exit' \in {"passed", "gated"}
    <3>1. Finish
      BY <2>1, <2>5 DEF Over, ScanFails, LookFails, ReviewFails, WriteFails, SyncDies, Killed, PushDies, Ends
    <3>2. /\ stage = "push" /\ todo = <<>> /\ ~failure
          /\ exit' = "passed" => ~Gated
          /\ exit' = "gated" => Gated
      BY <2>5, <3>1 DEF Finish, Ends
    <3>3. AllWell
      <4>1. Earned /\ (plan.store /\ ~cancelled => stored)
        BY <1>1, <3>2 DEF ReportInv
      <4>2. ASSUME plan.push, ~cancelled, NEW m \in Modes, NEW t \in Targets, Planned(m)
            PROVE  HasRow(ScannerOf(m), t, ~plan.defer)
        BY <1>1, <3>2, <4>2, TodoTypes DEF HandedInv, Modes
      <4>3. QED  BY <4>1, <4>2 DEF AllWell
    <3>4. /\ \A t \in Targets, m \in Modes : Planned(m) => ScanOf(m)[t].findings \subseteq Tells(report, t)
          /\ written = report
      BY <1>1, <3>2 DEF ReportInv
    <3>5. ASSUME ~Gated, plan.gate, NEW t \in Targets, NEW m \in Modes, Planned(m)
          PROVE  ScanOf(m)[t].findings \cap Severe = {}
      <4>1. \A u \in Targets : report[u].findings \cap Severe = {}
        BY <3>5 DEF Gated
      <4>2. Tells(report, t) \cap Severe = {}
        BY <4>1 DEF Tells, Twins
      <4>3. QED  BY <3>4, <3>5, <4>2
    <3>6. QED  BY <2>3, <2>5, <3>2, <3>3, <3>4, <3>5 DEF Gated
  <2>6. QED  BY <2>3, <2>4, <2>5
<1>2. IInv /\ OutcomeInv /\ [Next]_vars => [exit = None /\ exit' # None => True]_vars
  BY <1>1
<1>3. QED
  BY <1>2, Invariance, OutcomeInvariance, PTL DEF Spec, ExitIsTrue
=============================================================================
