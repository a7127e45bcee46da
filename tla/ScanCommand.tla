----------------------------- MODULE ScanCommand -----------------------------
(***************************************************************************)
(* The scan command from the scan to its exit code (scan() of src/cli.py),  *)
(* with what it hands over: the merged report, the review, the history and  *)
(* the snapshots for SecMan (src/delivery.py).  Several commands run one    *)
(* after the other; between them the queue may be retried and the reports   *)
(* of the last command uploaded again.                                      *)
(*                                                                         *)
(* The scans themselves are ScanBatch and TargetScan: here they return any  *)
(* results those allow.  The queue is Outbox: here a lane per scanner that  *)
(* delivers in its order or waits, and no row is quarantined.  SecMan opens *)
(* the findings of every snapshot and closes, for the subject and scanner   *)
(* of a complete one, the findings it does not name.                        *)
(*                                                                         *)
(* Reports, snapshots and the identities of findings know a target by its   *)
(* public URL (public_url() of src/models.py), which leaves out the query:  *)
(* targets of one command may share it, and several may share a subject.    *)
(***************************************************************************)
EXTENDS Naturals, Sequences, FiniteSets

CONSTANTS
  T,            \* targets of a command
  Urls,         \* public URLs
  SubjectOf,    \* function on Urls: the SecMan subject a target there is matched to
  Rules,        \* what the security scan can find
  Visible,      \* what the vision model can find
  Reviewed,     \* what the review can add
  Severe,       \* what reaches the --fail-on threshold
  Outcomes, Sights, \* results of the security and of the visual scan of a target
  Runs,         \* bound: commands
  Plans,        \* [1..Runs -> the options that command may be given]
  MaxLane,      \* bound: snapshots that wait in a lane between commands
  None

Targets == 1..T
Everything == Rules \cup Visible \cup Reviewed
Facts == Urls \X Everything

\* plain: HTTP 200 without redirects, for an address without a query.
Results == [status : {"SUCCESS", "PARTIAL", "FAILED"}, complete : BOOLEAN,
            findings : SUBSET Everything, plain : BOOLEAN]
Lost == [status |-> "FAILED", complete |-> FALSE, findings |-> {}, plain |-> FALSE]

PlanType == [security : BOOLEAN, visual : BOOLEAN, extended : BOOLEAN, review : BOOLEAN,
             store : BOOLEAN, push : BOOLEAN, defer : BOOLEAN,
             approved : BOOLEAN,    \* the operator approved the hash of this profile
             gate : BOOLEAN,        \* --fail-on is not "none"
             json : BOOLEAN,        \* among the --format given
            own : SUBSET {"security", "extended", "visual"}, \* mode-specific scanner IDs set
            at : [Targets -> Urls]]

\* How a command ends; "raised" is a traceback.
Exits == {"passed", "gated", "failed", "aborted", "raised", "killed"}
Status == [e \in Exits |-> CASE e = "passed" -> 0
                             [] e \in {"gated", "raised"} -> 1
                             [] e \in {"failed", "aborted"} -> 2
                             [] e = "killed" -> 137]

\* Some scan is made, and the review counts as an extension.  A target that
\* was scanned with success was scanned completely, and only then; a capture
\* without vision analysis succeeds and is never complete.
ASSUME CommandAssumption ==
  /\ T \in Nat \ {0} /\ Runs \in Nat /\ MaxLane \in Nat
  /\ Plans \in [1..Runs -> SUBSET PlanType] /\ None \notin PlanType \cup Exits
  /\ \A i \in 1..Runs : \A p \in Plans[i] : (p.security \/ p.visual) /\ (p.review => p.extended)
  /\ Outcomes \cup Sights \subseteq Results
  /\ \A r \in Outcomes : r.findings \subseteq Rules /\ (r.complete <=> r.status = "SUCCESS")
  /\ \A r \in Sights : r.findings \subseteq Visible /\ (r.complete => r.status = "SUCCESS")
  /\ Rules \cap (Visible \cup Reviewed) = {}

VARIABLES
  n,            \* commands begun
  plan, stage,
  security, visual, \* results of either scan by target, <<>> without
  report,       \* results of the local report by target
  cancelled,    \* traffic.cancelled
  failure,      \* operational_failure
  exit,
  written,      \* the report on disk: its results by target
  stored,       \* the run is in the history
  todo,         \* modes still to be pushed
  held,         \* lanes the sender has given up on
  saved,        \* [Scanners -> snapshots a JSON report on disk amounts to]
  lane,         \* [Scanners -> Seq(snapshot)], the rows of the queue, oldest first
  done,         \* [Scanners -> rows delivered], a prefix of the lane
  open,         \* [Scanners -> [Facts -> last run that reported it, 0: closed]]
  looked        \* history: <<run, fact>>: a complete baseline scan did not see it

memory == <<plan, security, visual, report, cancelled, failure, written, stored, todo>>
remote == <<lane, done, open>>
vars == <<n, stage, memory, exit, held, saved, remote, looked>>

Scanners == {"security", "extended", "visual", "shared"}

Snapshots == [run : 1..Runs, target : Targets, at : Urls, closes : BOOLEAN,
              findings : SUBSET Everything]

TypeOK ==
  /\ n \in 0..Runs /\ plan \in PlanType \cup {None}
  /\ stage \in {"idle", "scan", "look", "merge", "review", "write", "store", "push", "sync",
                "retry"}
  /\ {security, visual, report, written} \subseteq [Targets -> Results] \cup {<<>>}
  /\ {cancelled, failure, stored} \subseteq BOOLEAN
  /\ exit \in Exits \cup {None}
  /\ todo \in Seq({"security", "visual"}) /\ held \subseteq Scanners
  /\ saved \in [Scanners -> Seq(Snapshots)]
  /\ lane \in [Scanners -> Seq(Snapshots)]
  /\ done \in [Scanners -> Nat] /\ \A m \in Scanners : done[m] <= Len(lane[m])
  /\ open \in [Scanners -> [Facts -> 0..Runs]]
  /\ looked \subseteq (1..Runs) \X Facts

Init ==
  /\ n = 0 /\ stage = "idle"
  /\ plan = None /\ security = <<>> /\ visual = <<>> /\ report = <<>> /\ written = <<>>
  /\ cancelled = FALSE /\ failure = FALSE /\ stored = FALSE /\ todo = <<>>
  /\ exit = None /\ held = {}
  /\ saved = [m \in Scanners |-> <<>>]
  /\ lane = [m \in Scanners |-> <<>>] /\ done = [m \in Scanners |-> 0]
  /\ open = [m \in Scanners |-> [f \in Facts |-> 0]]
  /\ looked = {}

Waiting(m) == done[m] < Len(lane[m])
RoomFor(k) == \A m \in Scanners : Len(lane[m]) + k <= done[m] + MaxLane

\* The scanner IDs for which SECMAN_SCANNER_ID is no substitute.
Scannable(p) ==
  /\ p.security /\ p.extended => "extended" \in p.own
  /\ p.security /\ p.visual => "visual" \in p.own /\ (p.extended \/ "security" \in p.own)

Begin(p) ==
  /\ stage = "idle" /\ n < Runs /\ RoomFor(0)
  /\ p.push => Scannable(p)
  /\ n' = n + 1 /\ plan' = p
  /\ stage' = IF p.security THEN "scan" ELSE "look"
  /\ exit' = None /\ saved' = [m \in Scanners |-> <<>>]
  /\ UNCHANGED <<security, visual, report, cancelled, failure, written, stored, todo, held,
                 remote, looked>>

\* The process is gone.
Ends(e) ==
  /\ stage' = "idle" /\ exit' = e
  /\ plan' = None /\ security' = <<>> /\ visual' = <<>> /\ report' = <<>> /\ written' = <<>>
  /\ cancelled' = FALSE /\ failure' = FALSE /\ stored' = FALSE /\ todo' = <<>>
  /\ UNCHANGED <<n, held, done, open, looked>>
-----------------------------------------------------------------------------
\* The scans.  Ctrl-C keeps what is finished and fails the rest of the
\* targets; it may also come when no target is left.  Targets differ in more
\* than the fragment: of those with one public URL only one has no query.
Baseline == ~plan.extended
Absent(rs) == {<<n, f>> : f \in {g \in Urls \X Rules :
                 \E t \in Targets : /\ plan.at[t] = g[1]
                                    /\ rs[t].status = "SUCCESS" /\ rs[t].plain
                                    /\ g[2] \notin rs[t].findings}}

Scan ==
  /\ stage = "scan"
  /\ stage' = IF plan.visual THEN "look" ELSE "merge"
  /\ security' \in [Targets -> Outcomes]
  /\ \A t, u \in Targets :
       t # u /\ plan.at[t] = plan.at[u] => ~(security'[t].plain /\ security'[u].plain)
  /\ cancelled' \in BOOLEAN
  /\ looked' = looked \cup (IF Baseline /\ plan.approved THEN Absent(security') ELSE {})
  /\ UNCHANGED <<n, plan, visual, report, failure, written, stored, todo, exit, held, saved, remote>>

\* The workers cannot be started, which nothing catches.
ScanFails == stage = "scan" /\ Ends("raised") /\ UNCHANGED <<saved, lane>>

Look ==
  /\ stage = "look"
  /\ stage' = "merge"
  /\ visual' \in [Targets -> IF cancelled THEN {Lost} ELSE Sights]
  /\ cancelled' \in {cancelled, TRUE}
  /\ UNCHANGED <<n, plan, security, report, failure, written, stored, todo, exit, held, saved,
                 remote, looked>>

\* The batch cannot be started: what the security scan found is not reported.
LookFails == stage = "look" /\ Ends("aborted") /\ UNCHANGED <<saved, lane>>

Both(a, b) == IF a = "SUCCESS" /\ b = "SUCCESS" THEN "SUCCESS" ELSE "PARTIAL"

\* Mutant: the findings of the second scan are forgotten.
LeftOnly(l, r) == [l EXCEPT !.status = Both(@, r.status), !.complete = @ /\ r.complete]
Merged(l, r) == [l EXCEPT !.status = Both(@, r.status), !.complete = @ /\ r.complete,
                          !.findings = @ \cup r.findings]

Combined == plan.security /\ plan.visual
Whole == IF Combined THEN [t \in Targets |-> Merged(security[t], visual[t])]
         ELSE IF plan.security THEN security ELSE visual
-----------------------------------------------------------------------------
\* A baseline or visual scan without an ID of its own goes to SECMAN_SCANNER_ID,
\* whichever of the two it is.
Kind(m) == IF m = "security" /\ plan.extended THEN "extended" ELSE m
ScannerOf(m) == IF Kind(m) = "extended" \/ Kind(m) \in plan.own \/ Combined
                THEN Kind(m) ELSE "shared"
ScanOf(m) == IF m = "security" THEN security ELSE visual
ModesToPush == (IF plan.security THEN <<"security">> ELSE <<>>)
                 \o (IF plan.visual THEN <<"visual">> ELSE <<>>)

Snapshot(r, t, closes) ==
  [run |-> n, target |-> t, at |-> plan.at[t], closes |-> closes,
   findings |-> IF r.status = "FAILED" THEN {} ELSE r.findings]

\* Mutant: a snapshot of a partial scan closes findings.
AnyScan(m, r) == m = "security" /\ Baseline /\ plan.approved /\ r.plain
\* A live baseline scan, under the approved profile, of the very address.
Closes(m, r) == m = "security" /\ Baseline /\ plan.approved /\ r.plain /\ r.complete

\* What an upload of the saved report r of a mode would queue: never a closing
\* snapshot.  The report of both modes is refused; each mode has its own.
AsSaved(m, rs) ==
  [saved EXCEPT ![ScannerOf(m)] = [t \in Targets |-> Snapshot(rs[t], t, FALSE)]]

\* Reports are written before the review, so that it cannot lose them, in the
\* formats asked for.
DraftSaved == IF plan.json /\ ~Combined THEN AsSaved(Head(ModesToPush), Whole) ELSE saved

Draft ==
  /\ stage = "merge" /\ plan.review /\ stage' = "review"
  /\ report' = Whole
  /\ written' = Whole
  /\ saved' = DraftSaved
  /\ UNCHANGED <<n, plan, security, visual, cancelled, failure, stored, todo, exit, held, remote, looked>>

\* o: the targets the provider answered for, with what it added.  Ctrl-C in
\* the review of target i makes it partial even if it had failed.
ReviewOf(r, t, o, i) ==
  IF t \in DOMAIN o THEN [r EXCEPT !.findings = @ \cup o[t]]
  ELSE [r EXCEPT !.status = IF @ = "FAILED" /\ t # i THEN @ ELSE "PARTIAL",
                 !.complete = FALSE]

Twins(t) == {u \in Targets : plan.at[u] = plan.at[t]}
LastOf(t) == {u \in Twins(t) : \A v \in Twins(t) : v <= u}

\* What SecMan gets of a reviewed scan: the review of a target is looked up by
\* public URL, and the last target of that URL is found.
ReviewedSnapshot(rs, o) ==
  [t \in Targets |->
     [rs[t] EXCEPT !.findings = @ \cup UNION {o[u] : u \in LastOf(t) \cap DOMAIN o},
                   !.status = IF LastOf(t) \subseteq DOMAIN o THEN @ ELSE "PARTIAL",
                   !.complete = FALSE]]

Review(o, i) ==
  /\ stage = "review"
  /\ i # None => \A t \in DOMAIN o : t < i
  /\ cancelled => o = <<>> /\ i = None
  /\ stage' = "write"
  /\ cancelled' = (cancelled \/ i # None)
  /\ report' = [t \in Targets |-> ReviewOf(report[t], t, o, i)]
  /\ IF plan.security
     THEN security' = ReviewedSnapshot(security, o) /\ UNCHANGED visual
     ELSE visual' = ReviewedSnapshot(visual, o) /\ UNCHANGED security
  /\ UNCHANGED <<n, plan, failure, written, stored, todo, exit, held, saved, remote, looked>>

\* The prompt cannot be read any more.
ReviewFails == stage = "review" /\ Ends("aborted") /\ UNCHANGED <<saved, lane>>

Final == IF plan.review THEN report ELSE Whole
SavedBoth ==
  [AsSaved("security", security) EXCEPT !["visual"] = AsSaved("visual", visual)["visual"]]

FinalSaved == IF ~(plan.push \/ plan.json) THEN saved
              ELSE IF Combined THEN SavedBoth ELSE AsSaved(Head(ModesToPush), Final)

\* What a step that is broken off may leave of the reports it writes.
Leaves ==
  IF stage = "merge" /\ plan.review THEN {saved, DraftSaved}
  ELSE IF stage \in {"merge", "write"}
  THEN {saved, FinalSaved} \cup
         (IF Combined /\ (plan.push \/ plan.json) THEN {AsSaved("security", security)} ELSE {})
  ELSE {saved}

Write ==
  /\ stage \in {"merge", "write"}
  /\ stage = "merge" => ~plan.review
  /\ stage' = "store"
  /\ report' = Final
  /\ failure' = \E t \in Targets : Final[t].status # "SUCCESS"
  /\ written' = Final
  /\ saved' = FinalSaved
  /\ UNCHANGED <<n, plan, security, visual, cancelled, stored, todo, exit, held, remote, looked>>

\* The draft is written outside of every try.
WriteFails ==
  /\ stage \in {"merge", "write"}
  /\ Ends(IF stage = "merge" /\ plan.review THEN "raised" ELSE "aborted")
  /\ saved' \in Leaves /\ UNCHANGED lane
-----------------------------------------------------------------------------
\* One transaction: the run is in the history as a whole or not at all.
Store(ok) ==
  /\ stage = "store" /\ stage' = "push"
  /\ IF plan.store /\ ~cancelled
     THEN stored' = ok /\ failure' = (failure \/ ~ok)
     ELSE UNCHANGED <<stored, failure>>
  /\ todo' = IF plan.push /\ ~cancelled THEN ModesToPush ELSE <<>>
  /\ UNCHANGED <<n, plan, security, visual, report, cancelled, written, exit, held, saved, remote, looked>>

Pushing == stage = "push" /\ todo # <<>>

\* The first k templates of the mode are put in its lane.
Enqueue(m, k) ==
  lane' = [lane EXCEPT ![ScannerOf(m)] =
             @ \o [t \in 1..k |-> Snapshot(ScanOf(m)[t], t, Closes(m, ScanOf(m)[t]))]]

Push ==
  /\ Pushing
  /\ Enqueue(Head(todo), T)
  /\ stage' = IF plan.defer THEN "push" ELSE "sync"
  /\ todo' = IF plan.defer THEN Tail(todo) ELSE todo
  /\ held' = {}
  /\ UNCHANGED <<n, plan, security, visual, report, cancelled, failure, written, stored, exit,
                 saved, done, open, looked>>

\* Mutant: a mode that could not be queued is not held against the run.
Unnoticed == failure
Noticed == TRUE

\* The queue is full, or a snapshot is too large.
PushFails(k) ==
  /\ Pushing /\ k < T
  /\ Enqueue(Head(todo), k)
  /\ failure' = Noticed
  /\ todo' = Tail(todo)
  /\ UNCHANGED <<n, stage, plan, security, visual, report, cancelled, written, stored, exit, held,
                 saved, done, open, looked>>

\* sqlite3 raises, which nothing catches, or the process is killed: the next
\* mode is not tried.
PushDies(k, e) ==
  /\ Pushing /\ k < T /\ e \in {"raised", "killed"}
  /\ Enqueue(Head(todo), k)
  /\ Ends(e) /\ UNCHANGED saved

SyncDies == stage = "sync" /\ Ends("raised") /\ UNCHANGED <<saved, lane>>

Names(s, f) == s.at = f[1] /\ f[2] \in s.findings

\* SecMan: what a snapshot names is open; what a closing one leaves out is not.
Deliver(m) ==
  /\ stage \in {"sync", "retry"} /\ m \notin held /\ Waiting(m)
  /\ LET s == lane[m][done[m] + 1]
     IN open' = [open EXCEPT ![m] = [f \in Facts |->
          IF Names(s, f) THEN s.run
          ELSE IF s.closes /\ SubjectOf[f[1]] = SubjectOf[s.at] THEN 0
          ELSE @[f]]]
  /\ done' = [done EXCEPT ![m] = @ + 1]
  /\ UNCHANGED <<n, stage, memory, exit, held, saved, lane, looked>>

\* The head of the lane is refused, lost, or not yet due.
Hold(m) ==
  /\ stage \in {"sync", "retry"} /\ m \notin held /\ Waiting(m)
  /\ held' = held \cup {m}
  /\ UNCHANGED <<n, stage, memory, exit, saved, remote, looked>>

Settled == \A m \in Scanners : Waiting(m) => m \in held
Waits(m) == \E i \in done[ScannerOf(m)]+1..Len(lane[ScannerOf(m)]) : lane[ScannerOf(m)][i].run = n

Synced ==
  /\ stage = "sync" /\ Settled
  /\ stage' = "push"
  /\ failure' = (failure \/ Waits(Head(todo)))
  /\ todo' = Tail(todo)
  /\ held' = {}
  /\ UNCHANGED <<n, plan, security, visual, report, cancelled, written, stored, exit, saved,
                 remote, looked>>

Gated == plan.gate /\ \E t \in Targets : report[t].findings \cap Severe # {}

Finish ==
  /\ stage = "push" /\ todo = <<>>
  /\ Ends(IF failure THEN "failed" ELSE IF Gated THEN "gated" ELSE "passed")
  /\ UNCHANGED <<saved, lane>>

Killed ==
  /\ stage \notin {"idle", "retry"}
  /\ Ends("killed")
  /\ saved' \in Leaves /\ UNCHANGED lane
-----------------------------------------------------------------------------
\* Between commands: delivery retry and upload.
Retry ==
  /\ stage = "idle" /\ \E m \in Scanners : Waiting(m)
  /\ stage' = "retry" /\ held' = {}
  /\ UNCHANGED <<n, memory, exit, saved, remote, looked>>

Retried ==
  /\ stage = "retry" /\ Settled
  /\ stage' = "idle" /\ held' = {}
  /\ UNCHANGED <<n, memory, exit, saved, remote, looked>>

\* The upload of a saved report, row by row: a snapshot is a row only once,
\* delivered or not.
IsRow(m, s) == \E i \in 1..Len(lane[m]) : lane[m][i] = s

Upload(m) ==
  /\ stage = "idle" /\ RoomFor(1)
  /\ \E i \in 1..Len(saved[m]) :
       /\ ~IsRow(m, saved[m][i]) /\ \A j \in 1..i-1 : IsRow(m, saved[m][j])
       /\ lane' = [lane EXCEPT ![m] = Append(@, saved[m][i])]
  /\ UNCHANGED <<n, stage, memory, exit, held, saved, done, open, looked>>

Next ==
  \/ n < Runs /\ \E p \in Plans[n + 1] : Begin(p)
  \/ \E D \in SUBSET Targets : \E o \in [D -> SUBSET Reviewed], i \in Targets \cup {None} :
       Review(o, i)
  \/ Scan \/ ScanFails \/ Look \/ LookFails \/ Draft \/ ReviewFails \/ Write \/ WriteFails
  \/ \E ok \in BOOLEAN : Store(ok)
  \/ \E k \in 0..T-1 : PushFails(k) \/ \E e \in Exits : PushDies(k, e)
  \/ Push \/ SyncDies \/ Synced \/ Finish \/ Killed \/ Retry \/ Retried
  \/ \E m \in Scanners : Deliver(m) \/ Hold(m) \/ Upload(m)

Spec == Init /\ [][Next]_vars
-----------------------------------------------------------------------------
\* SecMan closes a finding only on the word of a complete baseline scan, under
\* the approved profile, that looked for every rule it does not name at its own
\* address; so a finding of a rule at that address is gone.  The finding was last
\* reported by an earlier command, whatever partial, failed, extended, visual or
\* reviewed scans, saved reports, deferred and retried deliveries come between
\* (templates in delivery.py, _push_to_secman in cli.py).  The exceptions: it may
\* be of another address that SecMan files under the same subject, it may come
\* from another target of the same command, and where the scans share a scanner
\* (SECMAN_SCANNER_ID) it may be one that no rule can find.
ClosedMeansGone ==
  [][\A m \in Scanners : \A f \in Facts :
       open[m][f] # 0 /\ open'[m][f] = 0 =>
         LET s == lane[m][done'[m]]
         IN /\ \A x \in Rules \ s.findings : <<s.run, <<s.at, x>>>> \in looked
            /\ f[1] # s.at => SubjectOf[f[1]] = SubjectOf[s.at]
            /\ f[2] \notin Rules => m = "shared"
            /\ \/ s.run > open[m][f]
               \/ \E i \in 1..done[m] : /\ lane[m][i].run = s.run /\ lane[m][i].target # s.target
                                        /\ Names(lane[m][i], f)]_vars

\* Every scan of every target was a success, the run is in the history if it
\* should be, and its snapshots are delivered, or all queued if that was to be
\* deferred.  (After Ctrl-C nothing is stored or pushed, and the exit code may
\* not tell: hence ~cancelled.)
Modes == {"security", "visual"}
Planned(m) == IF m = "security" THEN plan.security ELSE plan.visual
Earned == \A t \in Targets, m \in Modes : Planned(m) => ScanOf(m)[t].status = "SUCCESS"
HasRow(m, t, delivered) ==
  \E j \in 1..Len(lane[m]) : /\ lane[m][j].run = n /\ lane[m][j].target = t
                             /\ delivered => j <= done[m]
AllWell ==
  /\ Earned
  /\ plan.store /\ ~cancelled => stored
  /\ plan.push /\ ~cancelled =>
       \A m \in Modes, t \in Targets : Planned(m) => HasRow(ScannerOf(m), t, ~plan.defer)

\* Status 0 means that nothing went wrong and, under --fail-on, that no scan
\* found anything severe.  Status 1 means that nothing went wrong and something
\* severe was found, or else is that of a traceback: a scan or a first report
\* that cannot be started, or sqlite3 in the queue.
ExitIsTrue ==
  [][exit = None /\ exit' # None =>
       /\ Status[exit'] = 0 =>
            /\ AllWell
            /\ plan.gate => \A t \in Targets, m \in Modes :
                              Planned(m) => ScanOf(m)[t].findings \cap Severe = {}
       /\ Status[exit'] = 1 =>
            \/ exit' = "raised" /\ stage \in {"scan", "merge", "push", "sync"}
            \/ AllWell /\ plan.gate /\ \E t \in Targets : written[t].findings \cap Severe # {}]_vars

\* What the report on disk says of a target; what the review added to it, it may
\* have said of another target of the same public URL.
Tells(rs, t) == rs[t].findings \cup UNION {rs[u].findings \cap Reviewed : u \in Twins(t)}
Said(t) == Tells(written, t)

\* What the scans found outlives a failing review, history or upload: from the
\* moment the first report is written nothing a scan says of a target is missing
\* from it, and the snapshots handed to SecMan say nothing it does not say.
ReportsOutliveFailures ==
  /\ stage \in {"review", "store", "push", "sync"} =>
       \A t \in Targets, m \in Modes : Planned(m) => ScanOf(m)[t].findings \subseteq Said(t)
  /\ stage \in {"push", "sync"} =>
       \A m \in Scanners : \A i \in 1..Len(lane[m]) :
         LET s == lane[m][i] IN s.run = n => s.findings \subseteq Said(s.target)

-----------------------------------------------------------------------------
(* The inductive invariant behind ClosedMeansGone.                         *)

Active == stage \notin {"idle", "retry"}

ListsWith(m) == {<<m>>, <<"security", "visual">>}
Todos == {<<>>} \cup ListsWith("security") \cup ListsWith("visual")

\* Where the command is, it has what it needs there.
StageInv ==
  /\ Active => n \in 1..Runs /\ plan \in Plans[n]
  /\ Active /\ stage # "scan" /\ plan.security => security \in [Targets -> Results]
  /\ Active /\ stage \notin {"scan", "look"} /\ plan.visual => visual \in [Targets -> Results]
  /\ stage \in {"review", "write"} => plan.review /\ report \in [Targets -> Results]
  /\ todo \in Todos
  /\ stage \in {"push", "sync"} =>
       /\ todo \in ListsWith("security") => plan.security
       /\ todo \in ListsWith("visual") => plan.visual
  /\ stage = "sync" => todo # <<>>

\* A baseline scan is as it was made: what it did not see is on record.
ScanInv ==
  Active /\ stage # "scan" /\ plan.security /\ Baseline =>
    security \in [Targets -> Outcomes] /\ (plan.approved => Absent(security) \subseteq looked)

\* Saved snapshots are of the last command and close nothing; only a scan that
\* shares its scanner is filed with what other scans can find.
SavedRow(m, s) == s.run = n /\ ~s.closes /\ (m = "security" => s.findings \subseteq Rules)
SavedInv == \A m \in Scanners : \A i \in 1..Len(saved[m]) : SavedRow(m, saved[m][i])

\* A row that closes is a complete baseline scan of its target.
Closing == {"security", "shared"}
RowsInv ==
  \A m \in Scanners : \A i \in 1..Len(lane[m]) :
    LET s == lane[m][i]
    IN /\ s.run <= n
       /\ m = "security" => s.findings \subseteq Rules
       /\ s.closes => m \in Closing /\
            \A x \in Rules \ s.findings : <<s.run, <<s.at, x>>>> \in looked

\* A lane is in the order of the runs, and a row that closes is the first of
\* its run and target.
OrderInv ==
  \A m \in Scanners : \A j \in 1..Len(lane[m]) : \A i \in 1..j-1 :
    LET r == lane[m][i]  s == lane[m][j]
    IN r.run <= s.run /\ (r.run = s.run /\ r.target = s.target => ~s.closes)

\* Until its security scan is queued, a command has no rows in the lane that
\* scan may go to.
FreshInv ==
  Active /\ stage # "sync" /\ (stage = "push" => todo # <<>> /\ Head(todo) = "security") =>
    \A m \in Closing : \A i \in 1..Len(lane[m]) : lane[m][i].run < n

\* What is open was reported by a delivered row.
OpenInv ==
  \A m \in Scanners : \A f \in Facts : open[m][f] # 0 =>
    \E i \in 1..done[m] : lane[m][i].run = open[m][f] /\ Names(lane[m][i], f)

IInv == /\ TypeOK /\ StageInv /\ ScanInv /\ SavedInv
        /\ RowsInv /\ OrderInv /\ FreshInv /\ OpenInv

(* The inductive invariant behind ReportsOutliveFailures and ExitIsTrue.   *)

\* A scan that was not asked for has no results, nor has any between commands.
ScansInv ==
  /\ Active =>
       /\ \A m \in Modes : ~Planned(m) => ScanOf(m) = <<>>
       /\ stage = "scan" => plan.security
       /\ stage = "look" => plan.visual
  /\ ~Active => security = <<>> /\ visual = <<>>

\* The report holds what the scans found, and all its results are successes
\* only where every scan had one.
ReportInv ==
  /\ stage \in {"review", "write", "store", "push", "sync"} =>
       \A t \in Targets, m \in Modes : Planned(m) => ScanOf(m)[t].findings \subseteq Tells(report, t)
  /\ stage \in {"review", "store", "push", "sync"} => written = report
  /\ stage \in {"review", "write"} /\ (\A t \in Targets : report[t].status = "SUCCESS") => Earned
  /\ stage \in {"store", "push", "sync"} => report \in [Targets -> Results]
  /\ stage \in {"store", "push", "sync"} /\ ~failure => Earned
  /\ stage \in {"push", "sync"} /\ ~failure /\ plan.store /\ ~cancelled => stored

\* A command has no rows before it pushes, and says in them what it reported.
OwnRowsInv ==
  \A m \in Scanners : \A i \in 1..Len(lane[m]) :
    LET s == lane[m][i]
    IN /\ Active /\ stage \notin {"push", "sync"} => s.run < n
       /\ stage \in {"push", "sync"} /\ s.run = n => s.findings \subseteq Said(s.target)

\* A mode that is done with has a row for each target, delivered if that was
\* not deferred; one whose delivery is waited for has its rows.
HandedInv ==
  stage \in {"push", "sync"} /\ ~failure /\ plan.push /\ ~cancelled =>
    \A m \in Modes, t \in Targets :
      /\ Planned(m) /\ todo \notin ListsWith(m) => HasRow(ScannerOf(m), t, ~plan.defer)
      /\ stage = "sync" /\ m = Head(todo) => HasRow(ScannerOf(m), t, FALSE)
OutcomeInv == ScansInv /\ ReportInv /\ OwnRowsInv /\ HandedInv
=============================================================================
