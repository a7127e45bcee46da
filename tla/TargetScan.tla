----------------------------- MODULE TargetScan -----------------------------
(***************************************************************************)
(* One target (src/orchestrator.py, scan_target): the stages a worker runs  *)
(* in order, what each appends to the errors and to the check executions,   *)
(* and the verdict drawn from them.  The probes and the planner that may    *)
(* choose them (src/checks/active.py, src/agent.py) are taken step by step; *)
(* a stage that only collects is one step with the outcomes it can have.    *)
(* Of a crawl, only its pages and its verdict are left: see Crawl.          *)
(*                                                                         *)
(* "executed" stands for executed-positive and executed-negative.           *)
(***************************************************************************)
EXTENDS Naturals

CONSTANTS
  Probes,        \* ACTIVE_PROBES
  OptionSets,    \* the opt-ins a target may be scanned with
  Budgets,       \* records [calls, actions]: what the planner may use up
  MaxPages       \* bound of the model: pages crawled, and pages rendered

Optional == {"active", "dirbuster", "external", "agent"}
OptIns == Optional \cup {"javascript", "crawl", "browser", "snapshot", "vulnerabilities"}
StageChecks == {"dirbuster", "external", "javascript", "tls", "vulnerabilities",
                "advisories", "crawl", "browser"}
Checks == Probes \cup StageChecks

\* The passive rules, one of each kind: one that needs a page of HTML, one that
\* reads the body, and the one for rendered pages.
Passive == {"markup", "body", "rendered"}
Sources == {"root", "crawled", "rendered"}

ASSUME TargetScanAssumption ==
  /\ Probes \cap StageChecks = {}
  /\ OptionSets \subseteq SUBSET OptIns
  /\ Budgets \subseteq [calls : Nat \ {0}, actions : Nat \ {0}]
  /\ MaxPages \in Nat

VARIABLES
  stage,        \* the stage the worker is in
  options, budget,
  page,         \* facts of the last response: ok, html, crossed, https, target
  errors,       \* stages that reported an error
  executions,   \* how many a check has in each state; no one looks at their order
  passive,      \* the same of the passive rules
  looked,       \* history: pages these were evaluated for
  cut,          \* and how many of the crawled ones had their body truncated
  crawled, planned,      \* coverage.crawl_complete, agent_complete
  todo,         \* probes not tried yet by this stage
  bad,          \* did a probe of this stage fail
  chosen,       \* those the planner has made of each probe
  calls,        \* and how many it made
  status,
  sent          \* history: how often each probe was sent

plan == <<todo, bad, chosen, calls, sent>>
looks == <<passive, looked, cut>>
vars == <<stage, options, budget, page, errors, executions, looks, crawled, planned, plan, status>>

Stages == {"root", "security", "active", "dirbuster", "external", "javascript", "tls",
           "advisories", "crawl", "browser", "agent", "verdict", "done"}
States == {"executed", "skipped", "unsupported", "failed", "exhausted"}
Pages == [ok : BOOLEAN, html : BOOLEAN, crossed : BOOLEAN, https : BOOLEAN, target : BOOLEAN]

TypeOK ==
  /\ stage \in Stages /\ options \in OptionSets /\ budget \in Budgets /\ page \in Pages
  /\ errors \subseteq Stages
  /\ executions \in [Checks -> [States -> Nat]]
  /\ passive \in [Passive -> [States -> Nat]]
  /\ looked \in [Sources -> Nat] /\ cut \in Nat
  /\ crawled \in BOOLEAN /\ planned \in BOOLEAN /\ bad \in BOOLEAN
  /\ todo \subseteq Probes
  /\ chosen \in [Probes -> [States -> Nat]]
  /\ calls \in Nat /\ calls <= budget.calls /\ calls <= budget.actions
  /\ status \in {"running", "success", "partial", "failed", "raised"}
  /\ sent \in [Probes -> Nat]

Never == [s \in States |-> 0]
Once(s) == [Never EXCEPT ![s] = 1]
Checked(tally) == {c \in DOMAIN tally : tally[c] # Never}

Blank == [ok |-> FALSE, html |-> FALSE, crossed |-> FALSE, https |-> FALSE, target |-> FALSE]

\* Without a planner one budget is as good as another.
Init ==
  /\ stage = "root" /\ options \in OptionSets /\ budget \in Budgets /\ page = Blank
  /\ "agent" \notin options => budget = CHOOSE b \in Budgets : TRUE
  /\ errors = {} /\ executions = [c \in Checks |-> Never]
  /\ passive = [c \in Passive |-> Never] /\ looked = [from \in Sources |-> 0] /\ cut = 0
  /\ crawled = TRUE /\ planned = TRUE
  /\ todo = {} /\ bad = FALSE /\ chosen = [p \in Probes |-> Never] /\ calls = 0
  /\ status = "running" /\ sent = [p \in Probes |-> 0]

Goes(from, to) == stage = from /\ stage' = to
Noting(s, failed) == errors' = IF failed THEN errors \cup {s} ELSE errors
\* One execution more for each check that states has a state of.
Adding(states) ==
  executions' = [c \in Checks |-> IF c \in DOMAIN states
                                  THEN [executions[c] EXCEPT ![states[c]] = @ + 1]
                                  ELSE executions[c]]
Same == UNCHANGED <<options, budget, page, status, looks>>
Coverage == <<crawled, planned>>

\* Nothing is known of a target whose root cannot be collected.
RootFails ==
  /\ Goes("root", "done")
  /\ status' = "failed" /\ errors' = {"root"}
  /\ UNCHANGED <<options, budget, page, executions, looks, Coverage, plan>>

\* A rule that does not apply is "unsupported", which stands for "skipped" too:
\* no cookie set, no security.txt fetched.  What it finds in the part of a
\* body that was read it finds.
PassiveState(c, html, truncated, found) ==
  CASE c = "markup" /\ ~html -> "unsupported"
    [] c = "body" /\ truncated /\ ~found -> "exhausted"
    [] OTHER -> "executed"

Applied(from) == IF from = "rendered" THEN Passive ELSE Passive \ {"rendered"}

\* One execution more of each rule for a page.
Looks(from, html, truncated, found) ==
  /\ passive' = [c \in Passive |->
                   IF c \in Applied(from)
                   THEN [passive[c] EXCEPT ![PassiveState(c, html, truncated, found)] = @ + 1]
                   ELSE passive[c]]
  /\ looked' = [looked EXCEPT ![from] = @ + 1]
  /\ cut' = IF from = "crawled" /\ truncated THEN cut + 1 ELSE cut

\* A target of scheme http may answer over https after a redirect, which is
\* another origin; a downgrade is never followed.  That the body of the root is
\* truncated is an error.
RootAnswers(p, truncated, found) ==
  /\ Goes("root", "security")
  /\ p.crossed \/ p.https = p.target
  /\ p.target => p.https
  /\ page' = p
  /\ Noting("root", truncated)
  /\ Looks("root", p.html, truncated, found)
  /\ UNCHANGED <<options, budget, status, executions, Coverage, plan>>

\* Optional probes stay on the origin that was configured; that they are left
\* out is an error.
InPlace == ~page.crossed

\* Mutant: only the fixed probes are missed.
OnlyActive == page.crossed /\ "active" \in options
LeftOut == page.crossed /\ options \cap Optional # {}

SecurityTxt(failed) ==
  /\ Goes("security", "active")
  /\ errors' = errors \cup (IF failed THEN {"security"} ELSE {})
                      \cup (IF LeftOut THEN {"active"} ELSE {})
  /\ todo' = Probes
  /\ Same /\ UNCHANGED <<executions, Coverage, bad, chosen, calls, sent>>

\* Mutant: the planner does not replace the fixed sequence of probes.
AlwaysFixed == "active" \in options /\ InPlace
FixedProbes == "active" \in options /\ "agent" \notin options /\ InPlace

Sent(p) == sent' = [sent EXCEPT ![p] = @ + 1]

Probe(p, fails) ==
  /\ stage = "active" /\ FixedProbes
  /\ p \in todo /\ todo' = todo \ {p}
  /\ bad' = (bad \/ fails)
  /\ Sent(p)
  /\ Same /\ UNCHANGED <<stage, errors, executions, Coverage, chosen, calls>>

\* One failure and none of the probes is taken for executed.
ProbeState == IF bad THEN "failed" ELSE "executed"

EndProbes ==
  /\ Goes("active", "dirbuster")
  /\ FixedProbes => todo = {}
  /\ Adding([p \in Probes |-> IF FixedProbes THEN ProbeState ELSE "skipped"])
  /\ Noting("active", bad)
  /\ todo' = {} /\ bad' = FALSE
  /\ Same /\ UNCHANGED <<Coverage, chosen, calls, sent>>

\* A stage with one execution that runs or is skipped.
Records(check, runs, s) ==
  /\ Adding([c \in {check} |-> IF runs THEN s ELSE "skipped"])
  /\ Noting(stage, runs /\ s = "failed")
  /\ Same /\ UNCHANGED plan

\* Directory discovery and external tools follow only a 200.
Dirbuster(s) ==
  /\ Goes("dirbuster", "external")
  /\ Records("dirbuster", page.ok /\ "dirbuster" \in options /\ InPlace, s)
  /\ UNCHANGED Coverage

RunsTools == page.ok /\ "external" \in options /\ InPlace
External(s) ==
  /\ Goes("external", "javascript")
  /\ Records("external", RunsTools, s)
  /\ UNCHANGED Coverage

\* Scripts are looked for wherever the content type holds "html", which the
\* media types that count as HTML are not alone in: the check of another page
\* is unsupported even where the script errors are retained.
JavaScript(s) ==
  /\ Goes("javascript", "tls")
  /\ Adding([c \in {"javascript"} |->
               IF "javascript" \notin options THEN "skipped"
               ELSE IF page.html THEN s ELSE "unsupported"])
  /\ Noting("javascript", "javascript" \in options /\ s = "failed")
  /\ Same /\ UNCHANGED <<Coverage, plan>>

\* The inventory goes by the scheme of the configured URL, the vulnerability
\* rules by that of the effective one.
VulnerabilityState(s) ==
  CASE ~page.https -> "unsupported"
    [] page.https /\ "vulnerabilities" \notin options -> "skipped"
    [] OTHER -> s

Tls(s) ==
  /\ Goes("tls", "advisories")
  /\ s = "failed" => page.https
  /\ Adding([c \in {"tls", "vulnerabilities"} |->
               IF c = "vulnerabilities" THEN VulnerabilityState(s)
               ELSE IF page.target \/ s = "failed" THEN s ELSE "unsupported"])
  /\ Noting("tls", s = "failed")
  /\ Same /\ UNCHANGED <<Coverage, plan>>

\* Stale advisories are matched but do not count; of ranges that could not
\* be read there is only an error.
Advisories(stale, unreadable) ==
  /\ Goes("advisories", "crawl")
  /\ stale \/ unreadable => "snapshot" \in options
  /\ Adding([c \in {"advisories"} |-> IF stale THEN "failed" ELSE "executed"])
  /\ Noting("advisories", stale \/ unreadable)
  /\ Same /\ UNCHANGED <<Coverage, plan>>

\* Every page after the root is looked at, whole or not: only the root's
\* truncation is an error.
CrawledPage(html, truncated, found) ==
  /\ stage = "crawl" /\ "crawl" \in options
  /\ looked["crawled"] < MaxPages
  /\ Looks("crawled", html, truncated, found)
  /\ UNCHANGED <<stage, options, budget, page, status, errors, executions, Coverage, plan>>

\* The execution of the crawl is recorded at the end (Verdict).
CrawlStage(complete) ==
  /\ Goes("crawl", "browser")
  /\ complete \/ "crawl" \in options
  /\ crawled' = complete
  /\ Noting("crawl", ~complete)
  /\ Same /\ UNCHANGED <<executions, planned, plan>>

Renders == "browser" \in options /\ InPlace

\* A truncated response is not among the rendered ones.
RenderedPage(html) ==
  /\ stage = "browser" /\ Renders
  /\ looked["rendered"] < MaxPages
  /\ Looks("rendered", html, FALSE, FALSE)
  /\ UNCHANGED <<stage, options, budget, page, status, errors, executions, Coverage, plan>>

\* Some pages failed, or the whole discovery did and nothing was rendered.
Browser(s) ==
  /\ Goes("browser", "agent")
  /\ s = "exhausted" => looked["rendered"] = 0
  /\ Adding([c \in {"browser"} |-> IF Renders THEN s ELSE "skipped"])
  /\ Noting("browser", Renders /\ s # "executed")
  /\ todo' = IF "active" \in options THEN Probes ELSE {}
  /\ Same /\ UNCHANGED <<Coverage, bad, chosen, calls, sent>>

Planner == "agent" \in options /\ InPlace
Planning == stage = "agent" /\ Planner

\* Mutant: the executions that exist are not replaced.
Kept(c) == TRUE
NotReplaced(c) == c \notin Checked(chosen) \cup todo

\* Whatever the planner did not run is recorded as skipped, and what it ran
\* or skipped replaces the executions from before (the passive rules are no
\* probes, so theirs stay).
PlanEnds(complete) ==
  /\ Planning /\ stage' = "verdict"
  /\ executions' = [c \in Checks |-> [s \in States |->
                      (IF NotReplaced(c) THEN executions[c][s] ELSE 0)
                        + (IF c \in Probes THEN chosen[c][s] ELSE 0)
                        + (IF c \in todo THEN Once("skipped")[s] ELSE 0)]]
  /\ planned' = complete
  /\ Same /\ UNCHANGED <<crawled, plan>>

AllProbed == ~bad /\ todo = {}
MayAsk == calls < budget.calls

\* It is done, tells us to stop, or has no actions left.
PlanStops ==
  /\ MayAsk
  /\ PlanEnds(AllProbed)
  /\ Noting("agent", bad)

\* The provider fails or names no approved check, or the calls are used up.
PlanFails ==
  /\ (todo # {} /\ calls < budget.actions) \/ ~MayAsk
  /\ PlanEnds(FALSE)
  /\ Noting("agent", TRUE)

PlanProbes(p, fails) ==
  /\ Planning /\ MayAsk
  /\ calls < budget.actions
  /\ p \in todo /\ todo' = todo \ {p}
  /\ bad' = (bad \/ fails)
  /\ chosen' = [chosen EXCEPT ![p][IF fails THEN "failed" ELSE "executed"] = @ + 1]
  /\ calls' = calls + 1
  /\ Sent(p)
  /\ Same /\ UNCHANGED <<stage, errors, executions, Coverage>>

NoPlan ==
  /\ stage = "agent" /\ ~Planning /\ stage' = "verdict"
  /\ planned' = ("agent" \notin options)
  /\ Same /\ UNCHANGED <<errors, executions, crawled, plan>>

\* Mutant: the coverage alone decides.
Covered(late) == ~late /\ crawled /\ planned
Complete(late) == errors = {} /\ ~late /\ crawled /\ planned

Verdict(late) ==
  /\ Goes("verdict", "done")
  /\ Adding([c \in {"crawl"} |-> IF "crawl" \notin options THEN "skipped"
                                 ELSE IF crawled THEN "executed" ELSE "failed"])
  /\ Noting("verdict", late)
  /\ status' = IF Complete(late) THEN "success" ELSE "partial"
  /\ UNCHANGED <<options, budget, page, looks, Coverage, plan>>

\* What no stage catches: a tool that has to be killed at its timeout
\* (external_profile.py:128, external_scanners.py:190; see Engines), a script
\* or link reference that no URL parser accepts (javascript.py:48,
\* crawler.py:50-54), and a browser that fails before the links of a page are
\* read, or when it is closed (visual.py:347, 353; see Browser).
Raises ==
  /\ \/ stage = "external" /\ RunsTools
     \/ stage = "javascript" /\ "javascript" \in options
     \/ stage = "crawl" /\ "crawl" \in options /\ looked["crawled"] = 0
     \/ stage = "browser" /\ Renders /\ looked["rendered"] = 0
  /\ stage' = "done"
  /\ status' = "raised"
  /\ UNCHANGED <<options, budget, page, errors, executions, looks, Coverage, plan>>

Next ==
  \/ RootFails
  \/ \E p \in Pages, truncated, found \in BOOLEAN : RootAnswers(p, truncated, found)
  \/ \E failed \in BOOLEAN : SecurityTxt(failed)
  \/ \E p \in Probes, fails \in BOOLEAN : Probe(p, fails) \/ PlanProbes(p, fails)
  \/ EndProbes
  \/ \E s \in {"executed", "failed"} : Dirbuster(s) \/ External(s) \/ JavaScript(s) \/ Tls(s)
  \/ \E stale, unreadable \in BOOLEAN : Advisories(stale, unreadable)
  \/ \E html, truncated, found \in BOOLEAN : CrawledPage(html, truncated, found)
  \/ \E complete \in BOOLEAN : CrawlStage(complete)
  \/ \E html \in BOOLEAN : RenderedPage(html)
  \/ \E s \in {"executed", "failed", "exhausted"} : Browser(s)
  \/ PlanStops \/ PlanFails \/ NoPlan
  \/ \E late \in BOOLEAN : Verdict(late)
  \/ Raises

Spec == Init /\ [][Next]_vars
-----------------------------------------------------------------------------
Reported == status \in {"success", "partial"}
StateOf(c) == {s \in States : executions[c][s] > 0}

Total(tally) ==
  tally["executed"] + tally["skipped"] + tally["unsupported"] + tally["failed"] + tally["exhausted"]
PagesOf(c) ==
  IF c = "rendered" THEN looked["rendered"]
  ELSE looked["root"] + looked["crawled"] + looked["rendered"]

\* A report holds one verdict for each check of the target, whichever stages
\* ran, failed, were skipped or were replaced by the planner's, and of each
\* passive rule one for every page, the root among them.  A probe counts as
\* tried exactly when it was sent.  The planner never makes more calls or
\* actions than it was given (TypeOK).
OneVerdictPerCheck ==
  /\ TypeOK
  /\ Reported =>
    /\ \A c \in Checks : \E s \in States : executions[c] = Once(s)
    /\ looked["root"] = 1 /\ \A c \in Passive : Total(passive[c]) = PagesOf(c)
    /\ \A p \in Probes : StateOf(p) \subseteq {"executed", "failed"} <=> sent[p] > 0

\* Probes are sent only if they were asked for, only to the configured origin,
\* and never a second time, by the fixed sequence or by the planner.
ProbesAreOptedIn ==
  \A p \in Probes :
    /\ sent[p] <= 1
    /\ sent[p] > 0 => "active" \in options /\ ~page.crossed

\* A success has no check that failed or gave up: delivery and comparison
\* take what is absent from such a target for fixed.  The one exception: a
\* rule that reads bodies may have given up on crawled pages whose body was
\* truncated, but never on the root.
SuccessIsEarned ==
  status = "success" =>
    /\ \A c \in Checks : StateOf(c) \cap {"failed", "exhausted"} = {}
    /\ \A c \in Passive : /\ passive[c]["failed"] = 0
                          /\ passive[c]["exhausted"] <= IF c = "body" THEN cut ELSE 0

\* Nothing that was asked for is missing from a success, except what needs a
\* 200 and rendered pages after a redirect to another origin, which the code
\* skips without an error.
Asked ==
  (IF "active" \in options THEN Probes ELSE {})
    \cup (options \cap {"javascript", "crawl", "vulnerabilities"})
    \cup (IF page.ok THEN options \cap {"dirbuster", "external"} ELSE {})
    \cup (IF page.crossed THEN {} ELSE options \cap {"browser"})
SuccessLeavesNothingOut ==
  status = "success" => \A c \in Asked : "skipped" \notin StateOf(c)

\* orchestrator.py:89 says "errors are sanitized and retained on its result".
\* Not so: four stages raise, and the worker reports a failed target without
\* anything that was found.
ErrorsAreRetained == status # "raised"

\* The inductive invariant of ProbesAreOptedIn: the two stages that send probes
\* exclude each other, and within each what is still to do was never sent.
Before == {"root", "security"}
Unsent(S) == \A p \in S : sent[p] = 0
ProbeInv ==
  /\ sent \in [Probes -> Nat] /\ todo \subseteq Probes
  /\ ProbesAreOptedIn
  /\ stage \in Before => Unsent(Probes)
  /\ stage = "active" => Unsent(todo)
  /\ "agent" \in options /\ stage \notin {"agent", "verdict", "done"} => Unsent(Probes)
  /\ "agent" \in options /\ stage = "agent" => Unsent(todo)
  /\ stage = "agent" /\ todo # {} => "active" \in options

\* The inductive invariant of the other three.  Which checks have a verdict at
\* a stage, the probes before the planner replaces theirs:
RecordedAt(s) ==
  CASE s \in {"root", "security", "active"} -> {}
    [] s = "dirbuster" -> Probes
    [] s = "external" -> Probes \cup {"dirbuster"}
    [] s = "javascript" -> Probes \cup {"dirbuster", "external"}
    [] s = "tls" -> Probes \cup {"dirbuster", "external", "javascript"}
    [] s = "advisories" -> Checks \ {"advisories", "browser", "crawl"}
    [] s \in {"crawl", "browser"} -> Checks \ {"browser", "crawl"}
    [] s \in {"agent", "verdict"} -> Checks \ {"crawl"}
    [] s = "done" -> Checks
Live == status \notin {"failed", "raised"}
TallyInv ==
  /\ stage = "done" <=> status # "running"
  /\ Live => \A c \in Checks :
       IF c \in RecordedAt(stage) THEN \E s \in States : executions[c] = Once(s)
       ELSE executions[c] = Never

\* What the planner has made so far is apart from what it has still to do,
\* and none of its failures is forgotten.
PlanStages == {"agent", "verdict", "done"}
ChosenInv ==
  /\ \A p \in Probes : chosen[p] \in {Never, Once("executed"), Once("failed")}
  /\ stage \notin PlanStages => calls = 0
  /\ stage \notin PlanStages \/ ~Planner => \A p \in Probes : chosen[p] = Never
  /\ stage \notin PlanStages \cup {"active"} => ~bad
  /\ stage = "agent" => \A p \in Probes :
       /\ p \in todo => chosen[p] = Never
       /\ chosen[p] = Once("failed") => bad

\* The tallies of the probes tell which were sent: those of the planner once
\* it has ended, those of the fixed sequence otherwise.
TriedInv ==
  /\ Live /\ Planner => \A p \in Probes :
       /\ sent[p] > 0 <=> chosen[p] # Never
       /\ stage = "agent" /\ "active" \in options /\ p \notin todo => chosen[p] # Never
       /\ p \in RecordedAt(stage) =>
            executions[p] = IF stage \in {"verdict", "done"} /\ chosen[p] # Never THEN chosen[p]
                            ELSE Once("skipped")
  /\ Live /\ ~Planner => \A p \in Probes :
       /\ stage = "active" => (sent[p] > 0 <=> FixedProbes /\ p \notin todo)
       /\ p \in RecordedAt(stage) =>
            (sent[p] > 0 <=> executions[p] \in {Once("executed"), Once("failed")})

\* Without an error nothing has failed, and of what was asked for nothing is
\* left out but what the planner may still do.
Owed == Asked \ (IF Planner /\ ~(planned /\ stage \in {"verdict", "done"}) THEN Probes ELSE {})
FlawlessInv ==
  /\ Live /\ errors = {} =>
       /\ crawled
       /\ stage \notin Before => ~LeftOut
       /\ \A c \in Checks : executions[c] \notin {Once("failed"), Once("exhausted")}
       /\ \A c \in Owed : executions[c] # Once("skipped")
  /\ status = "success" => errors = {} /\ planned

VerdictInv == TypeOK /\ ProbeInv /\ TallyInv /\ ChosenInv /\ TriedInv /\ FlawlessInv

\* What the passive rules leave behind: one execution each for every page, and
\* none gave up but on a truncated body, the root's only with an error.
PageInv ==
  /\ looked["root"] = IF stage = "root" \/ status = "failed" THEN 0 ELSE 1
  /\ \A c \in Passive :
       /\ Total(passive[c]) = PagesOf(c)
       /\ passive[c]["failed"] = 0
       /\ c # "body" => passive[c]["exhausted"] = 0
  /\ stage = "root" => \A c \in Passive : passive[c] = Never
  /\ errors = {} => passive["body"]["exhausted"] <= cut
=============================================================================
