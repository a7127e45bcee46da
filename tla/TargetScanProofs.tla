-------------------------- MODULE TargetScanProofs --------------------------
(* Theorems about TargetScan, for every catalogue of probes, every choice of *)
(* options and all budgets of the planner.                                    *)
EXTENDS TargetScan, TLAPS

\* Every step keeps the invariant.
LEMMA ProbeInvKept ==
  ASSUME ProbeInv, [Next]_vars
  PROVE  ProbeInv'
<1> USE DEF ProbeInv, ProbesAreOptedIn, Unsent, Before
<1>1. CASE RootFails
  BY <1>1 DEF RootFails, Goes, plan
<1>2. ASSUME NEW p \in Pages, NEW truncated \in BOOLEAN, NEW found \in BOOLEAN,
             RootAnswers(p, truncated, found)
      PROVE  ProbeInv'
  BY <1>2 DEF RootAnswers, Goes, plan
<1>3. ASSUME NEW failed \in BOOLEAN, SecurityTxt(failed)
      PROVE  ProbeInv'
  BY <1>3 DEF SecurityTxt, Goes, Same
<1>4. ASSUME NEW p \in Probes, NEW fails \in BOOLEAN, Probe(p, fails)
      PROVE  ProbeInv'
  BY <1>4 DEF Probe, FixedProbes, InPlace, Same, Sent
<1>5. ASSUME NEW p \in Probes, NEW fails \in BOOLEAN, PlanProbes(p, fails)
      PROVE  ProbeInv'
  BY <1>5 DEF PlanProbes, Planning, Planner, InPlace, Same, Sent
<1>6. CASE EndProbes
  BY <1>6 DEF EndProbes, Goes, Same
<1>7. ASSUME NEW s \in {"executed", "failed"},
             Dirbuster(s) \/ External(s) \/ JavaScript(s) \/ Tls(s)
      PROVE  ProbeInv'
  BY <1>7 DEF Dirbuster, External, JavaScript, Tls, Records, Goes, Same, plan
<1>8. ASSUME NEW stale \in BOOLEAN, NEW unreadable \in BOOLEAN, Advisories(stale, unreadable)
      PROVE  ProbeInv'
  BY <1>8 DEF Advisories, Goes, Same, plan
<1>9. ASSUME NEW complete \in BOOLEAN, CrawlStage(complete)
      PROVE  ProbeInv'
  BY <1>9 DEF CrawlStage, Goes, Same, plan
<1>17. ASSUME NEW html \in BOOLEAN, NEW truncated \in BOOLEAN, NEW found \in BOOLEAN,
              CrawledPage(html, truncated, found) \/ RenderedPage(html)
       PROVE  ProbeInv'
  BY <1>17 DEF CrawledPage, RenderedPage, plan
<1>10. ASSUME NEW s \in {"executed", "failed", "exhausted"}, Browser(s)
       PROVE  ProbeInv'
  BY <1>10 DEF Browser, Goes, Same
<1>11. CASE PlanStops \/ PlanFails
  BY <1>11 DEF PlanStops, PlanFails, PlanEnds, Planning, Same, plan
<1>12. CASE NoPlan
  BY <1>12 DEF NoPlan, Same, plan
<1>13. ASSUME NEW late \in BOOLEAN, Verdict(late)
       PROVE  ProbeInv'
  BY <1>13 DEF Verdict, Goes, plan
<1>14. CASE Raises
  BY <1>14 DEF Raises, plan
<1>15. CASE UNCHANGED vars
  BY <1>15 DEF vars, plan
<1> HIDE DEF ProbeInv
<1>16. QED
  BY <1>1, <1>2, <1>3, <1>4, <1>5, <1>6, <1>7, <1>8, <1>9, <1>10, <1>11, <1>12, <1>13, <1>14, <1>15,
     <1>17 DEF Next

\* No probe is sent unasked, to another origin, or twice, by the fixed sequence
\* (run_active_checks) and the planner (run_agent) together.
THEOREM OptedIn == Spec => []ProbesAreOptedIn
<1>1. Init => ProbeInv
  BY DEF Init, ProbeInv, ProbesAreOptedIn, Unsent, Before
<1>2. ProbeInv /\ [Next]_vars => ProbeInv'
  BY ProbeInvKept
<1>3. ProbeInv => ProbesAreOptedIn
  BY DEF ProbeInv
<1>4. QED
  BY <1>1, <1>2, <1>3, PTL DEF Spec

-----------------------------------------------------------------------------
\* What one page adds to the tallies of the passive rules.
LEMMA LooksFacts ==
  ASSUME TypeOK, NEW from \in Sources, NEW html \in BOOLEAN, NEW truncated \in BOOLEAN,
         NEW found \in BOOLEAN, Looks(from, html, truncated, found)
  PROVE  /\ passive' \in [Passive -> [States -> Nat]]
         /\ looked' \in [Sources -> Nat] /\ cut' \in Nat
         /\ \A source \in Sources :
              looked'[source] = IF source = from THEN looked[source] + 1 ELSE looked[source]
         /\ cut' = IF from = "crawled" /\ truncated THEN cut + 1 ELSE cut
         /\ \A c \in Passive :
              /\ Total(passive'[c]) = Total(passive[c]) + (IF c \in Applied(from) THEN 1 ELSE 0)
              /\ passive'[c]["failed"] = passive[c]["failed"]
              /\ c # "body" \/ ~truncated => passive'[c]["exhausted"] = passive[c]["exhausted"]
              /\ passive'[c]["exhausted"] <= passive[c]["exhausted"] + 1
<1>1. ASSUME NEW c \in Passive
      PROVE  /\ passive'[c] \in [States -> Nat]
             /\ Total(passive'[c]) = Total(passive[c]) + (IF c \in Applied(from) THEN 1 ELSE 0)
             /\ passive'[c]["failed"] = passive[c]["failed"]
             /\ c # "body" \/ ~truncated => passive'[c]["exhausted"] = passive[c]["exhausted"]
             /\ passive'[c]["exhausted"] <= passive[c]["exhausted"] + 1
  <2> DEFINE s == PassiveState(c, html, truncated, found)
  <2>1. /\ s \in {"executed", "unsupported", "exhausted"}
        /\ s = "exhausted" => c = "body" /\ truncated
    BY DEF PassiveState
  <2>2. passive[c] \in [States -> Nat]
    BY DEF TypeOK
  <2>3. passive'[c] = IF c \in Applied(from) THEN [passive[c] EXCEPT ![s] = @ + 1] ELSE passive[c]
    BY <1>1 DEF Looks
  <2> HIDE DEF s
  <2>4. QED
    BY <2>1, <2>2, <2>3 DEF Total, States
<1>2. passive' \in [Passive -> [States -> Nat]]
  <2>1. passive' = [c \in Passive |-> passive'[c]]
    BY DEF Looks
  <2>2. QED
    BY <1>1, <2>1
<1>3. /\ looked' \in [Sources -> Nat] /\ cut' \in Nat
      /\ \A source \in Sources :
           looked'[source] = IF source = from THEN looked[source] + 1 ELSE looked[source]
      /\ cut' = IF from = "crawled" /\ truncated THEN cut + 1 ELSE cut
  BY DEF Looks, TypeOK
<1>4. QED
  BY <1>1, <1>2, <1>3

\* The tallies: that of a single verdict says which it is.
LEMMA OnceFacts ==
  /\ Never \in [States -> Nat]
  /\ \A t \in States : Never[t] = 0
  /\ \A s \in States :
       /\ Once(s) \in [States -> Nat]
       /\ Once(s) # Never
       /\ [Never EXCEPT ![s] = @ + 1] = Once(s)
       /\ \A t \in States : Once(s)[t] = IF t = s THEN 1 ELSE 0
  /\ \A s \in States, t \in States : Once(s) = Once(t) => s = t
<1>1. Never \in [States -> Nat] /\ \A t \in States : Never[t] = 0
  BY DEF Never
<1>2. \A s \in States : /\ Once(s) \in [States -> Nat]
                        /\ [Never EXCEPT ![s] = @ + 1] = Once(s)
                        /\ \A t \in States : Once(s)[t] = IF t = s THEN 1 ELSE 0
  <2> SUFFICES ASSUME NEW s \in States
               PROVE  /\ Once(s) \in [States -> Nat]
                      /\ [Never EXCEPT ![s] = @ + 1] = Once(s)
                      /\ \A t \in States : Once(s)[t] = IF t = s THEN 1 ELSE 0
    OBVIOUS
  <2>1. Never[s] + 1 = 1
    BY <1>1
  <2>2. [Never EXCEPT ![s] = @ + 1] = Once(s)
    BY <2>1 DEF Once
  <2>3. Once(s) \in [States -> Nat] /\ \A t \in States : Once(s)[t] = IF t = s THEN 1 ELSE 0
    BY <1>1 DEF Once
  <2>4. QED
    BY <2>2, <2>3
<1>3. \A s \in States : Once(s)[s] = 1
  BY <1>2
<1>4. \A s \in States : Once(s) # Never
  BY <1>1, <1>3
<1>5. \A s \in States, t \in States : Once(s) = Once(t) => s = t
  <2> SUFFICES ASSUME NEW s \in States, NEW t \in States, Once(s) = Once(t)
               PROVE  s = t
    OBVIOUS
  <2>1. Once(t)[s] = 1
    BY <1>3
  <2>2. QED
    BY <2>1, <1>2
<1>6. QED
  BY <1>1, <1>2, <1>4, <1>5

\* What is recorded for the first time is recorded once.
LEMMA Added ==
  ASSUME TypeOK, NEW states, Adding(states),
         \A c \in DOMAIN states : c \in Checks => states[c] \in States /\ executions[c] = Never
  PROVE  /\ executions' \in [Checks -> [States -> Nat]]
         /\ \A c \in Checks :
              executions'[c] = IF c \in DOMAIN states THEN Once(states[c]) ELSE executions[c]
<1>1. \A c \in Checks :
        executions'[c] = IF c \in DOMAIN states THEN Once(states[c]) ELSE executions[c]
  BY OnceFacts DEF Adding
<1>2. \A c \in Checks : executions'[c] \in [States -> Nat]
  BY <1>1, OnceFacts DEF TypeOK
<1>3. executions' = [c \in Checks |-> executions'[c]]
  BY DEF Adding
<1>4. QED
  BY <1>1, <1>2, <1>3

\* The checks that are new from one stage to the next.
LEMMA NewAt ==
  /\ RecordedAt("root") = {} /\ RecordedAt("security") = {} /\ RecordedAt("active") = {}
  /\ RecordedAt("dirbuster") = Probes
  /\ RecordedAt("external") = RecordedAt("dirbuster") \cup {"dirbuster"}
  /\ RecordedAt("javascript") = RecordedAt("external") \cup {"external"}
  /\ RecordedAt("tls") = RecordedAt("javascript") \cup {"javascript"}
  /\ RecordedAt("advisories") = RecordedAt("tls") \cup {"tls", "vulnerabilities"}
  /\ RecordedAt("crawl") = RecordedAt("advisories") \cup {"advisories"}
  /\ RecordedAt("browser") = RecordedAt("crawl")
  /\ RecordedAt("agent") = RecordedAt("browser") \cup {"browser"}
  /\ RecordedAt("verdict") = RecordedAt("agent")
  /\ RecordedAt("done") = RecordedAt("verdict") \cup {"crawl"}
  /\ "dirbuster" \notin RecordedAt("dirbuster")
  /\ "external" \notin RecordedAt("external")
  /\ "javascript" \notin RecordedAt("javascript")
  /\ "tls" \notin RecordedAt("tls") /\ "vulnerabilities" \notin RecordedAt("tls")
  /\ "advisories" \notin RecordedAt("advisories")
  /\ "browser" \notin RecordedAt("browser")
  /\ "crawl" \notin RecordedAt("verdict")
<1> USE TargetScanAssumption DEF Checks, StageChecks
<1>1. RecordedAt("root") = {} /\ RecordedAt("security") = {} /\ RecordedAt("active") = {}
  BY DEF RecordedAt
<1>2. RecordedAt("dirbuster") = Probes
  BY DEF RecordedAt
<1>3. RecordedAt("external") = Probes \cup {"dirbuster"}
  BY DEF RecordedAt
<1>4. RecordedAt("javascript") = Probes \cup {"dirbuster", "external"}
  BY DEF RecordedAt
<1>5. RecordedAt("tls") = Probes \cup {"dirbuster", "external", "javascript"}
  BY DEF RecordedAt
<1>6. RecordedAt("advisories") = Checks \ {"advisories", "browser", "crawl"}
  BY DEF RecordedAt
<1>7. RecordedAt("crawl") = Checks \ {"browser", "crawl"} /\ RecordedAt("browser") = RecordedAt("crawl")
  BY DEF RecordedAt
<1>8. RecordedAt("agent") = Checks \ {"crawl"} /\ RecordedAt("verdict") = RecordedAt("agent")
  BY DEF RecordedAt
<1>9. RecordedAt("done") = Checks
  BY DEF RecordedAt
<1>10. QED
  BY <1>1, <1>2, <1>3, <1>4, <1>5, <1>6, <1>7, <1>8, <1>9

\* A stage that records its own checks leaves every check with one verdict or
\* none, and those of the stages before as they were.
LEMMA StageRecords ==
  ASSUME TypeOK, TallyInv, Live, NEW states, Adding(states),
         RecordedAt(stage') = RecordedAt(stage) \cup DOMAIN states,
         \A c \in DOMAIN states : c \notin RecordedAt(stage) /\ states[c] \in States
  PROVE  /\ executions' \in [Checks -> [States -> Nat]]
         /\ \A c \in Checks :
              executions'[c] = IF c \in DOMAIN states THEN Once(states[c]) ELSE executions[c]
         /\ \A c \in Checks :
              IF c \in RecordedAt(stage') THEN \E s \in States : executions'[c] = Once(s)
              ELSE executions'[c] = Never
<1>1. \A c \in DOMAIN states : c \in Checks => states[c] \in States /\ executions[c] = Never
  BY DEF TallyInv
<1>2. /\ executions' \in [Checks -> [States -> Nat]]
      /\ \A c \in Checks :
           executions'[c] = IF c \in DOMAIN states THEN Once(states[c]) ELSE executions[c]
  BY <1>1, Added
<1>3. ASSUME NEW c \in Checks
      PROVE  IF c \in RecordedAt(stage') THEN \E s \in States : executions'[c] = Once(s)
             ELSE executions'[c] = Never
  BY <1>2, <1>3 DEF TallyInv
<1>4. QED
  BY <1>2, <1>3

\* The planner's verdicts replace those from before, and what it did not try
\* is skipped.
LEMMA PlanRecords ==
  ASSUME VerdictInv, NEW complete, PlanEnds(complete)
  PROVE  /\ executions' \in [Checks -> [States -> Nat]]
         /\ \A c \in Checks :
              executions'[c] = IF c \in Probes THEN (IF chosen[c] # Never THEN chosen[c]
                                                     ELSE Once("skipped"))
                               ELSE executions[c]
<1>1. /\ stage = "agent" /\ Planner /\ Live
      /\ TypeOK /\ ChosenInv /\ TriedInv /\ TallyInv
  BY DEF VerdictInv, TallyInv, PlanEnds, Planning, TypeOK, Live
<1> DEFINE Sum(c) == [s \in States |->
                        (IF NotReplaced(c) THEN executions[c][s] ELSE 0)
                          + (IF c \in Probes THEN chosen[c][s] ELSE 0)
                          + (IF c \in todo THEN Once("skipped")[s] ELSE 0)]
<1>2. executions' = [c \in Checks |-> Sum(c)]
  BY DEF PlanEnds
<1>3. ASSUME NEW c \in Checks \ Probes
      PROVE  Sum(c) = executions[c]
  <2>1. c \notin todo /\ NotReplaced(c) /\ executions[c] \in [States -> Nat]
    BY <1>1 DEF TypeOK, NotReplaced, Checked
  <2>2. QED
    BY <2>1
<1>4. ASSUME NEW c \in Probes
      PROVE  Sum(c) = IF chosen[c] # Never THEN chosen[c] ELSE Once("skipped")
  <2>1. /\ c \in Checks /\ chosen[c] \in [States -> Nat] /\ executions[c] \in [States -> Nat]
        /\ Once("skipped") \in [States -> Nat]
    BY <1>1, OnceFacts DEF TypeOK, Checks, States
  <2>2. CASE chosen[c] # Never
    <3>1. c \notin todo /\ ~NotReplaced(c)
      BY <1>1, <2>2 DEF ChosenInv, NotReplaced, Checked, TypeOK
    <3>2. QED
      BY <2>1, <2>2, <3>1
  <2>3. CASE chosen[c] = Never /\ c \in todo
    <3>1. ~NotReplaced(c)
      BY <2>3 DEF NotReplaced
    <3>2. \A s \in States : chosen[c][s] = 0
      BY <2>3, OnceFacts
    <3>3. QED
      BY <2>1, <2>3, <3>1, <3>2
  <2>4. CASE chosen[c] = Never /\ c \notin todo
    <3>1. NotReplaced(c)
      BY <1>1, <2>4 DEF NotReplaced, Checked, TypeOK
    <3>2. \A s \in States : chosen[c][s] = 0
      BY <2>4, OnceFacts
    <3>3. executions[c] = Once("skipped")
      BY <1>1, <2>4, NewAt DEF TriedInv
    <3>4. Sum(c) = executions[c]
      BY <2>1, <2>4, <3>1, <3>2
    <3>5. QED
      BY <2>4, <3>3, <3>4
  <2>5. QED
    BY <2>2, <2>3, <2>4
<1> HIDE DEF Sum
<1>5. \A c \in Checks :
        executions'[c] = IF c \in Probes THEN (IF chosen[c] # Never THEN chosen[c]
                                               ELSE Once("skipped"))
                         ELSE executions[c]
  BY <1>2, <1>3, <1>4
<1>6. \A c \in Checks : executions'[c] \in [States -> Nat]
  BY <1>5, <1>1, OnceFacts DEF TypeOK, States
<1>7. QED
  BY <1>2, <1>5, <1>6

\* The steps that record nothing.
LEMMA QuietSteps ==
  ASSUME VerdictInv, executions' = executions
  PROVE  /\ RootFails => VerdictInv'
         /\ \A p \in Pages, truncated \in BOOLEAN, found \in BOOLEAN :
              RootAnswers(p, truncated, found) => VerdictInv'
         /\ \A failed \in BOOLEAN : SecurityTxt(failed) => VerdictInv'
         /\ \A complete \in BOOLEAN : CrawlStage(complete) => VerdictInv'
         /\ \A html \in BOOLEAN, truncated \in BOOLEAN, found \in BOOLEAN :
              CrawledPage(html, truncated, found) \/ RenderedPage(html) => VerdictInv'
         /\ NoPlan => VerdictInv'
         /\ Raises => VerdictInv'
         /\ \A p \in Probes, fails \in BOOLEAN : Probe(p, fails) \/ PlanProbes(p, fails) => VerdictInv'
<1> USE DEF VerdictInv
<1>1. ASSUME RootFails PROVE VerdictInv'
  <2>1. Next
    BY <1>1 DEF Next
  <2>2. ProbeInv'
    BY <2>1, ProbeInvKept
  <2>3. TypeOK'
    BY <1>1 DEF RootFails, Goes, Coverage, plan, looks, TypeOK, Stages
  <2>4. TallyInv' /\ ChosenInv' /\ TriedInv' /\ FlawlessInv'
    BY <1>1 DEF RootFails, Goes, Coverage, plan, TallyInv, ChosenInv, TriedInv, FlawlessInv,
       Live, PlanStages
  <2>5. QED
    BY <2>2, <2>3, <2>4
<1>2. ASSUME NEW p \in Pages, NEW truncated \in BOOLEAN, NEW found \in BOOLEAN,
             RootAnswers(p, truncated, found)
      PROVE  VerdictInv'
  <2>1. Next
    BY <1>2 DEF Next
  <2>2. ProbeInv'
    BY <2>1, ProbeInvKept
  <2>9. Looks("root", p.html, truncated, found) /\ "root" \in Sources /\ p.html \in BOOLEAN
    BY <1>2 DEF RootAnswers, Sources, Pages
  <2>10. passive' \in [Passive -> [States -> Nat]] /\ looked' \in [Sources -> Nat] /\ cut' \in Nat
    BY <2>9, LooksFacts
  <2>3. TypeOK'
    BY <1>2, <2>10 DEF RootAnswers, Goes, Noting, Coverage, plan, TypeOK, Stages
  <2>4. TallyInv'
    BY <1>2, NewAt DEF RootAnswers, Goes, Coverage, plan, TallyInv, Live
  <2>5. ChosenInv'
    BY <1>2 DEF RootAnswers, Goes, Coverage, plan, ChosenInv, PlanStages
  <2>6. TriedInv'
    BY <1>2, NewAt DEF RootAnswers, Goes, Coverage, plan, TriedInv, ChosenInv, ProbeInv,
       Unsent, Before, Live, PlanStages
  <2>7. FlawlessInv'
    <3>1. \A c \in Checks : executions[c] = Never
      BY <1>2, NewAt DEF RootAnswers, Goes, TallyInv, Live
    <3>2. Owed' \subseteq Checks
      BY DEF Owed, Asked, Checks, StageChecks
    <3>3. \A s \in {"skipped", "failed", "exhausted"} : Once(s) # Never
      BY OnceFacts DEF States
    <3>4. errors' = {} => errors = {}
      BY <1>2 DEF RootAnswers, Noting
    <3>5. QED
      BY <1>2, <3>1, <3>2, <3>3, <3>4
         DEF RootAnswers, Goes, Coverage, FlawlessInv, TallyInv, Before, Live
  <2>8. QED
    BY <2>2, <2>3, <2>4, <2>5, <2>6, <2>7
<1>3. ASSUME NEW failed \in BOOLEAN, SecurityTxt(failed) PROVE VerdictInv'
  <2>1. Next
    BY <1>3 DEF Next
  <2>2. ProbeInv'
    BY <2>1, ProbeInvKept
  <2>3. TypeOK'
    BY <1>3 DEF SecurityTxt, Goes, Same, Coverage, looks, TypeOK, Stages
  <2>4. TallyInv'
    BY <1>3, NewAt DEF SecurityTxt, Goes, Same, TallyInv, Live
  <2>5. ChosenInv'
    BY <1>3 DEF SecurityTxt, Goes, Same, Coverage, ChosenInv, PlanStages, Planner, InPlace
  <2>6. TriedInv'
    BY <1>3, NewAt DEF SecurityTxt, Goes, Same, Coverage, TriedInv, ChosenInv, ProbeInv,
       Unsent, Before, Live, PlanStages, Planner, InPlace, FixedProbes
  <2>7. FlawlessInv'
    BY <1>3, NewAt, OnceFacts DEF SecurityTxt, Goes, Same, Coverage, FlawlessInv, TallyInv,
       TypeOK, Before, Live, LeftOut, Asked, Owed, Planner, InPlace
  <2>8. QED
    BY <2>2, <2>3, <2>4, <2>5, <2>6, <2>7
<1>4. ASSUME NEW complete \in BOOLEAN, CrawlStage(complete) PROVE VerdictInv'
  <2>1. Next
    BY <1>4 DEF Next
  <2>2. ProbeInv'
    BY <2>1, ProbeInvKept
  <2>3. TypeOK'
    BY <1>4 DEF CrawlStage, Goes, Noting, Same, plan, looks, TypeOK, Stages
  <2>4. TallyInv'
    BY <1>4, NewAt DEF CrawlStage, Goes, Same, plan, TallyInv, Live
  <2>5. ChosenInv'
    BY <1>4 DEF CrawlStage, Goes, Same, plan, ChosenInv, PlanStages, Planner, InPlace
  <2>6. TriedInv'
    BY <1>4, NewAt DEF CrawlStage, Goes, Same, plan, TriedInv, ChosenInv, Live, PlanStages,
       Planner, InPlace, FixedProbes
  <2>7. FlawlessInv'
    BY <1>4, NewAt DEF CrawlStage, Goes, Noting, Same, plan, FlawlessInv, TallyInv, TypeOK,
       Before, Live, LeftOut, Asked, Owed, Planner, InPlace
  <2>8. QED
    BY <2>2, <2>3, <2>4, <2>5, <2>6, <2>7
<1>5. ASSUME NoPlan PROVE VerdictInv'
  <2>1. Next
    BY <1>5 DEF Next
  <2>2. ProbeInv'
    BY <2>1, ProbeInvKept
  <2>3. TypeOK'
    BY <1>5 DEF NoPlan, Same, plan, looks, TypeOK, Stages
  <2>4. TallyInv'
    BY <1>5, NewAt DEF NoPlan, Same, plan, TallyInv, Live
  <2>5. ChosenInv'
    BY <1>5 DEF NoPlan, Same, plan, ChosenInv, PlanStages, Planner, Planning, InPlace
  <2>6. TriedInv'
    BY <1>5, NewAt DEF NoPlan, Same, plan, TriedInv, ChosenInv, Live, PlanStages, Planner,
       Planning, InPlace, FixedProbes
  <2>7. FlawlessInv'
    BY <1>5, NewAt DEF NoPlan, Same, plan, FlawlessInv, TallyInv, TypeOK, Before, Live,
       LeftOut, Asked, Owed, Planner, Planning, InPlace
  <2>8. QED
    BY <2>2, <2>3, <2>4, <2>5, <2>6, <2>7
<1>6. ASSUME Raises PROVE VerdictInv'
  <2>1. Next
    BY <1>6 DEF Next
  <2>2. ProbeInv'
    BY <2>1, ProbeInvKept
  <2>3. TypeOK'
    BY <1>6 DEF Raises, Coverage, plan, looks, TypeOK, Stages
  <2>4. TallyInv' /\ TriedInv' /\ FlawlessInv'
    BY <1>6 DEF Raises, Coverage, plan, TallyInv, TriedInv, FlawlessInv, Live
  <2>5. ChosenInv'
    BY <1>6 DEF Raises, Coverage, plan, ChosenInv, PlanStages, Planner, InPlace
  <2>6. QED
    BY <2>2, <2>3, <2>4, <2>5
<1>7. ASSUME NEW p \in Probes, NEW fails \in BOOLEAN, Probe(p, fails) PROVE VerdictInv'
  <2>1. Next
    BY <1>7 DEF Next
  <2>2. ProbeInv'
    BY <2>1, ProbeInvKept
  <2>3. TypeOK'
    BY <1>7 DEF Probe, Same, Sent, Coverage, looks, TypeOK
  <2>4. TallyInv'
    BY <1>7 DEF Probe, Same, TallyInv, Live
  <2>5. ChosenInv'
    BY <1>7 DEF Probe, Same, Coverage, ChosenInv, PlanStages, Planner, InPlace
  <2>6. TriedInv'
    BY <1>7, NewAt DEF Probe, Same, Sent, Coverage, TriedInv, ProbeInv, Live, Planner, InPlace,
       FixedProbes
  <2>7. FlawlessInv'
    BY <1>7 DEF Probe, Same, Coverage, FlawlessInv, Live, LeftOut, Asked, Owed, Planner, InPlace
  <2>8. QED
    BY <2>2, <2>3, <2>4, <2>5, <2>6, <2>7
<1>8. ASSUME NEW p \in Probes, NEW fails \in BOOLEAN, PlanProbes(p, fails) PROVE VerdictInv'
  <2>1. Next
    BY <1>8 DEF Next
  <2>2. ProbeInv'
    BY <2>1, ProbeInvKept
  <2> DEFINE s == IF fails THEN "failed" ELSE "executed"
  <2>3. /\ s \in States /\ chosen[p] = Never
        /\ chosen' = [chosen EXCEPT ![p] = Once(s)]
    BY <1>8, OnceFacts DEF PlanProbes, Planning, ChosenInv, TypeOK, States
  <2>4. Once(s) \in [States -> Nat] /\ Once(s) # Never
    BY <2>3, OnceFacts
  <2>5. TypeOK'
    BY <1>8, <2>3, <2>4, TargetScanAssumption DEF PlanProbes, MayAsk, Same, Sent, Coverage, looks,
       TypeOK
  <2>6. TallyInv'
    BY <1>8 DEF PlanProbes, Same, TallyInv, Live
  <2>7. ChosenInv'
    BY <1>8, <2>3, OnceFacts DEF PlanProbes, Planning, Same, Coverage, ChosenInv, PlanStages,
       Planner, InPlace, TypeOK, States
  <2>8. TriedInv'
    BY <1>8, <2>3, <2>4 DEF PlanProbes, Planning, Same, Sent, Coverage, TriedInv, ProbeInv,
       Live, Planner, InPlace, FixedProbes, TypeOK
  <2>9. FlawlessInv'
    BY <1>8 DEF PlanProbes, Same, Coverage, FlawlessInv, Live, LeftOut, Asked, Owed, Planner,
       InPlace
  <2>10. QED
    BY <2>2, <2>5, <2>6, <2>7, <2>8, <2>9
<1>10. ASSUME NEW html \in BOOLEAN, NEW truncated \in BOOLEAN, NEW found \in BOOLEAN,
              CrawledPage(html, truncated, found) \/ RenderedPage(html)
       PROVE  VerdictInv'
  <2>1. Next
    BY <1>10 DEF Next
  <2>2. ProbeInv'
    BY <2>1, ProbeInvKept
  <2>3. PICK from \in Sources, cutOff \in BOOLEAN, read \in BOOLEAN :
          Looks(from, html, cutOff, read)
    BY <1>10 DEF CrawledPage, RenderedPage, Sources
  <2>4. UNCHANGED <<stage, options, budget, page, status, errors, executions, Coverage, plan>>
    BY <1>10 DEF CrawledPage, RenderedPage
  <2>5. TypeOK'
    BY <2>3, <2>4, LooksFacts DEF Coverage, plan, TypeOK
  <2>6. TallyInv' /\ ChosenInv'
    BY <2>4 DEF Coverage, plan, TallyInv, ChosenInv, Live, Planner, InPlace
  <2>7. TriedInv'
    BY <2>4 DEF Coverage, plan, TriedInv, Live, Planner, InPlace, FixedProbes
  <2>8. FlawlessInv'
    BY <2>4 DEF Coverage, plan, FlawlessInv, Live, LeftOut, Owed, Asked, Planner, InPlace
  <2>9. QED
    BY <2>2, <2>5, <2>6, <2>7, <2>8
<1> HIDE DEF VerdictInv
<1>9. QED
  BY <1>1, <1>2, <1>3, <1>4, <1>5, <1>6, <1>7, <1>8, <1>10

\* The end of the probes: one verdict for each, that of the fixed sequence if
\* it ran.
LEMMA EndOfProbes ==
  ASSUME VerdictInv, EndProbes
  PROVE  VerdictInv'
<1> USE DEF VerdictInv
<1> DEFINE states == [p \in Probes |-> IF FixedProbes THEN ProbeState ELSE "skipped"]
<1>1. ProbeInv'
  <2>1. Next
    BY DEF Next
  <2>2. QED
    BY <2>1, ProbeInvKept
<1>2. /\ stage = "active" /\ stage' = "dirbuster" /\ status = "running" /\ status' = status
      /\ UNCHANGED <<options, budget, page, looks, crawled, planned, chosen, calls, sent>>
      /\ todo' = {} /\ bad' = FALSE /\ (FixedProbes => todo = {})
      /\ errors' = IF bad THEN errors \cup {"active"} ELSE errors
  BY DEF EndProbes, Goes, Noting, Same, Coverage, TallyInv, TypeOK
<1>3. /\ Adding(states) /\ DOMAIN states = Probes
      /\ \A p \in Probes : states[p] = IF FixedProbes THEN ProbeState ELSE "skipped"
      /\ \A p \in Probes : states[p] \in States
  BY DEF EndProbes, ProbeState, States
<1> HIDE DEF states
<1>4. /\ executions' \in [Checks -> [States -> Nat]]
      /\ \A c \in Checks :
           executions'[c] = IF c \in Probes THEN Once(states[c]) ELSE executions[c]
      /\ \A c \in Checks :
           IF c \in RecordedAt("dirbuster") THEN \E s \in States : executions'[c] = Once(s)
           ELSE executions'[c] = Never
  BY <1>2, <1>3, NewAt, StageRecords DEF Live
<1>5. \A p \in Probes : p \in Checks /\ executions'[p] = Once(states[p])
  BY <1>4 DEF Checks
<1>6. /\ \A s \in {"skipped", "failed", "exhausted"} : Once(s) # Never /\ Once(s) # Once("executed")
      /\ Once("skipped") \notin {Once("failed"), Once("exhausted")}
      /\ Once("failed") # Once("exhausted")
  BY OnceFacts DEF States
<1>7. TypeOK'
  BY <1>2, <1>4 DEF looks, TypeOK, Stages
<1>8. TallyInv'
  BY <1>2, <1>4 DEF TallyInv, Live
<1>9. ChosenInv'
  BY <1>2 DEF ChosenInv, PlanStages, Planner, InPlace
<1>10. TriedInv'
  BY <1>2, <1>3, <1>5, <1>6, NewAt
     DEF TriedInv, ChosenInv, Live, PlanStages, Planner, InPlace, FixedProbes, ProbeState
<1>11. FlawlessInv'
  <2> SUFFICES ASSUME errors' = {}
               PROVE  /\ crawled
                      /\ ~LeftOut'
                      /\ \A c \in Checks : executions'[c] \notin {Once("failed"), Once("exhausted")}
                      /\ \A c \in Owed' : executions'[c] # Once("skipped")
    BY <1>2 DEF FlawlessInv, Live
  <2>1. errors = {} /\ ~bad /\ crawled /\ ~LeftOut /\ ~LeftOut'
    BY <1>2 DEF FlawlessInv, Live, LeftOut, Before
  <2>2. \A p \in Probes : executions'[p] = IF FixedProbes THEN Once("executed") ELSE Once("skipped")
    BY <1>3, <1>5, <2>1 DEF ProbeState
  <2>3. \A c \in Checks \ Probes : executions'[c] = Never
    BY <1>4, NewAt
  <2>4. Owed' \subseteq Checks /\ \A p \in Owed' \cap Probes : FixedProbes
    BY <1>2, <2>1, TargetScanAssumption
       DEF Owed, Asked, Checks, StageChecks, Planner, InPlace, FixedProbes, LeftOut, Optional
  <2>5. QED
    BY <2>1, <2>2, <2>3, <2>4, <1>6
<1>12. QED
  BY <1>1, <1>7, <1>8, <1>9, <1>10, <1>11


\* A stage that records checks of its own, and reports an error if one of them
\* fails or is skipped although it was asked for.
OwnStages == {"dirbuster", "external", "javascript", "tls", "advisories", "browser"}
LEMMA StageKeeps ==
  ASSUME VerdictInv, NEW states, Adding(states),
         stage \in OwnStages,
         stage' \in Stages \ {"root", "security", "active", "verdict", "done"},
         stage' = "agent" => stage = "browser",
         RecordedAt(stage') = RecordedAt(stage) \cup DOMAIN states,
         \A c \in DOMAIN states : c \in StageChecks \ RecordedAt(stage) /\ states[c] \in States,
         UNCHANGED <<options, budget, page, status, looks, crawled, planned, bad, chosen, calls, sent>>,
         todo' \subseteq Probes,
         stage' = "agent" => todo' = IF "active" \in options THEN Probes ELSE {},
         errors \subseteq errors' /\ errors' \subseteq Stages,
         errors' = {} /\ ~LeftOut =>
           \A c \in DOMAIN states : /\ states[c] \notin {"failed", "exhausted"}
                                    /\ states[c] = "skipped" => c \notin Asked
  PROVE  TypeOK' /\ TallyInv' /\ ChosenInv' /\ TriedInv' /\ FlawlessInv'
<1> USE DEF VerdictInv, OwnStages
<1>1. Live /\ status = "running"
  BY DEF TallyInv, Live, TypeOK
<1>2. /\ executions' \in [Checks -> [States -> Nat]]
      /\ \A c \in Checks :
           executions'[c] = IF c \in DOMAIN states THEN Once(states[c]) ELSE executions[c]
      /\ \A c \in Checks :
           IF c \in RecordedAt(stage') THEN \E s \in States : executions'[c] = Once(s)
           ELSE executions'[c] = Never
  BY <1>1, StageRecords
<1>3. \A p \in Probes : executions'[p] = executions[p]
  BY <1>2, TargetScanAssumption DEF Checks
<1>4. \A p \in Probes : p \in RecordedAt(stage)
  BY NewAt DEF Checks
<1>5. TypeOK'
  BY <1>2 DEF looks, TypeOK
<1>6. TallyInv'
  BY <1>1, <1>2 DEF TallyInv, Live
<1>7. ChosenInv'
  <2>1. ~bad /\ calls = 0 /\ \A p \in Probes : chosen[p] = Never
    BY DEF ChosenInv, PlanStages
  <2>2. \A s \in {"executed", "failed"} : Once(s) # Never
    BY OnceFacts DEF States
  <2>3. QED
    BY <2>1, <2>2 DEF ChosenInv
<1>8. TriedInv'
  <2>1. \A p \in Probes : chosen[p] = Never
    BY DEF ChosenInv, PlanStages
  <2>2. Live' = Live /\ Planner' = Planner
    BY DEF Live, Planner, InPlace
  <2>3. QED
    BY <2>1, <2>2, <1>3, <1>4 DEF TriedInv
<1>9. FlawlessInv'
  <2> SUFFICES ASSUME errors' = {}
               PROVE  /\ crawled
                      /\ ~LeftOut'
                      /\ \A c \in Checks : executions'[c] \notin {Once("failed"), Once("exhausted")}
                      /\ \A c \in Owed' : executions'[c] # Once("skipped")
    BY <1>1 DEF FlawlessInv, Live
  <2>1. /\ errors = {} /\ crawled /\ ~LeftOut /\ ~LeftOut'
        /\ \A c \in Checks : executions[c] \notin {Once("failed"), Once("exhausted")}
        /\ \A c \in Owed : executions[c] # Once("skipped")
    BY <1>1 DEF FlawlessInv, LeftOut, Before
  <2>2. ASSUME NEW c \in DOMAIN states
        PROVE  /\ Once(states[c]) \notin {Once("failed"), Once("exhausted")}
               /\ c \in Asked => Once(states[c]) # Once("skipped")
    BY <2>1, OnceFacts DEF States
  <2>3. Owed' = Owed /\ Owed \subseteq Asked /\ Owed \subseteq Checks
    BY DEF Owed, Asked, Checks, StageChecks, Planner, InPlace
  <2>4. QED
    BY <1>2, <2>1, <2>2, <2>3
<1>10. QED
  BY <1>5, <1>6, <1>7, <1>8, <1>9

\* Each of these stages is such a step.
LEMMA RecordsKeeps ==
  ASSUME VerdictInv, NEW check \in StageChecks, NEW runs \in BOOLEAN,
         NEW s \in {"executed", "failed", "unsupported"},
         Records(check, runs, s), UNCHANGED Coverage,
         stage \in OwnStages,
         stage' \in Stages \ {"root", "security", "active", "agent", "verdict", "done"},
         RecordedAt(stage') = RecordedAt(stage) \cup {check},
         check \notin RecordedAt(stage),
         ~LeftOut /\ ~runs => check \notin Asked
  PROVE  TypeOK' /\ TallyInv' /\ ChosenInv' /\ TriedInv' /\ FlawlessInv'
<1> DEFINE states == [c \in {check} |-> IF runs THEN s ELSE "skipped"]
<1>1. /\ Adding(states) /\ DOMAIN states = {check}
      /\ states[check] = IF runs THEN s ELSE "skipped"
  BY DEF Records
<1> HIDE DEF states
<1>2. /\ UNCHANGED <<options, budget, page, status, looks, crawled, planned, todo, bad, chosen, calls, sent>>
      /\ errors' = IF runs /\ s = "failed" THEN errors \cup {stage} ELSE errors
  BY DEF Records, Same, Noting, Coverage, plan
<1>3. todo \subseteq Probes /\ errors \subseteq Stages /\ stage \in Stages
  BY DEF VerdictInv, TypeOK
<1>4. \A c \in DOMAIN states : c \in StageChecks \ RecordedAt(stage) /\ states[c] \in States
  BY <1>1 DEF States
<1>5. errors' = {} /\ ~LeftOut =>
        \A c \in DOMAIN states : /\ states[c] \notin {"failed", "exhausted"}
                                 /\ states[c] = "skipped" => c \notin Asked
  BY <1>1, <1>2
<1>6. QED
  BY <1>1, <1>2, <1>3, <1>4, <1>5, StageKeeps

LEMMA OwnSteps ==
  ASSUME VerdictInv
  PROVE  /\ \A s \in {"executed", "failed"} :
              Dirbuster(s) \/ External(s) \/ JavaScript(s) \/ Tls(s) => VerdictInv'
         /\ \A stale \in BOOLEAN, unreadable \in BOOLEAN : Advisories(stale, unreadable) => VerdictInv'
         /\ \A s \in {"executed", "failed", "exhausted"} : Browser(s) => VerdictInv'
<1>1. Next => ProbeInv'
  BY ProbeInvKept DEF VerdictInv
<1>2. /\ todo \subseteq Probes /\ errors \subseteq Stages /\ stage \in Stages
      /\ options \subseteq OptIns /\ page \in Pages /\ Optional \subseteq OptIns
  BY TargetScanAssumption DEF VerdictInv, TypeOK, Optional, OptIns
<1>3. ASSUME NEW s \in {"executed", "failed"}, Dirbuster(s) PROVE VerdictInv'
  <2> DEFINE runs == page.ok /\ "dirbuster" \in options /\ InPlace
  <2>1. /\ stage = "dirbuster" /\ stage' = "external" /\ Records("dirbuster", runs, s)
        /\ UNCHANGED Coverage
    BY <1>3 DEF Dirbuster, Goes
  <2>2. runs \in BOOLEAN /\ (~LeftOut /\ ~runs => "dirbuster" \notin Asked)
    BY <1>2, TargetScanAssumption DEF Asked, LeftOut, InPlace, Optional, StageChecks, Pages
  <2> HIDE DEF runs
  <2>3. TypeOK' /\ TallyInv' /\ ChosenInv' /\ TriedInv' /\ FlawlessInv'
    BY <2>1, <2>2, NewAt, RecordsKeeps DEF OwnStages, StageChecks, Stages
  <2>4. QED
    BY <1>1, <1>3, <2>3 DEF Next, VerdictInv
<1>4. ASSUME NEW s \in {"executed", "failed"}, External(s) PROVE VerdictInv'
  <2> DEFINE runs == RunsTools
  <2>1. /\ stage = "external" /\ stage' = "javascript" /\ Records("external", runs, s)
        /\ UNCHANGED Coverage
    BY <1>4 DEF External, Goes
  <2>2. runs \in BOOLEAN /\ (~LeftOut /\ ~runs => "external" \notin Asked)
    BY <1>2, TargetScanAssumption DEF Asked, LeftOut, InPlace, Optional, StageChecks, Pages,
       RunsTools
  <2> HIDE DEF runs
  <2>3. TypeOK' /\ TallyInv' /\ ChosenInv' /\ TriedInv' /\ FlawlessInv'
    BY <2>1, <2>2, NewAt, RecordsKeeps DEF OwnStages, StageChecks, Stages
  <2>4. QED
    BY <1>1, <1>4, <2>3 DEF Next, VerdictInv
<1>5. ASSUME NEW s \in {"executed", "failed"}, JavaScript(s) PROVE VerdictInv'
  <2> DEFINE state == IF "javascript" \notin options THEN "skipped"
                      ELSE IF page.html THEN s ELSE "unsupported"
             states == [c \in {"javascript"} |-> state]
  <2>1. /\ stage = "javascript" /\ stage' = "tls" /\ Adding(states)
        /\ DOMAIN states = {"javascript"} /\ states["javascript"] = state
    BY <1>5 DEF JavaScript, Goes
  <2> HIDE DEF states
  <2>2. /\ UNCHANGED <<options, budget, page, status, looks, crawled, planned, todo, bad, chosen, calls, sent>>
        /\ errors' = IF "javascript" \in options /\ s = "failed" THEN errors \cup {"javascript"}
                     ELSE errors
    BY <1>5 DEF JavaScript, Same, Noting, Coverage, plan
  <2>3. "javascript" \notin options => "javascript" \notin Asked
    BY TargetScanAssumption DEF Asked, StageChecks
  <2>4. \A c \in DOMAIN states : c \in StageChecks \ RecordedAt(stage) /\ states[c] \in States
    BY <1>5, <2>1, NewAt DEF States, StageChecks
  <2>5. errors' = {} /\ ~LeftOut =>
          \A c \in DOMAIN states : /\ states[c] \notin {"failed", "exhausted"}
                                   /\ states[c] = "skipped" => c \notin Asked
    BY <1>5, <2>1, <2>2, <2>3
  <2>6. TypeOK' /\ TallyInv' /\ ChosenInv' /\ TriedInv' /\ FlawlessInv'
    BY <1>2, <2>1, <2>2, <2>4, <2>5, NewAt, StageKeeps DEF OwnStages, Stages
  <2>7. QED
    BY <1>1, <1>5, <2>6 DEF Next, VerdictInv
<1>6. ASSUME NEW s \in {"executed", "failed"}, Tls(s) PROVE VerdictInv'
  <2> DEFINE states == [c \in {"tls", "vulnerabilities"} |->
                          IF c = "vulnerabilities" THEN VulnerabilityState(s)
                          ELSE IF page.target \/ s = "failed" THEN s ELSE "unsupported"]
  <2>1. /\ stage = "tls" /\ stage' = "advisories" /\ Adding(states)
        /\ DOMAIN states = {"tls", "vulnerabilities"}
        /\ states["tls"] = IF page.target \/ s = "failed" THEN s ELSE "unsupported"
        /\ states["vulnerabilities"] = VulnerabilityState(s)
    BY <1>6 DEF Tls, Goes
  <2> HIDE DEF states
  <2>2. /\ UNCHANGED <<options, budget, page, status, looks, crawled, planned, todo, bad, chosen, calls, sent>>
        /\ errors' = IF s = "failed" THEN errors \cup {"tls"} ELSE errors
    BY <1>6 DEF Tls, Same, Noting, Coverage, plan
  <2>3. /\ VulnerabilityState(s) \in {"unsupported", "skipped", s}
        /\ VulnerabilityState(s) = "skipped" => "vulnerabilities" \notin options
    BY <1>6 DEF VulnerabilityState
  <2>4. /\ "vulnerabilities" \notin options => "vulnerabilities" \notin Asked
        /\ "tls" \notin Asked
    BY TargetScanAssumption DEF Asked, StageChecks
  <2>5. \A c \in DOMAIN states : c \in StageChecks \ RecordedAt(stage) /\ states[c] \in States
    BY <1>6, <2>1, <2>3, NewAt DEF States, StageChecks
  <2>6. errors' = {} /\ ~LeftOut =>
          \A c \in DOMAIN states : /\ states[c] \notin {"failed", "exhausted"}
                                   /\ states[c] = "skipped" => c \notin Asked
    BY <1>6, <2>1, <2>2, <2>3, <2>4
  <2>7. TypeOK' /\ TallyInv' /\ ChosenInv' /\ TriedInv' /\ FlawlessInv'
    BY <1>2, <2>1, <2>2, <2>5, <2>6, NewAt, StageKeeps DEF OwnStages, Stages
  <2>8. QED
    BY <1>1, <1>6, <2>7 DEF Next, VerdictInv
<1>7. ASSUME NEW stale \in BOOLEAN, NEW unreadable \in BOOLEAN, Advisories(stale, unreadable)
      PROVE  VerdictInv'
  <2> DEFINE states == [c \in {"advisories"} |-> IF stale THEN "failed" ELSE "executed"]
  <2>1. /\ stage = "advisories" /\ stage' = "crawl" /\ Adding(states)
        /\ DOMAIN states = {"advisories"}
        /\ states["advisories"] = IF stale THEN "failed" ELSE "executed"
    BY <1>7 DEF Advisories, Goes
  <2> HIDE DEF states
  <2>2. /\ UNCHANGED <<options, budget, page, status, looks, crawled, planned, todo, bad, chosen, calls, sent>>
        /\ errors' = IF stale \/ unreadable THEN errors \cup {"advisories"} ELSE errors
    BY <1>7 DEF Advisories, Same, Noting, Coverage, plan
  <2>3. \A c \in DOMAIN states : c \in StageChecks \ RecordedAt(stage) /\ states[c] \in States
    BY <2>1, NewAt DEF States, StageChecks
  <2>4. errors' = {} /\ ~LeftOut =>
          \A c \in DOMAIN states : /\ states[c] \notin {"failed", "exhausted"}
                                   /\ states[c] = "skipped" => c \notin Asked
    BY <2>1, <2>2
  <2>5. TypeOK' /\ TallyInv' /\ ChosenInv' /\ TriedInv' /\ FlawlessInv'
    BY <1>2, <2>1, <2>2, <2>3, <2>4, NewAt, StageKeeps DEF OwnStages, Stages
  <2>6. QED
    BY <1>1, <1>7, <2>5 DEF Next, VerdictInv
<1>8. ASSUME NEW s \in {"executed", "failed", "exhausted"}, Browser(s) PROVE VerdictInv'
  <2> DEFINE runs == Renders
             states == [c \in {"browser"} |-> IF runs THEN s ELSE "skipped"]
  <2>1. /\ stage = "browser" /\ stage' = "agent" /\ Adding(states)
        /\ DOMAIN states = {"browser"}
        /\ states["browser"] = IF runs THEN s ELSE "skipped"
    BY <1>8 DEF Browser, Goes
  <2>2. ~runs => "browser" \notin Asked
    BY TargetScanAssumption DEF Asked, StageChecks, InPlace, Renders
  <2>3. errors' = IF runs /\ s # "executed" THEN errors \cup {"browser"} ELSE errors
    BY <1>8 DEF Browser, Noting
  <2> HIDE DEF runs, states
  <2>4. /\ UNCHANGED <<options, budget, page, status, looks, crawled, planned, bad, chosen, calls, sent>>
        /\ todo' = IF "active" \in options THEN Probes ELSE {}
    BY <1>8 DEF Browser, Same, Coverage
  <2>5. \A c \in DOMAIN states : c \in StageChecks \ RecordedAt(stage) /\ states[c] \in States
    BY <1>8, <2>1, NewAt DEF States, StageChecks
  <2>6. errors' = {} /\ ~LeftOut =>
          \A c \in DOMAIN states : /\ states[c] \notin {"failed", "exhausted"}
                                   /\ states[c] = "skipped" => c \notin Asked
    BY <1>8, <2>1, <2>2, <2>3
  <2>7. TypeOK' /\ TallyInv' /\ ChosenInv' /\ TriedInv' /\ FlawlessInv'
    BY <1>2, <2>1, <2>3, <2>4, <2>5, <2>6, NewAt, StageKeeps DEF OwnStages, Stages
  <2>8. QED
    BY <1>1, <1>8, <2>7 DEF Next, VerdictInv
<1>9. QED
  BY <1>3, <1>4, <1>5, <1>6, <1>7, <1>8

\* The planner's end: a verdict for every probe, and complete only when each
\* was tried and none failed.
LEMMA PlannerSteps ==
  ASSUME VerdictInv, PlanStops \/ PlanFails
  PROVE  VerdictInv'
<1> USE DEF VerdictInv
<1>1. PICK complete \in BOOLEAN :
        /\ PlanEnds(complete)
        /\ complete => ~bad /\ todo = {}
        /\ errors \subseteq errors' /\ errors' \subseteq errors \cup {"agent"}
        /\ bad => errors' # {}
  BY DEF PlanStops, PlanFails, AllProbed, Noting, TypeOK
<1>2. ProbeInv'
  <2>1. Next
    BY DEF Next
  <2>2. QED
    BY <2>1, ProbeInvKept
<1>3. /\ stage = "agent" /\ stage' = "verdict" /\ Planner /\ planned' = complete
      /\ status = "running" /\ status' = status
      /\ UNCHANGED <<options, budget, page, looks, crawled, todo, bad, chosen, calls, sent>>
  BY <1>1 DEF PlanEnds, Planning, Same, plan, TallyInv, TypeOK
<1>4. Planner' = Planner /\ Live /\ Live' /\ LeftOut' = LeftOut
  BY <1>3 DEF Planner, InPlace, Live, LeftOut
<1>5. /\ executions' \in [Checks -> [States -> Nat]]
      /\ \A c \in Checks :
           executions'[c] = IF c \in Probes THEN (IF chosen[c] # Never THEN chosen[c]
                                                  ELSE Once("skipped"))
                            ELSE executions[c]
  BY <1>1, PlanRecords
<1>6. \A p \in Probes : p \in Checks /\ chosen[p] \in {Never, Once("executed"), Once("failed")}
  BY DEF Checks, ChosenInv
<1>7. /\ \A s \in {"executed", "failed", "skipped", "exhausted"} : s \in States /\ Once(s) # Never
      /\ Once("executed") # Once("skipped") /\ Once("failed") # Once("skipped")
      /\ Once("executed") \notin {Once("failed"), Once("exhausted")}
      /\ Once("skipped") \notin {Once("failed"), Once("exhausted")}
  BY OnceFacts DEF States
<1>8. TypeOK'
  BY <1>1, <1>3, <1>5 DEF looks, TypeOK, Stages
<1>9. TallyInv'
  <2>1. RecordedAt("verdict") = RecordedAt("agent") /\ \A p \in Probes : p \in RecordedAt("agent")
    BY NewAt
  <2>2. ASSUME NEW c \in Checks
        PROVE  IF c \in RecordedAt("verdict") THEN \E s \in States : executions'[c] = Once(s)
               ELSE executions'[c] = Never
    BY <1>3, <1>4, <1>5, <1>6, <1>7, <2>1 DEF TallyInv
  <2>3. QED
    BY <1>3, <2>2 DEF TallyInv
<1>10. ChosenInv'
  BY <1>3, <1>4 DEF ChosenInv, PlanStages
<1>11. TriedInv'
  <2>1. \A p \in Probes : sent[p] > 0 <=> chosen[p] # Never
    BY <1>3, <1>4 DEF TriedInv
  <2>2. \A p \in Probes : executions'[p] = IF chosen[p] # Never THEN chosen[p] ELSE Once("skipped")
    BY <1>5, <1>6
  <2>3. QED
    BY <1>3, <1>4, <2>1, <2>2 DEF TriedInv
<1>12. FlawlessInv'
  <2> SUFFICES ASSUME errors' = {}
               PROVE  /\ crawled
                      /\ ~LeftOut
                      /\ \A c \in Checks : executions'[c] \notin {Once("failed"), Once("exhausted")}
                      /\ \A c \in Owed' : executions'[c] # Once("skipped")
    BY <1>3, <1>4 DEF FlawlessInv
  <2>1. /\ errors = {} /\ crawled /\ ~LeftOut /\ ~bad
        /\ \A c \in Checks : executions[c] \notin {Once("failed"), Once("exhausted")}
        /\ \A c \in Owed : executions[c] # Once("skipped")
    BY <1>1, <1>3, <1>4 DEF FlawlessInv, Before
  <2>2. \A p \in Probes : chosen[p] \in {Never, Once("executed")}
    BY <1>3, <1>6, <2>1 DEF ChosenInv
  <2>3. \A c \in Checks : executions'[c] \notin {Once("failed"), Once("exhausted")}
    BY <1>5, <1>7, <2>1, <2>2
  <2>4. ASSUME NEW c \in Owed'
        PROVE  executions'[c] # Once("skipped")
    <3>1. c \in Asked /\ c \in Checks
      BY <1>3, <2>4 DEF Owed, Asked, Checks, StageChecks
    <3>2. CASE c \in Probes
      <4>1. complete
        BY <1>3, <1>4, <2>4, <3>2 DEF Owed
      <4>2. "active" \in options
        BY <3>1, <3>2, TargetScanAssumption DEF Asked, StageChecks
      <4>3. chosen[c] # Never
        BY <1>1, <1>3, <1>4, <4>1, <4>2, <3>2 DEF TriedInv
      <4>4. QED
        BY <1>5, <1>7, <2>2, <3>1, <3>2, <4>3
    <3>3. CASE c \notin Probes
      BY <1>3, <1>5, <2>1, <3>1, <3>3 DEF Owed
    <3>4. QED
      BY <3>2, <3>3
  <2>5. QED
    BY <2>1, <2>3, <2>4
<1>13. QED
  BY <1>2, <1>8, <1>9, <1>10, <1>11, <1>12

\* The verdict: the crawl is recorded, and only what is flawless is a success.
LEMMA VerdictStep ==
  ASSUME VerdictInv, NEW late \in BOOLEAN, Verdict(late)
  PROVE  VerdictInv'
<1> USE DEF VerdictInv
<1> DEFINE state == IF "crawl" \notin options THEN "skipped"
                    ELSE IF crawled THEN "executed" ELSE "failed"
           states == [c \in {"crawl"} |-> state]
<1>1. ProbeInv'
  <2>1. Next
    BY DEF Next
  <2>2. QED
    BY <2>1, ProbeInvKept
<1>2. /\ stage = "verdict" /\ stage' = "done" /\ status = "running"
      /\ status' = IF errors = {} /\ ~late /\ crawled /\ planned THEN "success" ELSE "partial"
      /\ errors' = IF late THEN errors \cup {"verdict"} ELSE errors
      /\ UNCHANGED <<options, budget, page, looks, crawled, planned, todo, bad, chosen, calls,
                     sent>>
  BY DEF Verdict, Goes, Noting, Complete, Coverage, plan, TallyInv, TypeOK
<1>3. /\ Live /\ Live' /\ status' # "running" /\ Planner' = Planner
  BY <1>2 DEF Live, Planner, InPlace
<1>4. Adding(states) /\ DOMAIN states = {"crawl"} /\ states["crawl"] = state /\ state \in States
  BY DEF Verdict, States
<1> HIDE DEF states
<1>5. /\ executions' \in [Checks -> [States -> Nat]]
      /\ \A c \in Checks :
           executions'[c] = IF c = "crawl" THEN Once(state) ELSE executions[c]
      /\ \A c \in Checks :
           IF c \in RecordedAt("done") THEN \E s \in States : executions'[c] = Once(s)
           ELSE executions'[c] = Never
  <2>1. /\ RecordedAt(stage') = RecordedAt(stage) \cup DOMAIN states
        /\ \A c \in DOMAIN states : c \notin RecordedAt(stage) /\ states[c] \in States
    BY <1>2, <1>4, NewAt
  <2>2. QED
    BY <1>2, <1>3, <1>4, <2>1, StageRecords
<1> HIDE DEF state
<1>6. TypeOK'
  BY <1>2, <1>5 DEF looks, TypeOK, Stages
<1>7. TallyInv'
  BY <1>2, <1>3, <1>5 DEF TallyInv
<1>8. ChosenInv'
  BY <1>2, <1>3 DEF ChosenInv, PlanStages
<1>9. TriedInv'
  <2>1. \A p \in Probes : /\ executions'[p] = executions[p]
                          /\ p \in RecordedAt("done") /\ p \in RecordedAt("verdict")
    BY <1>5, NewAt, TargetScanAssumption DEF Checks, StageChecks
  <2>2. QED
    BY <1>2, <1>3, <2>1 DEF TriedInv
<1>10. FlawlessInv'
  <2>1. status' = "success" => errors' = {} /\ planned'
    BY <1>2
  <2> SUFFICES ASSUME errors' = {}
               PROVE  /\ crawled'
                      /\ ~LeftOut'
                      /\ \A c \in Checks : executions'[c] \notin {Once("failed"), Once("exhausted")}
                      /\ \A c \in Owed' : executions'[c] # Once("skipped")
    BY <2>1 DEF FlawlessInv
  <2>2. /\ errors = {} /\ crawled /\ ~LeftOut
        /\ \A c \in Checks : executions[c] \notin {Once("failed"), Once("exhausted")}
        /\ \A c \in Owed : executions[c] # Once("skipped")
    BY <1>2, <1>3 DEF FlawlessInv, Before
  <2>3. state = IF "crawl" \notin options THEN "skipped" ELSE "executed"
    BY <2>2 DEF state
  <2>4. /\ Once(state) \notin {Once("failed"), Once("exhausted")}
        /\ "crawl" \in options => Once(state) # Once("skipped")
    BY <2>3, OnceFacts DEF States
  <2>5. /\ Owed' = Owed /\ Owed \subseteq Checks
        /\ "crawl" \in Owed => "crawl" \in options
    BY <1>2, <1>3, TargetScanAssumption DEF Owed, Asked, Checks, StageChecks
  <2>6. QED
    BY <1>2, <1>5, <2>2, <2>4, <2>5 DEF LeftOut
<1>11. QED
  BY <1>1, <1>6, <1>7, <1>8, <1>9, <1>10

LEMMA VerdictKept ==
  ASSUME VerdictInv, [Next]_vars
  PROVE  VerdictInv'
<1>1. CASE UNCHANGED vars
  <2>1. ProbeInv'
    BY ProbeInvKept DEF VerdictInv
  <2>2. TypeOK' /\ TallyInv' /\ ChosenInv'
    BY <1>1 DEF vars, plan, looks, VerdictInv, TypeOK, TallyInv, ChosenInv, Live, Planner, InPlace
  <2>3. TriedInv'
    BY <1>1 DEF vars, plan, VerdictInv, TriedInv, Live, Planner, InPlace, FixedProbes
  <2>4. FlawlessInv'
    BY <1>1 DEF vars, plan, VerdictInv, FlawlessInv, Live, LeftOut, Owed, Asked, Planner, InPlace
  <2>5. QED
    BY <2>1, <2>2, <2>3, <2>4 DEF VerdictInv
<1>2. CASE EndProbes
  BY <1>2, EndOfProbes
<1>3. CASE PlanStops \/ PlanFails
  BY <1>3, PlannerSteps
<1>4. ASSUME NEW late \in BOOLEAN, Verdict(late) PROVE VerdictInv'
  BY <1>4, VerdictStep
<1>5. CASE \/ RootFails \/ NoPlan \/ Raises
           \/ \E p \in Pages, truncated, found \in BOOLEAN : RootAnswers(p, truncated, found)
           \/ \E html, truncated, found \in BOOLEAN : CrawledPage(html, truncated, found)
           \/ \E html \in BOOLEAN : RenderedPage(html)
           \/ \E failed \in BOOLEAN : SecurityTxt(failed)
           \/ \E complete \in BOOLEAN : CrawlStage(complete)
           \/ \E p \in Probes, fails \in BOOLEAN : Probe(p, fails) \/ PlanProbes(p, fails)
  <2>1. executions' = executions
    BY <1>5 DEF RootFails, NoPlan, Raises, RootAnswers, SecurityTxt, CrawlStage, CrawledPage,
       RenderedPage, Probe, PlanProbes
  <2>2. QED
    BY <1>5, <2>1, QuietSteps
<1>6. CASE \/ \E s \in {"executed", "failed"} : Dirbuster(s) \/ External(s) \/ JavaScript(s) \/ Tls(s)
           \/ \E stale, unreadable \in BOOLEAN : Advisories(stale, unreadable)
           \/ \E s \in {"executed", "failed", "exhausted"} : Browser(s)
  BY <1>6, OwnSteps
<1>7. QED
  BY <1>1, <1>2, <1>3, <1>4, <1>5, <1>6 DEF Next

LEMMA VerdictInit ==
  ASSUME Init
  PROVE  VerdictInv
<1> USE DEF Init
<1>1. TypeOK
  <2>1. executions \in [Checks -> [States -> Nat]] /\ chosen \in [Probes -> [States -> Nat]]
    BY OnceFacts
  <2>2. page \in Pages
    BY DEF Blank, Pages
  <2>3. 0 <= budget.calls /\ 0 <= budget.actions
    BY TargetScanAssumption
  <2>4. stage \in Stages /\ status \in {"running", "success", "partial", "failed", "raised"}
    BY DEF Stages
  <2>5. errors \subseteq Stages /\ todo \subseteq Probes
    OBVIOUS
  <2>6. calls \in Nat /\ sent \in [Probes -> Nat]
    OBVIOUS
  <2>7. passive \in [Passive -> [States -> Nat]] /\ looked \in [Sources -> Nat] /\ cut \in Nat
    BY OnceFacts
  <2>8. QED
    BY <2>1, <2>2, <2>3, <2>4, <2>5, <2>6, <2>7 DEF TypeOK
<1>2. ProbeInv
  BY DEF ProbeInv, ProbesAreOptedIn, Unsent, Before
<1>3. TallyInv
  BY NewAt DEF TallyInv
<1>4. ChosenInv
  BY DEF ChosenInv, PlanStages
<1>5. TriedInv
  BY NewAt DEF TriedInv
<1>6. FlawlessInv
  <2>1. \A s \in {"skipped", "failed", "exhausted"} : Once(s) # Never
    BY OnceFacts DEF States
  <2>2. Owed \subseteq Checks
    BY DEF Owed, Asked, Checks, StageChecks
  <2>3. QED
    BY <2>1, <2>2 DEF FlawlessInv, Before
<1>7. QED
  BY <1>1, <1>2, <1>3, <1>4, <1>5, <1>6 DEF VerdictInv

\* A step that looks at no page leaves what the passive rules left.
LEMMA NoPage ==
  ASSUME PageInv, UNCHANGED looks, stage # "root", stage' # "root",
         status' = "failed" <=> status = "failed", errors \subseteq errors'
  PROVE  PageInv'
<1>1. /\ \A c \in Passive : Total(passive[c])' = Total(passive[c]) /\ PagesOf(c)' = PagesOf(c)
      /\ passive' = passive /\ looked' = looked /\ cut' = cut
      /\ errors' = {} => errors = {}
  BY DEF looks, Total, PagesOf
<1>2. QED
  BY <1>1 DEF PageInv

\* Every step keeps account of the pages.
LEMMA PageKept ==
  ASSUME VerdictInv, PageInv, [Next]_vars
  PROVE  PageInv'
<1> USE DEF VerdictInv
<1>1. /\ stage # "done" => status = "running"
      /\ errors \subseteq Stages /\ status # "running" => stage = "done"
  BY DEF TallyInv, TypeOK
<1>2. ASSUME RootFails PROVE PageInv'
  <2>1. /\ stage = "root" /\ stage' = "done" /\ status' = "failed" /\ errors' # {}
        /\ passive' = passive /\ looked' = looked /\ cut' = cut
    BY <1>2 DEF RootFails, Goes, looks
  <2>2. \A c \in Passive : Total(passive[c])' = Total(passive[c]) /\ PagesOf(c)' = PagesOf(c)
    BY <2>1 DEF Total, PagesOf
  <2>3. QED
    BY <2>1, <2>2 DEF PageInv
<1>3. ASSUME NEW p \in Pages, NEW truncated \in BOOLEAN, NEW found \in BOOLEAN,
             RootAnswers(p, truncated, found)
      PROVE  PageInv'
  <2>1. /\ Looks("root", p.html, truncated, found) /\ "root" \in Sources /\ p.html \in BOOLEAN
        /\ stage = "root" /\ stage' = "security" /\ status' = status /\ status = "running"
        /\ errors' = {} => ~truncated /\ errors = {}
    BY <1>1, <1>3 DEF RootAnswers, Goes, Noting, Sources, Pages
  <2>2. /\ cut' = cut /\ cut \in Nat
        /\ \A source \in Sources :
             looked'[source] = IF source = "root" THEN looked[source] + 1 ELSE looked[source]
        /\ \A c \in Passive :
             /\ Total(passive'[c]) = Total(passive[c]) + (IF c # "rendered" THEN 1 ELSE 0)
             /\ passive'[c]["failed"] = passive[c]["failed"]
             /\ c # "body" \/ ~truncated => passive'[c]["exhausted"] = passive[c]["exhausted"]
    BY <2>1, LooksFacts DEF Applied
  <2>3. \A c \in Passive : passive[c]["exhausted"] = 0
    BY <2>1, OnceFacts DEF PageInv, States
  <2>4. \A source \in Sources : looked[source] \in Nat
    BY DEF TypeOK
  <2>5. \A c \in Passive : PagesOf(c)' = PagesOf(c) + (IF c # "rendered" THEN 1 ELSE 0)
    BY <2>2, <2>4 DEF PagesOf, Sources
  <2>6. \A c \in Passive : Total(passive[c])' = Total(passive'[c])
    BY DEF Total
  <2>7. looked'["root"] = 1 /\ "body" \in Passive
    BY <2>1, <2>2 DEF PageInv, Sources, Passive
  <2>8. QED
    BY <2>1, <2>2, <2>3, <2>5, <2>6, <2>7 DEF PageInv
<1>4. ASSUME NEW from \in Sources \ {"root"}, NEW html \in BOOLEAN, NEW truncated \in BOOLEAN,
             NEW found \in BOOLEAN, Looks(from, html, truncated, found),
             from = "rendered" => ~truncated,
             UNCHANGED <<stage, status, errors>>, stage # "root"
      PROVE  PageInv'
  <2>1. /\ from \in {"crawled", "rendered"} /\ cut \in Nat
        /\ cut' = IF from = "crawled" /\ truncated THEN cut + 1 ELSE cut
        /\ \A source \in Sources :
             looked'[source] = IF source = from THEN looked[source] + 1 ELSE looked[source]
        /\ \A c \in Passive :
             /\ Total(passive'[c]) = Total(passive[c]) + (IF c \in Applied(from) THEN 1 ELSE 0)
             /\ passive'[c]["failed"] = passive[c]["failed"]
             /\ c # "body" \/ ~truncated => passive'[c]["exhausted"] = passive[c]["exhausted"]
             /\ passive'[c]["exhausted"] <= passive[c]["exhausted"] + 1
    BY <1>4, LooksFacts DEF Sources, TypeOK
  <2>2. \A source \in Sources : looked[source] \in Nat
    BY DEF TypeOK
  <2>3. \A c \in Passive : PagesOf(c)' = PagesOf(c) + (IF c \in Applied(from) THEN 1 ELSE 0)
    BY <2>1, <2>2 DEF PagesOf, Sources, Applied, Passive
  <2>4. \A c \in Passive : Total(passive[c])' = Total(passive'[c])
    BY DEF Total
  <2>5. looked'["root"] = looked["root"] /\ "body" \in Passive
    BY <2>1 DEF Sources, Passive
  <2>6. passive["body"]["exhausted"] \in Nat /\ passive'["body"]["exhausted"] \in Nat
    BY <1>4, <2>5, LooksFacts DEF TypeOK, States
  <2>7. passive["body"]["exhausted"] <= cut => passive'["body"]["exhausted"] <= cut'
    BY <1>4, <2>1, <2>5, <2>6
  <2>8. QED
    BY <1>4, <2>1, <2>3, <2>4, <2>5, <2>7 DEF PageInv
<1>5. ASSUME NEW html \in BOOLEAN, NEW truncated \in BOOLEAN, NEW found \in BOOLEAN,
             CrawledPage(html, truncated, found)
      PROVE  PageInv'
  BY <1>4, <1>5 DEF CrawledPage, Sources
<1>6. ASSUME NEW html \in BOOLEAN, RenderedPage(html)
      PROVE  PageInv'
  BY <1>4, <1>6 DEF RenderedPage, Sources
<1>7. CASE \/ \E failed \in BOOLEAN : SecurityTxt(failed)
           \/ \E p \in Probes, fails \in BOOLEAN : Probe(p, fails) \/ PlanProbes(p, fails)
           \/ EndProbes
  <2>1. /\ UNCHANGED <<status, looks>> /\ stage # "root" /\ stage' # "root" /\ errors \subseteq errors'
    BY <1>7 DEF SecurityTxt, Probe, PlanProbes, EndProbes, Planning, Goes, Noting, Same
  <2>2. QED
    BY <2>1, NoPage
<1>8. CASE \/ \E s \in {"executed", "failed"} : Dirbuster(s) \/ External(s) \/ JavaScript(s) \/ Tls(s)
           \/ \E stale, unreadable \in BOOLEAN : Advisories(stale, unreadable)
  <2>1. /\ UNCHANGED <<status, looks>> /\ stage # "root" /\ stage' # "root" /\ errors \subseteq errors'
    BY <1>8 DEF Dirbuster, External, JavaScript, Tls, Advisories, Records, Goes, Noting, Same
  <2>2. QED
    BY <2>1, NoPage
<1>9. CASE \/ \E complete \in BOOLEAN : CrawlStage(complete)
           \/ \E s \in {"executed", "failed", "exhausted"} : Browser(s)
           \/ PlanStops \/ PlanFails \/ NoPlan
  <2>1. /\ UNCHANGED <<status, looks>> /\ stage # "root" /\ stage' # "root" /\ errors \subseteq errors'
    BY <1>9 DEF CrawlStage, Browser, PlanStops, PlanFails, PlanEnds, NoPlan, Planning, Goes,
       Noting, Same
  <2>2. QED
    BY <2>1, NoPage
<1>10. CASE Raises \/ \E late \in BOOLEAN : Verdict(late)
  <2>1. /\ UNCHANGED looks /\ stage # "root" /\ stage' # "root" /\ errors \subseteq errors'
        /\ status = "running" /\ status' # "failed"
    BY <1>1, <1>10 DEF Raises, Verdict, Goes, Noting
  <2>2. QED
    BY <2>1, NoPage
<1>11. CASE UNCHANGED vars
  <2>1. /\ UNCHANGED <<stage, status, errors>> /\ passive' = passive /\ looked' = looked /\ cut' = cut
        /\ \A c \in Passive : Total(passive[c])' = Total(passive[c]) /\ PagesOf(c)' = PagesOf(c)
    BY <1>11 DEF vars, looks, Total, PagesOf
  <2>2. QED
    BY <2>1 DEF PageInv
<1>12. QED
  BY <1>2, <1>3, <1>5, <1>6, <1>7, <1>8, <1>9, <1>10, <1>11 DEF Next

LEMMA PageInit ==
  ASSUME Init
  PROVE  PageInv
<1>1. \A c \in Passive : passive[c] = Never /\ Total(passive[c]) = 0 /\ PagesOf(c) = 0
  BY OnceFacts DEF Init, Total, PagesOf, Sources, States
<1>2. \A c \in Passive : passive[c]["failed"] = 0 /\ passive[c]["exhausted"] = 0
  BY <1>1, OnceFacts DEF States
<1>3. looked["root"] = 0 /\ "body" \in Passive
  BY DEF Init, Sources, Passive
<1>4. QED
  BY <1>1, <1>2, <1>3 DEF Init, PageInv

\* Whatever the stages did, the invariant holds: which checks have a verdict
\* follows from the stage, what the planner chose from what was sent, without
\* an error nothing failed and nothing asked for was left out, and the passive
\* rules have one execution for every page that was looked at.
THEOREM VerdictInvariance == Spec => [](VerdictInv /\ PageInv)
<1>1. Init => VerdictInv /\ PageInv
  BY VerdictInit, PageInit
<1>2. VerdictInv /\ PageInv /\ [Next]_vars => (VerdictInv /\ PageInv)'
  BY VerdictKept, PageKept
<1>3. QED
  BY <1>1, <1>2, PTL DEF Spec

\* What the tallies of a report say of each check.
LEMMA ReportedTallies ==
  ASSUME VerdictInv, Reported
  PROVE  /\ stage = "done" /\ Live
         /\ \A c \in Checks : \E s \in States : executions[c] = Once(s) /\ StateOf(c) = {s}
<1>1. stage = "done" /\ Live
  BY DEF VerdictInv, TallyInv, Reported, Live
<1>2. ASSUME NEW c \in Checks
      PROVE  \E s \in States : executions[c] = Once(s) /\ StateOf(c) = {s}
  <2>1. PICK s \in States : executions[c] = Once(s)
    BY <1>1 DEF VerdictInv, TallyInv, RecordedAt
  <2>2. \A t \in States : executions[c][t] > 0 <=> t = s
    BY <2>1, OnceFacts
  <2>3. QED
    BY <2>1, <2>2 DEF StateOf
<1>3. QED
  BY <1>1, <1>2

\* Every check of a report has exactly one verdict, every passive rule one for
\* each page, and a probe counts as tried exactly when it was sent
\* (orchestrator.scan_target and agent.run_agent).
THEOREM OneVerdictEach == Spec => []OneVerdictPerCheck
<1>1. VerdictInv /\ PageInv => OneVerdictPerCheck
  <2> SUFFICES ASSUME VerdictInv, PageInv PROVE OneVerdictPerCheck
    OBVIOUS
  <2>1. TypeOK
    BY DEF VerdictInv
  <2>2. ASSUME Reported, NEW p \in Probes
        PROVE  StateOf(p) \subseteq {"executed", "failed"} <=> sent[p] > 0
    <3>1. stage = "done" /\ Live /\ p \in RecordedAt("done")
      BY <2>2, ReportedTallies DEF RecordedAt, Checks
    <3>2. PICK s \in States : executions[p] = Once(s) /\ StateOf(p) = {s}
      BY <2>2, ReportedTallies DEF Checks
    <3>3. sent[p] > 0 <=> executions[p] \in {Once("executed"), Once("failed")}
      <4>1. Once("skipped") \notin {Once("executed"), Once("failed")}
        BY OnceFacts DEF States
      <4>2. QED
        BY <3>1, <4>1 DEF VerdictInv, TriedInv, ChosenInv
    <3>4. executions[p] \in {Once("executed"), Once("failed")} <=> s \in {"executed", "failed"}
      BY <3>2, OnceFacts DEF States
    <3>5. QED
      BY <3>2, <3>3, <3>4
  <2>3. Reported => looked["root"] = 1 /\ \A c \in Passive : Total(passive[c]) = PagesOf(c)
    BY ReportedTallies DEF PageInv, Reported
  <2>4. QED
    BY <2>1, <2>2, <2>3, ReportedTallies DEF OneVerdictPerCheck
<1>2. QED
  BY <1>1, VerdictInvariance, PTL

\* A success has no check that failed or gave up, except a rule that reads
\* bodies on crawled pages that were truncated.
THEOREM SuccessesAreEarned == Spec => []SuccessIsEarned
<1>1. VerdictInv /\ PageInv => SuccessIsEarned
  <2> SUFFICES ASSUME VerdictInv, PageInv, status = "success" PROVE SuccessIsEarned
    BY DEF SuccessIsEarned
  <2>1. ASSUME NEW c \in Checks PROVE StateOf(c) \cap {"failed", "exhausted"} = {}
    <3>1. PICK s \in States : executions[c] = Once(s) /\ StateOf(c) = {s}
      BY ReportedTallies DEF Reported
    <3>2. executions[c] \notin {Once("failed"), Once("exhausted")}
      BY DEF VerdictInv, FlawlessInv, Live
    <3>3. QED
      BY <3>1, <3>2
  <2>2. errors = {}
    BY DEF VerdictInv, FlawlessInv
  <2>3. QED
    BY <2>1, <2>2 DEF PageInv, SuccessIsEarned
<1>2. QED
  BY <1>1, VerdictInvariance, PTL

\* Nothing that was asked for is missing from a success.
THEOREM SuccessesAreWhole == Spec => []SuccessLeavesNothingOut
<1>1. VerdictInv => SuccessLeavesNothingOut
  <2> SUFFICES ASSUME VerdictInv, status = "success", NEW c \in Asked
               PROVE  "skipped" \notin StateOf(c)
    BY DEF SuccessLeavesNothingOut
  <2>1. stage = "done" /\ errors = {} /\ planned /\ Live
    BY ReportedTallies DEF Reported, VerdictInv, FlawlessInv
  <2>2. c \in Owed /\ c \in Checks
    BY <2>1 DEF Owed, Asked, Checks, StageChecks
  <2>3. PICK s \in States : executions[c] = Once(s) /\ StateOf(c) = {s}
    BY <2>2, ReportedTallies DEF Reported
  <2>4. executions[c] # Once("skipped")
    BY <2>1, <2>2 DEF VerdictInv, FlawlessInv
  <2>5. QED
    BY <2>3, <2>4
<1>2. QED
  BY <1>1, VerdictInvariance, PTL
=============================================================================
