---------------------------- MODULE MCTargetScan ----------------------------
(* An instance of TargetScan for TLC: opt-ins alone and together in          *)
(* combinations the command line accepts (the planner needs "active").        *)
EXTENDS TargetScan

OptionChoices ==
  {{}, {"active"}, {"dirbuster"}, {"crawl"}, {"browser"}, {"javascript", "snapshot"},
   {"active", "dirbuster", "external"}, {"active", "agent"}, {"active", "agent", "crawl"},
   {"active", "agent", "browser"},
   {"vulnerabilities", "crawl", "browser"}, OptIns \ {"crawl", "browser"}}
\* Enough calls, too few, and too few actions.
PlanBudgets == {[calls |-> 3, actions |-> 3], [calls |-> 1, actions |-> 3], [calls |-> 3, actions |-> 1]}
=============================================================================
