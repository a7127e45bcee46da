---------------------------- MODULE Comparison ----------------------------
(***************************************************************************)
(* `compare OLD NEW` on two exported runs of one target                    *)
(* (reports/compare.py), set against what the pages really contain.        *)
(*                                                                         *)
(* One rule is followed.  A finding of it is identified by the public URL  *)
(* of its page (Finding.create), so pages that differ only in their query  *)
(* share an identifier and a coverage row; a model's opinion is a finding  *)
(* of its own.  What a scan sees is derived from the pages it visits.      *)
(***************************************************************************)
EXTENDS History

CONSTANTS
    Places,   \* exact page URLs
    Shown,    \* Places -> their public URL
    Roots,    \* Places the target may name
    Bearing,  \* Places with a query
    Opinion   \* identifier of an observation made by a model

ASSUME ComparisonAssumption ==
    /\ Roots \subseteq Places
    /\ Bearing \subseteq Places
    /\ \A p \in Places : Shown[p] # Opinion
    /\ \A p, q \in Places \ Bearing : Shown[p] = Shown[q] => p = q

VARIABLE claim   \* None, or what compare() resolved, what the later scan
                 \* looked for and what its pages still showed

vars == <<dbVars, claim>>

Init == InitDb /\ claim = None

\* What a later scan may have met.  An unreliable one (a page failed, a limit
\* was reached: complete is FALSE) or one under another profile may miss
\* anything; a page that answers with an error shows no flaw.
Scans ==
    {s \in [root : Roots, visited : SUBSET Places, down : SUBSET Places,
            complete : BOOLEAN, sameProfile : BOOLEAN, opinion : BOOLEAN] :
        s.root \in s.visited /\ s.down \subseteq s.visited}

Sound(s) == s.complete /\ s.sameProfile

\* Identifiers a scan reports of the flawed pages.
Sees(s, flawed) ==
    LET shown == {Shown[p] : p \in (flawed \cap s.visited) \ s.down}
        opinion == IF s.opinion THEN {Opinion} ELSE {}
    IN  {found \cup opinion : found \in IF Sound(s) THEN {shown} ELSE SUBSET shown}

\* (check, public URL) rows with an executed state; the opinion has one too
\* when its stage ran.
Executed(s) == {Shown[p] : p \in s.visited} \cup {Opinion}

\* Mutant: the reports lose the flag.
NoQueryInput(root) == FALSE

\* queryInput of a report: the target itself has a query.
QueryInput(root) == root \in Bearing

\* exposure: the target itself answered 200 without a redirect.
CleanExposure(s) == s.root \notin s.down

\* The identifiers compare_reports() calls resolved, of targets with one public URL.
Resolved(before, oldRoot, s, after) ==
    LET missing == before \ after
        unevaluated == (missing \ Executed(s))
            \cup (IF QueryInput(oldRoot) \/ QueryInput(s.root) THEN missing ELSE {})
            \cup (IF CleanExposure(s) THEN {} ELSE missing)
        advisory == before \cap {Opinion}
    IN  IF Shown[oldRoot] = Shown[s.root] /\ s.sameProfile /\ s.complete
        THEN (missing \ unevaluated) \ advisory
        ELSE {}

\* The database is left alone: the comparison reads two files.
Idle ==
    /\ \A i \in Installers : installer[i].at = "done"
    /\ \A r \in Runs : saver[r].at \in {"saved", "failed"}

\* One comparison of two exported documents, made when no command uses the
\* database; the old document may hold any findings, and any pages may be
\* flawed when the later scan visits them.
Compare ==
    /\ claim = None
    /\ Cardinality(exported) = 2
    /\ Idle
    /\ \E before \in SUBSET ({Shown[p] : p \in Places} \cup {Opinion}), oldRoot \in Roots,
          s \in Scans, flawed \in SUBSET Places :
        \E after \in Sees(s, flawed) :
            claim' = [resolved |-> Resolved(before, oldRoot, s, after),
                      read |-> {Shown[p] : p \in s.visited},
                      still |-> {Shown[p] : p \in
                                  flawed \cap ((s.visited \ s.down) \cup {oldRoot, s.root})}]
    /\ UNCHANGED dbVars

Next ==
    \/ NextDb /\ UNCHANGED claim
    \/ Compare

Spec == Init /\ [][Next]_vars

\* compare.py:102: what is called resolved was looked for by the later scan and
\* is gone from the target's own pages and from every page that scan has read.
\* (A flawed page it did not visit, or that answered with an error, can hide
\* behind another page of the same public URL: only the query of the target
\* itself is looked at.)
ResolvedIsGone ==
    claim # None => /\ claim.resolved \subseteq claim.read
                    /\ claim.resolved \cap claim.still = {}

=============================================================================
