------------------------------ MODULE MCPublish ------------------------------
(* An instance of Publish for TLC: two publishers of overlapping audits, a    *)
(* listing of three rows at most, and two subjects that fit the target.       *)
EXTENDS Publish, TLC

CONSTANTS p, q

Record(fp, verdict, rank) == [fp |-> fp, verdict |-> verdict, rank |-> rank]

Audits == p :> <<Record(1, "confirmed", 2), Record(1, "needs_validation", 0), Record(2, "confirmed", 3)>>
       @@ q :> <<Record(1, "rejected", 0), Record(1, "needs_validation", 0)>>

Commands ==
    p :> [github |-> TRUE, secman |-> TRUE, allowPublic |-> TRUE, maxIssues |-> 1,
          needsValidation |-> FALSE, minRank |-> 1, commit |-> 1]
 @@ q :> [github |-> TRUE, secman |-> TRUE, allowPublic |-> FALSE, maxIssues |-> 1,
          needsValidation |-> TRUE, minRank |-> 0, commit |-> 2]

Issue(fp) == [fp |-> fp, labelled |-> TRUE, closed |-> FALSE]
Repositories == {<<>>, <<Issue(1), Issue(0), Issue(0)>>}

Subject(id, uri, host) == [id |-> id, uri |-> uri, host |-> host]
Listing == <<Subject(1, FALSE, TRUE), Subject(2, TRUE, TRUE)>>
=============================================================================
