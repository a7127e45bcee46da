------------------------------ MODULE Publish ------------------------------
(***************************************************************************)
(* `audit import`: the findings of a source-code audit become issues of a  *)
(* GitHub repository and one run in SecMan (code_audit.py, the command in  *)
(* cli.py, match_subject() and list_subjects() of secman.py).              *)
(*                                                                         *)
(* Several publishers work on the same repository, each from a listing it  *)
(* has read page by page.  Requests fail, with or without an effect; the   *)
(* owner closes issues, takes labels away, changes the visibility of the   *)
(* repository and the subjects of SecMan.  GitHub and SecMan are external: *)
(* a list is paged by position, issues newest first, and a SecMan run is   *)
(* recorded once for each body.                                            *)
(***************************************************************************)
EXTENDS Naturals, Sequences, FiniteSetsExt, SequencesExt

CONSTANTS
    Publishers,   \* processes running `audit import`
    Fingerprints, \* subset of Nat \ {0}: identities of findings
    Document,     \* Publishers -> sequence of records in its findings.json
    Option,       \* Publishers -> options of its command
    FirstIssues,  \* set of sequences of issues the repository may start with
    FirstSubjects,\* sequence of the subjects of the scanner in SecMan
    PageSize, MaxPages,  \* existing(): rows per page, pages read
    SubjectPage,  \* list_subjects(): rows per page
    MaxFaults,    \* bound: requests that fail
    MaxMoves,     \* bound: changes the owner makes
    MaxLength     \* bound: issues in the repository

Verdicts == {"confirmed", "rejected", "needs_validation", "invalid"}
Records == [fp : Fingerprints, verdict : Verdicts, rank : Nat]
Issues == [fp : Fingerprints \cup {0}, labelled : BOOLEAN, closed : BOOLEAN]

\* A subject is known by its id, by whether it has the target's URI and by
\* whether it is named by the target's host.
SubjectRows == [id : Nat, uri : BOOLEAN, host : BOOLEAN]
Options == [github : BOOLEAN, secman : BOOLEAN, allowPublic : BOOLEAN,
            needsValidation : BOOLEAN, minRank : Nat, maxIssues : Nat \ {0}, commit : Nat]

ASSUME PublishAssumption ==
    /\ Fingerprints \subseteq Nat \ {0}
    /\ Document \in [Publishers -> Seq(Records)] /\ Option \in [Publishers -> Options]
    /\ FirstIssues \subseteq Seq(Issues) /\ FirstSubjects \in Seq(SubjectRows)
    /\ PageSize \in Nat \ {0} /\ MaxPages \in Nat \ {0} /\ SubjectPage \in Nat \ {0}
    /\ MaxFaults \in Nat /\ MaxMoves \in Nat /\ MaxLength \in Nat

-----------------------------------------------------------------------------
(* load_audit_findings().  A record is [fp, verdict, rank], which stands   *)
(* for its texts too; one that fails validation has the verdict "invalid", *)
(* needs_validation has rank 0.                                            *)

\* One record that cannot be trusted refuses the whole file.
Unreadable(p) == \E n \in DOMAIN Document[p] : Document[p][n].verdict = "invalid"

Wanted(p, record) ==
    \/ record.verdict = "confirmed" /\ record.rank >= Option[p].minRank
    \/ record.verdict = "needs_validation" /\ Option[p].needsValidation

\* The first wanted record of a fingerprint counts.
Kept(p) ==
    {n \in DOMAIN Document[p] :
        /\ Wanted(p, Document[p][n])
        /\ \A m \in 1 .. (n - 1) :
            Document[p][m].fp = Document[p][n].fp => ~Wanted(p, Document[p][m])}

\* Worst first, then by fingerprint.
Before(r, s) == r.rank > s.rank \/ (r.rank = s.rank /\ r.fp < s.fp)

Findings == [p \in Publishers |-> {Document[p][n] : n \in Kept(p)}]

VARIABLES
    issues,   \* sequence, in order of creation, of [fp, labelled, closed];
              \* fp is 0 for an issue or pull request without a marker
    private,  \* the repository is private
    subjects, \* the subjects of the scanner, in the order of the listing
    remote,   \* bodies of the runs SecMan has recorded, each with its publisher
    pub,      \* Publishers -> the state of the command
    faults, moves

publishVars == <<issues, private, subjects, remote, pub, faults, moves>>

Fresh(at) == [at |-> at, page |-> 1, found |-> [f \in Fingerprints |-> 0],
             created |-> 0, since |-> 0, listing |-> <<>>, subject |-> 0, shaken |-> FALSE]

PublishInit ==
    /\ issues \in FirstIssues
    /\ private \in BOOLEAN
    /\ subjects = FirstSubjects
    /\ remote = {}
    /\ pub = [p \in Publishers |-> Fresh("idle")]
    /\ faults = 0
    /\ moves = 0

-----------------------------------------------------------------------------

Become(p, record) == pub' = [pub EXCEPT ![p] = record]

\* The process ends; nothing of it is left but its effects.
End(p, at) == Become(p, Fresh(at))

GiveUp(p) == End(p, "failed")

\* A request that brings no answer.
Fault(p) == faults < MaxFaults /\ faults' = faults + 1 /\ GiveUp(p)

\* After the issues: the run for SecMan with the links known, or the end.
AfterIssues(p) ==
    IF Option[p].secman
    THEN Become(p, [Fresh("subjects") EXCEPT !.found = pub[p].found])
    ELSE End(p, "done")

\* The file is read; without --push-to-* the command ends here.
Load(p) ==
    /\ pub[p].at = "idle"
    /\ CASE Unreadable(p)    -> GiveUp(p)
         [] Option[p].github -> Become(p, Fresh("check"))
         [] OTHER            -> AfterIssues(p)
    /\ UNCHANGED <<issues, private, subjects, remote, faults, moves>>

\* is_private(), unless --allow-public-repo.
Check(p) ==
    /\ pub[p].at = "check"
    /\ \/ /\ IF Option[p].allowPublic \/ private
             THEN Become(p, [Fresh("list") EXCEPT !.since = Len(issues)])
             ELSE GiveUp(p)
          /\ UNCHANGED faults
       \/ ~Option[p].allowPublic /\ Fault(p)
    /\ UNCHANGED <<issues, private, subjects, remote, moves>>

\* Mutant: closed issues are left out of the listing.
OpenRows == {k \in DOMAIN issues : issues[k].labelled /\ ~issues[k].closed}

\* The listing has the issues with the label in any state, newest first.
Rows == {k \in DOMAIN issues : issues[k].labelled}
NewerRows(k) == {j \in Rows : j > k}
Page(n) == {k \in Rows : Cardinality(NewerRows(k)) \in (n - 1) * PageSize .. n * PageSize - 1}
FullPage(n) == n * PageSize <= Cardinality(Rows)

\* One page of existing(): the last row seen for a marker is kept.
List(p) ==
    LET self == pub[p]
        Of(f) == {k \in Page(self.page) : issues[k].fp = f}
        last == ~FullPage(self.page) \/ self.page = MaxPages
    IN  /\ self.at = "list"
        /\ \/ /\ Become(p, [self EXCEPT
                    !.found = [f \in Fingerprints |-> IF Of(f) = {} THEN @[f] ELSE Min(Of(f))],
                    !.page = IF last THEN 1 ELSE @ + 1,
                    !.at = IF last THEN "create" ELSE "list"])
              /\ UNCHANGED faults
           \/ Fault(p)
        /\ UNCHANGED <<issues, private, subjects, remote, moves>>

\* Findings without a known issue.
Todo(p) == {r \in Findings[p] : pub[p].found[r.fp] = 0}

\* Mutant: the issues that exist already are counted too.
AllCounted(p) ==
    Cardinality({f \in Fingerprints : pub[p].found[f] # 0}) >= Option[p].maxIssues

\* --max-issues counts the issues this run has created.
AtCeiling(p) == pub[p].created >= Option[p].maxIssues

IssuesDone(p) ==
    /\ pub[p].at = "create"
    /\ Todo(p) = {}
    /\ AfterIssues(p)
    /\ UNCHANGED <<issues, private, subjects, remote, faults, moves>>

\* Mutant: the ceiling ends the loop and the command goes on.
PassOver(p) ==
    /\ pub[p].at = "create"
    /\ Todo(p) # {}
    /\ AtCeiling(p)
    /\ AfterIssues(p)
    /\ UNCHANGED <<issues, private, subjects, remote, faults, moves>>

\* --max-issues: the command stops and asks to be run again.
Stop(p) ==
    /\ pub[p].at = "create"
    /\ Todo(p) # {}
    /\ AtCeiling(p)
    /\ GiveUp(p)
    /\ UNCHANGED <<issues, private, subjects, remote, faults, moves>>

\* POST: the issue exists from now on, whether or not the answer arrives and
\* names an issue of github.com; or the request fails without an effect.
Create(p) ==
    /\ pub[p].at = "create"
    /\ ~AtCeiling(p)
    /\ Len(issues) < MaxLength
    /\ \E r \in Todo(p) :
        LET posted == Append(issues, [fp |-> r.fp, labelled |-> TRUE, closed |-> FALSE]) IN
        /\ \A s \in Todo(p) \ {r} : Before(r, s)
        /\ \/ /\ issues' = posted
              /\ Become(p, [pub[p] EXCEPT !.found[r.fp] = Len(posted), !.created = @ + 1])
              /\ UNCHANGED faults
           \/ issues' = posted /\ Fault(p)
           \/ UNCHANGED issues /\ Fault(p)
    /\ UNCHANGED <<private, subjects, remote, moves>>

-----------------------------------------------------------------------------
(* SecMan.                                                                 *)

\* One page of list_subjects(); the number of pages is the one last reported.
ListSubjects(p) ==
    LET self == pub[p]
        end == self.page * SubjectPage
        last == Len(subjects) <= end
        rows == SubSeq(subjects, end - SubjectPage + 1, IF last THEN Len(subjects) ELSE end)
    IN  /\ self.at = "subjects"
        /\ \/ /\ Become(p, [self EXCEPT
                    !.listing = @ \o rows,
                    !.page = IF last THEN 1 ELSE @ + 1,
                    !.at = IF last THEN "match" ELSE "subjects"])
              /\ UNCHANGED faults
           \/ Fault(p)
        /\ UNCHANGED <<issues, private, subjects, remote, moves>>

\* match_subject(): the rows with the target's URI, else those named by its
\* host.
Candidates(listing) ==
    LET exact == {n \in DOMAIN listing : listing[n].uri}
        named == {n \in DOMAIN listing : listing[n].host}
    IN  IF exact # {} THEN exact ELSE named

\* No row, or more than one, ends the command.
Match(p) ==
    LET candidates == Candidates(pub[p].listing) IN
    /\ pub[p].at = "match"
    /\ \/ \E n \in candidates :
            /\ candidates = {n}
            /\ Become(p, [pub[p] EXCEPT !.at = "submit", !.subject = pub[p].listing[n].id,
                                        !.listing = <<>>])
       \/ (\A n \in candidates : candidates # {n}) /\ GiveUp(p)
    /\ UNCHANGED <<issues, private, subjects, remote, faults, moves>>

\* build_audit_run_body(): SecMan records a body once, by a key that covers all
\* of it but the time.
Body(p) == [subject |-> pub[p].subject, commit |-> Option[p].commit,
            findings |-> {[finding |-> r, link |-> pub[p].found[r.fp]] : r \in Findings[p]}]
Sent(p) == [by |-> p, body |-> Body(p)]

\* submit_run(): recorded and answered, recorded without an answer, or lost.
Submit(p) ==
    /\ pub[p].at = "submit"
    /\ \/ /\ remote' = remote \cup {Sent(p)}
          /\ End(p, "done")
          /\ UNCHANGED faults
       \/ remote' = remote \cup {Sent(p)} /\ Fault(p)
       \/ UNCHANGED remote /\ Fault(p)
    /\ UNCHANGED <<issues, private, subjects, moves>>

\* The operator runs the command again.
Rerun(p) ==
    /\ pub[p].at \in {"failed", "done"}
    /\ Become(p, Fresh("idle"))
    /\ UNCHANGED <<issues, private, subjects, remote, faults, moves>>

-----------------------------------------------------------------------------
(* The owner.                                                              *)

Move == moves < MaxMoves /\ moves' = moves + 1

\* Whoever is reading the list, or works from it, works from an older state.
Shake(reading, read) ==
    pub' = [p \in Publishers |-> [pub[p] EXCEPT
              !.shaken = @ \/ (pub[p].at = reading /\ pub[p].page > 1) \/ pub[p].at \in read]]

CloseIssue(k) ==
    /\ Move
    /\ ~issues[k].closed
    /\ issues' = [issues EXCEPT ![k].closed = TRUE]
    /\ UNCHANGED <<private, subjects, remote, pub, faults>>

RemoveLabel(k) ==
    /\ Move
    /\ issues[k].labelled
    /\ issues' = [issues EXCEPT ![k].labelled = FALSE]
    /\ Shake("list", {"create"})
    /\ UNCHANGED <<private, subjects, remote, faults>>

ChangeVisibility ==
    /\ Move
    /\ private' = ~private
    /\ UNCHANGED <<issues, subjects, remote, pub, faults>>

RemoveSubject(n) ==
    /\ Move
    /\ subjects' = RemoveAt(subjects, n)
    /\ Shake("subjects", {"match", "submit"})
    /\ UNCHANGED <<issues, private, remote, faults>>

Owner ==
    \/ \E k \in DOMAIN issues : CloseIssue(k) \/ RemoveLabel(k)
    \/ ChangeVisibility
    \/ \E n \in DOMAIN subjects : RemoveSubject(n)

Work(p) == \/ Load(p) \/ Check(p) \/ List(p) \/ IssuesDone(p) \/ Stop(p) \/ Create(p)
           \/ ListSubjects(p) \/ Match(p) \/ Submit(p)

PublishNext == Owner \/ \E p \in Publishers : Work(p) \/ Rerun(p)

Publishing == PublishInit /\ [][PublishNext]_publishVars

\* A command goes on; one that has failed is run again, as its message asks.
GoesOn(p) == Work(p) \/ (pub[p].at = "failed" /\ Rerun(p))

FairPublishing == Publishing /\ \A p \in Publishers : WF_publishVars(GoesOn(p))

-----------------------------------------------------------------------------
(* Properties.                                                             *)

PublisherStates ==
    [at : {"idle", "check", "list", "create", "subjects", "match", "submit", "done", "failed"},
     page : Nat \ {0}, found : [Fingerprints -> Nat], created : Nat, since : Nat,
     listing : Seq(SubjectRows), subject : Nat, shaken : BOOLEAN]

\* Issues, subjects and publishers have their types.
PublishTypes ==
    /\ issues \in Seq(Issues) /\ subjects \in Seq(SubjectRows)
    /\ private \in BOOLEAN
    /\ pub \in [Publishers -> PublisherStates]
    /\ faults \in 0 .. MaxFaults /\ moves \in 0 .. MaxMoves

Marked(k, f) == issues[k].fp = f /\ issues[k].labelled

\* code_audit.py:373: a publisher creates a second issue for a finding only
\* because another one created the first after its listing began, because the
\* owner changed the list under it, or because the first issue lies beyond the
\* rows existing() reads; a failed or interrupted run is no cause.
DuplicatesHaveACause ==
    /\ PublishTypes
    /\ \A p \in Publishers : pub[p].at = "create" =>
        \A r \in Todo(p), k \in 1 .. pub[p].since :
            Marked(k, r.fp) =>
                \/ pub[p].shaken
                \/ Cardinality(NewerRows(k)) >= PageSize * MaxPages

\* The subject the target belongs to: the one with its URI, else the only one
\* named by its host.
Belongs(rows, id) ==
    LET exact == {s \in ToSet(rows) : s.uri}
        named == {s \in ToSet(rows) : s.host}
    IN  {s.id : s \in IF exact # {} THEN exact ELSE named} = {id}

\* cli.py:873: a run is submitted only when every finding has its issue, linked
\* to an issue that carries its marker, and, unless the subjects changed while
\* they were listed, to the subject the target belongs to.
SubmissionIsTrue ==
    \A p \in Publishers : pub[p].at = "submit" =>
        /\ Option[p].github =>
            \A r \in Findings[p] :
                LET k == pub[p].found[r.fp] IN k \in DOMAIN issues /\ issues[k].fp = r.fp
        /\ pub[p].shaken \/ Belongs(subjects, pub[p].subject)

\* code_audit.py:436: all the runs that a publisher of issues gets recorded for
\* a subject are one run, over ceilings, lost answers and reruns: its body never
\* goes out with some of the links and then with all.  Only a finding that has
\* two issues, and was found in the one and then in the other, makes a second.
RetriesKeepTheRun ==
    \A s, t \in remote :
        /\ s # t
        /\ s.by = t.by /\ Option[s.by].github
        /\ s.body.subject = t.body.subject
        => \E x \in s.body.findings, y \in t.body.findings :
            /\ x.finding = y.finding /\ x.link # y.link
            /\ \A k \in {x.link, y.link} :
                k \in DOMAIN issues /\ issues[k].fp = x.finding.fp

HasIssue(f) == \E k \in DOMAIN issues : issues[k].fp = f

\* code_audit.py:379: running the command again until it no longer stops gives
\* every finding its issue, whatever the other publishers and the owner do.
\* (Without --allow-public-repo the owner can keep it from ever starting.)
RerunsComplete ==
    \A p \in Publishers :
        Option[p].github /\ Option[p].allowPublic /\ ~Unreadable(p) =>
            <>(\A r \in Findings[p] : HasIssue(r.fp))

-----------------------------------------------------------------------------
(* The inductive invariant of the three.                                   *)

\* An issue that is known for a finding carries its marker.
FoundInv ==
    \A p \in Publishers, f \in Fingerprints :
        LET k == pub[p].found[f] IN k # 0 => k \in DOMAIN issues /\ issues[k].fp = f

\* SecMan comes after the issues.
LinkedInv ==
    \A p \in Publishers :
        Option[p].github /\ pub[p].at \in {"subjects", "match", "submit"} => Todo(p) = {}

\* Unless the list changed under its reader, a marked issue from before the
\* listing is known or still to come: new issues only push it further back.
PagesRead(p) == IF pub[p].at = "list" THEN pub[p].page - 1 ELSE MaxPages
ListedInv ==
    \A p \in Publishers : pub[p].at \in {"list", "create"} =>
        /\ pub[p].since <= Len(issues)
        /\ pub[p].at = "list" => pub[p].page <= MaxPages
        /\ ~pub[p].shaken =>
            \A f \in Fingerprints, k \in 1 .. pub[p].since :
                Marked(k, f) =>
                    \/ pub[p].found[f] # 0
                    \/ Cardinality(NewerRows(k)) >= PagesRead(p) * PageSize

\* What is listed of the subjects is how they begin, until they are matched.
SubjectInv ==
    \A p \in Publishers :
        LET self == pub[p] IN
        /\ self.at = "subjects" =>
            /\ self.page = 1 => self.listing = <<>>
            /\ self.page > 1 /\ ~self.shaken =>
                /\ Len(self.listing) = (self.page - 1) * SubjectPage
                /\ Len(self.listing) < Len(subjects)
                /\ \A n \in DOMAIN self.listing : self.listing[n] = subjects[n]
        /\ self.at = "match" /\ ~self.shaken => self.listing = subjects
        /\ self.at = "submit" /\ ~self.shaken => Belongs(subjects, self.subject)

\* A body is that of its publisher, with each finding once, and linked to an
\* issue with its marker if there are issues.
RemoteInv ==
    \A s \in remote :
        /\ s.by \in Publishers /\ s = [by |-> s.by, body |-> s.body]
        /\ s.body = [subject |-> s.body.subject, commit |-> Option[s.by].commit,
                     findings |-> s.body.findings]
        /\ {x.finding : x \in s.body.findings} = Findings[s.by]
        /\ \A x \in s.body.findings :
            /\ x = [finding |-> x.finding, link |-> x.link]
            /\ \A y \in s.body.findings : x.finding = y.finding => x = y
            /\ Option[s.by].github =>
                x.link \in DOMAIN issues /\ issues[x.link].fp = x.finding.fp

PublishInv ==
    PublishTypes /\ FoundInv /\ LinkedInv /\ ListedInv /\ SubjectInv /\ RemoteInv

=============================================================================
