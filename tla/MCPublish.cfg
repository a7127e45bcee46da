CONSTANTS
  p = p
  q = q
  Publishers = {p, q}
  Fingerprints = {1, 2}
  Document <- Audits
  Option <- Commands
  FirstIssues <- Repositories
  FirstSubjects <- Listing
  PageSize = 1
  MaxPages = 3
  SubjectPage = 1
  MaxFaults = 1
  MaxMoves = 1
  MaxLength = 5
SPECIFICATION FairPublishing
INVARIANTS DuplicatesHaveACause SubmissionIsTrue RetriesKeepTheRun
PROPERTIES RerunsComplete
CHECK_DEADLOCK FALSE
