CONSTANTS
  T = 2
  home = home
  page = page
  other = other
  Urls = {home, page, other}
  SubjectOf <- OneHost
  leak = leak
  login = login
  review = review
  Rules = {leak}
  Visible = {login}
  Reviewed = {review}
  Severe = {leak, login}
  Outcomes <- SomeOutcomes
  Sights <- SomeSights
  Runs = 2
  Plans <- SomePlans
  MaxLane = 1
  None = None
SPECIFICATION Spec
INVARIANTS ReportsOutliveFailures
PROPERTIES ClosedMeansGone ExitIsTrue
CHECK_DEADLOCK FALSE
