CONSTANTS
  root = root
  page1 = page1
  page2 = page2
  plain = plain
  other = other
  Urls = {root, page1, page2, plain, other}
  Origins = {"https", "http", "other"}
  Secure = {"https", "other"}
  OriginOf <- Hosts
  LinkLists <- Lists
  None = None
  Raised = Raised
  Start = root
  Options <- Choices
SPECIFICATION Spec
INVARIANTS  QuietMeansRendered CompleteIsAnalysed
CHECK_DEADLOCK FALSE
