CONSTANTS
  root = root
  page = page
  map = map
  plain = plain
  other = other
  Urls = {root, page, map, plain, other}
  Origins = {"https", "http", "other"}
  Secure = {"https", "other"}
  OriginOf <- Hosts
  LinkLists <- Lists
  None = None
  Failed = Failed
  Root = root
  Seeds <- OneSeed
  Metadata <- Map
  Options <- Ceilings
SPECIFICATION FairSpec
INVARIANTS StaysInScope NeverDowngraded RequestsAreBounded CompleteIsClosed
PROPERTIES CrawlEnds
CHECK_DEADLOCK FALSE
