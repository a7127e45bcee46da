CONSTANTS
  r1 = r1
  h1 = h1
  w1 = w1
  w2 = w2
  Requests = {r1, h1}
  Threads = {h1}
  Workers = {w1, w2}
  Host = w2
  Owner <- Owners
  Origins = {o1}
  Site = o1
  Engines = {provider, external, tls}
  Provider = provider
  External = external
  Tls = tls
  Addresses = {good, bad}
  Resolutions = {{good}, {good, bad}}
  Approved = {good}
  Tools = 1
  Concurrency = 1
  PerOrigin = 1
  MaxOperations = 2
  MaxProviderCalls = 1
  GlobalGap = 1
  OriginGap = 1
  Horizon = 2
  None = None
SPECIFICATION EnginesSpec
INVARIANTS LimitsAreKept RatesAreKept DialsAreAdmitted
PROPERTIES NothingHangs
CHECK_DEADLOCK FALSE
