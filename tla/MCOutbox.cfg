CONSTANTS
  d1 = d1
  d2 = d2
  d3 = d3
  Deliveries = {d1, d2, d3}
  Destination <- OneDestination
  Scanner <- TwoLanes
  Subjects = {x, y}
  Senders = {s1, s2}
  Enqueuers = {e1, e2}
  Capacity = 1
  MaxWasted = 1
  None = None
SPECIFICATION Spec
SYMMETRY Symmetry
INVARIANTS OneBodyPerDelivery DeliveredWasRecorded HeadOfLine LanesAreIndependent BoundedOvershoot
PROPERTIES RetryAdvances Implements
