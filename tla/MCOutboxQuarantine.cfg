CONSTANTS
  d1 = d1
  d2 = d2
  d3 = d3
  Deliveries = {d1, d2}
  Destination <- OneDestination
  Scanner <- OneLane
  Subjects = {x}
  Senders = {s1}
  Enqueuers = {e1}
  Capacity = 2
  MaxWasted = 1
  None = None
SPECIFICATION Spec
PROPERTIES QuarantineIsFinal
