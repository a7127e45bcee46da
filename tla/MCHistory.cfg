CONSTANTS
  i1 = i1
  i2 = i2
  one = one
  two = two
  big = big
  twice = twice
  old = old
  a = a
  b = b
  root = root
  rootQ = rootQ
  page = page
  pageQ = pageQ
  None = None
  Opinion = Opinion
  Installers = {i1, i2}
  Runs = {one, two, twice, big}
  OldRuns = {old}
  Targets <- TargetsOf
  Huge = {big}
  MaxFaults = 1
  Places = {root, rootQ, page, pageQ}
  Shown <- ShownAs
  Roots = {root, rootQ, page}
  Bearing = {rootQ, pageQ}
SYMMETRY Alike
SPECIFICATION Spec
INVARIANTS InstalledIsComplete RunsAreWhole ResolvedIsGone
PROPERTIES InstallFailsForCause
CHECK_DEADLOCK FALSE
