\* One project, corrected after its close and reopened, one request at a time.
CONSTANTS
  Project = {p1}
  Org = {o1, o2}
  Person = {x1, x2}
  Operator = operator
  Manager = {}
  Slot = {s1}
  None = None
  Keep = Keep
  Ops <- Everything
  Masters = TRUE
  Elsewhere = FALSE
  MaxRevision = 7
  MaxSession = 0
SPECIFICATION Spec
SYMMETRY RosterSymmetry
INVARIANTS
  TypeOK
  SnapshotCountsFlags
  EveryoneCounted
  SummaryAddsUp
PROPERTIES
  ExpectedFrozen
CHECK_DEADLOCK FALSE
