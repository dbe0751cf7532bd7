\* Two projects that share a participant.
CONSTANTS
  Project = {p1, p2}
  Org = {o1, o2}
  Person = {x1}
  Operator = operator
  Manager = {m1}
  Slot = {s1}
  None = None
  Keep = Keep
  Ops <- Ordinary
  Masters = FALSE
  Elsewhere = FALSE
  MaxRevision = 4
  MaxSession = 0
SPECIFICATION Spec
SYMMETRY RosterSymmetry
INVARIANTS
  RosterOrganizationLinked
CHECK_DEADLOCK FALSE
