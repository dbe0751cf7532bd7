\* Requests of operators and a manager that race with each other, with other
\* projects and with the administration of organizations.
CONSTANTS
  Project = {p1}
  Org = {o1, o2}
  Person = {x1}
  Operator = operator
  Manager = {m1}
  Slot = {s1, s2}
  None = None
  Keep = Keep
  Ops <- Everything
  Masters = TRUE
  Elsewhere = TRUE
  MaxRevision = 3
  MaxSession = 2
SPECIFICATION Spec
SYMMETRY RosterSymmetry
INVARIANTS
  ReadsPinned
PROPERTIES
  ManagersInScope
CHECK_DEADLOCK FALSE
