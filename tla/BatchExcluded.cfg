\* An import after the organization of the entry has been excluded.
CONSTANTS
  Person = {x1}
  Name = {n1}
  Org = {o1, o2}
  Slot = {s1}
  None = None
  Modes <- ImportOnly
  Moves = TRUE
  Masters = FALSE
  BatchSize = 1
  MaxRevision = 6
  MaxUpdates = 1
SPECIFICATION Spec
SYMMETRY BatchSymmetry
PROPERTIES
  ImportIntoActive
CHECK_DEADLOCK FALSE
