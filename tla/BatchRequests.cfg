\* The form and the import, before the close and after, while participants come,
\* go and are renamed and organizations are excluded and deactivated.
CONSTANTS
  Person = {x1, x2, x3}
  Name = {n1, n2}
  Org = {o1, o2}
  Slot = {s1}
  None = None
  Modes <- Everything
  Moves = TRUE
  Masters = TRUE
  BatchSize = 2
  MaxRevision = 3
  MaxUpdates = 1
SPECIFICATION Spec
SYMMETRY BatchSymmetry
INVARIANTS
  BeforeRecorded
PROPERTIES
  CorrectionsUnique
  CorrectionsChange
  ChangesNoticed
CHECK_DEADLOCK FALSE
