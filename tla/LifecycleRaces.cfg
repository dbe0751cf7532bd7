\* Two handlers racing over the dates of one project.
CONSTANTS
  n1 = n1
  NULL = NULL
  Project = {p1}
  Slot = {s1, s2}
  Name = {n1}
  StartDates <- TwoDays
  EndDates <- TwoDays
  NoDate = NULL
  Keep = Keep
  Cron = cron
  MaxDay = 1
  MaxRevision = 2
  Staleness = 0
  BatchLimit = 1
SPECIFICATION Spec
SYMMETRY SlotSymmetry
INVARIANTS
  GuardPinsRead
  DatesInOrder
PROPERTIES
  RevisionCountsChanges
CHECK_DEADLOCK FALSE
