\* One handler and a cron that fires daily: a project is closed, corrected,
\* deleted, restored and reopened.
CONSTANTS
  n1 = n1
  NULL = NULL
  Project = {p1}
  Slot = {s1}
  Name = {n1}
  StartDates <- TwoDays
  EndDates <- TwoDays
  NoDate = NULL
  Keep = Keep
  Cron = cron
  MaxDay = 1
  MaxRevision = 6
  Staleness = 1
  BatchLimit = 1
SPECIFICATION FairSpec
INVARIANTS
  TypeOK
  ClosureRecorded
  DeletionOverlay
PROPERTIES
  ExpiredIsClosed
  ClosureKept
  ReopenedUnexpired
  PromiseKept
CHECK_DEADLOCK FALSE
