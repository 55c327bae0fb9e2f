SPECIFICATION FairDelSpec
CONSTANTS
  t1 = t1  t2 = t2
  Task = {t1, t2}
  Cancellable = {t1}
  Reopenable = {t1}
  MaxDeletions = 2
  MaxRestarts = 1
CHECK_DEADLOCK FALSE
INVARIANTS
  DelTypeOK
  QuietErasure
  NothingLeft
PROPERTIES
  DeletionEnds
