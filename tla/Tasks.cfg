SPECIFICATION FairTaskSpec
CONSTANTS
  t1 = t1  w1 = w1  w2 = w2
  Task = {t1}
  Work = {w1, w2}
  TaskOf <- OneTask
  Cancellable = {t1}
  Reopenable = {t1}
  MaxMessages = 2
  MaxRestarts = 1
  NoAgent = NoAgent
CHECK_DEADLOCK FALSE
INVARIANTS
  TaskTypeOK
  EndedIsClosed
  NoStrandedWork
  ActiveIsDriven
  QuietEnd
  CompletedSucceeded
PROPERTIES
  TasksEnd
  ImplementsTaskLife
