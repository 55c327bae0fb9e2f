SPECIFICATION QSpec
CONSTANTS
  q1 = q1  m1 = m1  m2 = m2  i1 = i1  i2 = i2
  Backend = "cache"
  Queue = {q1}
  Message = {m1, m2}
  Instance = {i1, i2}
  NoInstance = NoInstance
  Feeds <- Requeue
  MaxConcurrent = 2
  Outcome = {TRUE, FALSE}
  Crashing = {i1}
  Stopping = {i1}
  Lapsing = {i1}
SYMMETRY FreshMessages
CHECK_DEADLOCK FALSE
INVARIANTS
  NothingLost
  OnePlace
  SingleDelivery
PROPERTIES
  ImplementsDurableQueue
