SPECIFICATION FairQSpec
CONSTANTS
  q1 = q1  m1 = m1  m2 = m2  i1 = i1  i2 = i2
  Backend = "cache"
  Queue = {q1}
  Message = {m1}
  Instance = {i1, i2}
  NoInstance = NoInstance
  Feeds <- NoFeeds
  MaxConcurrent = 1
  Outcome = {TRUE, FALSE}
  Crashing = {i1}
  Stopping = {i1}
  Lapsing = {i1}
CHECK_DEADLOCK FALSE
PROPERTIES
  ClaimsReturn
