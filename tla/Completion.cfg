SPECIFICATION CSpec
CONSTANTS
  semantic = semantic  embedding = embedding
  m1 = m1  m2 = m2  m3 = m3  i1 = i1  i2 = i2
  Backend = "sqlite"
  Queue = {semantic, embedding}
  Message = {m1, m2, m3}
  Instance = {i1, i2}
  NoInstance = NoInstance
  Feeds <- Requeue
  Created <- EmbeddingFirst
  MaxConcurrent = 2
  Outcome = {TRUE, FALSE}
  Crashing = {i1, i2}
  Stopping = {i1, i2}
  Lapsing = {}
SYMMETRY FreshMessages
CHECK_DEADLOCK FALSE
INVARIANTS
  NothingLost
  SingleDelivery
  CompletionIsReal
