SPECIFICATION CSpec
CONSTANTS
  semantic = semantic  embedding = embedding
  m1 = m1  m2 = m2  m3 = m3  i1 = i1  i2 = i2
  Backend = "sqlite"
  Queue = {semantic, embedding}
  Message = {m1, m2}
  Instance = {i1, i2}
  NoInstance = NoInstance
  Feeds <- Pipeline
  Created <- EmbeddingFirst
  MaxConcurrent = 1
  Outcome = {TRUE}
  Crashing = {i1}
  Stopping = {i1}
  Lapsing = {}
SYMMETRY FreshMessages
CHECK_DEADLOCK FALSE
INVARIANTS
  CompletionIsReal
