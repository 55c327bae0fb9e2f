SPECIFICATION ContextSpec
CONSTANTS
  MaxMessages = 2
  MaxArchives = 2
  MaxCopies = 1
  MaxRetries = 1
  MaxRestarts = 1
CHECK_DEADLOCK FALSE
INVARIANTS
  NoMessageLost
  ContextComplete
  ContextInOrder
