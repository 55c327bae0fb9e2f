SPECIFICATION FairSessionSpec
CONSTANTS
  MaxMessages = 2
  MaxArchives = 2
  MaxCopies = 2
  MaxRetries = 1
  MaxRestarts = 1
CHECK_DEADLOCK FALSE
INVARIANTS
  SessionTypeOK
  ExtractsInTurn
  OrphansHaveNoWork
PROPERTIES
  CommitsEnd
