SPECIFICATION FairSpec
CONSTANTS
  p1 = p1  p2 = p2  o1 = o1  o2 = o2  o3 = o3  l1 = l1  l2 = l2  l3 = l3
  Path <- MCPath
  ancestor_paths <- MCancestor_paths
  Rank <- MCRank
  Proc = {p1}
  Owner = {o1}
  Lease = {l1, l2}
  NoProc = NoProc  NoOwner = NoOwner  NoLease = NoLease
  Request <- MCRequest
  Skew <- NoSkew
  TTL = 3
  Validity = 2
  CleanupWindow = 1
  MaxTime = 3
  MaxHandoffs = 0
  Crashing = {p1}
  Outcome = {TRUE, FALSE}
INVARIANTS
  TypeOK
PROPERTIES
  InvalidatedLeaves
  RevocationIsFinal
  NoHolderLeftBehind
  AllOrNothing
