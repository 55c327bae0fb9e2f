SPECIFICATION Spec
CONSTANTS
  p1 = p1  p2 = p2  o1 = o1  o2 = o2  o3 = o3  l1 = l1  l2 = l2  l3 = l3
  Path <- MCPath
  ancestor_paths <- MCancestor_paths
  Rank <- MCRank
  Proc = {p1, p2}
  Owner = {o1, o2}
  Lease = {l1, l2}
  NoProc = NoProc  NoOwner = NoOwner  NoLease = NoLease
  Request <- RequestEither
  Skew <- MCSkew
  TTL = 3
  Validity = 2
  CleanupWindow = 2
  MaxTime = 3
  MaxHandoffs = 1
  Crashing = {p1}
  Outcome = {TRUE}
SYMMETRY Ids
INVARIANTS
  MutualExclusion
  HolderBacked
  Undisputed
PROPERTIES
  ImplementsLeaseLock
