SPECIFICATION FsSpec
CONSTANTS
  p1 = p1  p2 = p2  o1 = o1  o2 = o2  o3 = o3  l1 = l1  l2 = l2  l3 = l3
  Path <- MCPath
  ancestor_paths <- MCancestor_paths
  Rank <- MCRank
  Proc = {p1, p2}
  Owner = {o1, o2}
  Lease = {l1, l2}
  NoProc = NoProc  NoOwner = NoOwner  NoLease = NoLease
  Request <- MCRequest
  Skew <- MCSkew
  TTL = 2
  Validity = 1
  CleanupWindow = 2
  MaxTime = 2
  MaxHandoffs = 0
  Crashing = {p1}
  Outcome = {TRUE, FALSE}
SYMMETRY Ids
INVARIANTS
  MutualExclusion
PROPERTIES
  AllOrNothing
