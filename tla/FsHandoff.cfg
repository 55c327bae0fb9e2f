SPECIFICATION FsSpec
CONSTANTS
  p1 = p1  p2 = p2  o1 = o1  o2 = o2  o3 = o3  l1 = l1  l2 = l2  l3 = l3
  Path <- OnePath
  ancestor_paths <- MCancestor_paths
  Rank <- MCRank
  Proc = {p1, p2}
  Owner = {o1}
  Lease = {l1, l2, l3}
  NoProc = NoProc  NoOwner = NoOwner  NoLease = NoLease
  Request <- RequestFile
  Skew <- NoSkew
  TTL = 2
  Validity = 1
  CleanupWindow = 2
  MaxTime = 1
  MaxHandoffs = 1
  Crashing = {p1, p2}
  Outcome = {TRUE, FALSE}
SYMMETRY IdsAndProcs
INVARIANTS
  AdoptedOnce
PROPERTIES
  SourceRestored
