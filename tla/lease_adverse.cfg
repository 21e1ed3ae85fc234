\* Stalled pods and stale reads: what the lease protocol keeps in spite of them.
SPECIFICATION Spec
CONSTANTS
  p1 = p1  p2 = p2  p3 = p3
  w1 = w1  w2 = w2  n1 = n1
  None = None
  Pods = {p1, p2}
  Workspaces <- OneWorkspace
  LeaseNames <- OneName
  leaseName <- OnlyName
  Duration = 1
  RefreshEvery = 1
  Restartable = {p1, p2}
  MaxFaults = 1
  Stalls = TRUE
  StaleReads = TRUE
SYMMETRY PodSymmetry
INVARIANTS Exclusive ReleasesOwnLease ReleaseFindsEntry
PROPERTIES ChangesHandsByDeletion
