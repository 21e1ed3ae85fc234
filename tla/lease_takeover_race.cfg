\* Two pods take over the lease of a third, crashed one.
SPECIFICATION Spec
CONSTANTS
  p1 = p1  p2 = p2  p3 = p3
  w1 = w1  w2 = w2  n1 = n1
  None = None
  Pods = {p1, p2, p3}
  Workspaces <- OneWorkspace
  LeaseNames <- OneName
  leaseName <- OnlyName
  Duration = 2
  RefreshEvery = 1
  Restartable = {}
  MaxFaults = 1
  Stalls = FALSE
  StaleReads = FALSE
SYMMETRY PodSymmetry
INVARIANTS AlwaysExclusive
