\* Two workspaces of the same name in two namespaces, hence one lease name.
SPECIFICATION Spec
CONSTANTS
  p1 = p1  p2 = p2  p3 = p3
  w1 = w1  w2 = w2  n1 = n1
  None = None
  Pods = {p1, p2}
  Workspaces <- TwoWorkspaces
  LeaseNames <- OneName
  leaseName <- SameName
  Duration = 1
  RefreshEvery = 1
  Restartable = {}
  MaxFaults = 0
  Stalls = FALSE
  StaleReads = FALSE
SYMMETRY AllSymmetry
INVARIANTS EntryNeverMissing
