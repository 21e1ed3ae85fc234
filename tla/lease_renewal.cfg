\* Two pods, one workspace: two crashes or failed calls, restarts in place; fresh
\* reads.
SPECIFICATION LiveSpec
CONSTANTS
  p1 = p1  p2 = p2  p3 = p3
  w1 = w1  w2 = w2  n1 = n1
  None = None
  Pods = {p1, p2}
  Workspaces <- OneWorkspace
  LeaseNames <- OneName
  leaseName <- OnlyName
  Duration = 2
  RefreshEvery = 1
  Restartable = {p1, p2}
  MaxFaults = 2
  Stalls = FALSE
  StaleReads = FALSE
INVARIANTS TypeOK WorkerHoldsLease
PROPERTIES AlwaysHandledAgain
