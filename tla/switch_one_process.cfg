SPECIFICATION Spec
CONSTANTS
  d1 = d1
  d2 = d2
  p1 = p1
  p2 = p2
  w1 = w1
  w2 = w2
  uat = uat
  prod = prod
  None = None
  Processes = {p1}
  Deploys = {d1, d2}
  Workspaces = {w1}
  Environments = {prod}
  InitialEnvironments = {prod}
  WorkspaceOf <- OneWorkspace
  EnvironmentOf <- OneEnvironment
  PendingBound = 1
  Faults = {"process", "connection", "database", "coordinator"}
INVARIANTS TypeOK RecordFirst
PROPERTIES NoBackwardPass AcknowledgedSwapHappened ImplementsServedDeployments
CHECK_DEADLOCK FALSE
