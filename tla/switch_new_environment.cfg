SPECIFICATION FairSpec
CONSTANTS
  d1 = d1
  d2 = d2
  p1 = p1
  p2 = p2
  w1 = w1
  w2 = w2
  uat = uat
  prod = prod
  None = None
  Processes = {p1}
  Deploys = {d1}
  Workspaces = {w1}
  Environments = {prod, uat}
  InitialEnvironments = {prod}
  WorkspaceOf <- OneWorkspace
  EnvironmentOf <- OneEnvironment
  PendingBound = 1
  Faults = {"connection", "database"}
PROPERTIES SubscribesUnlessLost
CHECK_DEADLOCK FALSE
