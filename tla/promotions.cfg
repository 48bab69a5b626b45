SPECIFICATION Spec
CONSTANTS
  uat = uat
  prod = prod
  v1 = v1
  r1 = r1
  r2 = r2
  d1 = d1
  d2 = d2
  d3 = d3
  None = None
  Environments = {uat, prod}
  Versions = {v1}
  Requests = {r1, r2}
  Deployments = {d1, d2, d3}
  Prior <- UatThenProd
  Outcomes = {"approved", "withdrawn"}
  Policies <- ProdSkippable
INVARIANTS TypeOK ExecutedOnce HeldReadsStayTrue NumberedInOrder PromotedInOrder
PROPERTIES ImplementsLadder
SYMMETRY Alike
CHECK_DEADLOCK FALSE
