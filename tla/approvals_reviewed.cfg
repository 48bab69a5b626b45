SPECIFICATION Spec
CONSTANTS
  ann = ann
  bob = bob
  cal = cal
  dan = dan
  v1 = v1
  r1 = r1
  r2 = r2
  r3 = r3
  None = None
  Principals = {ann, bob, cal, dan}
  Submitters = {ann, bob}
  Deciders = {ann, bob, cal, dan}
  Versions = {v1}
  Requests = {r1, r2, r3}
  AuthorOf <- WrittenByAnn
  EvidenceAuthors <- NobodyOrBob
  Policies <- TwoOfThree
INVARIANTS TypeOK FourEyes ReviewMatchesRequest LiveHasApproval
PROPERTIES ImplementsReviewedVersions
SYMMETRY AlikeRequests
CHECK_DEADLOCK FALSE
