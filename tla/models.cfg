SPECIFICATION Spec
CONSTANTS
  whole = whole
  part = part
  r1 = r1
  r2 = r2
  w1 = w1
  a1 = a1
  c1 = c1
  f1 = f1
  f2 = f2
  f3 = f3
  None = None
  Versions = {whole, part}
  PartOf <- SplitOfWhole
  Runs = {r1, r2}
  TargetOf <- WholeThenPart
  DryRuns = {r2}
  Rules = {w1}
  Actors = {a1}
  Corrections = {c1}
  PatchOf <- ToWhole
  Models = {1, 2}
  DataOf <- OnWhole
  TrainOf <- OnPart
  Fits = {f1, f2, f3}
  FitOf <- TwoForFirst
INVARIANTS TypeOK ValidatedByReport
PROPERTIES ApprovedOnStanding ReservedDataKept ImplementsModelStanding
SYMMETRY Alike
CHECK_DEADLOCK FALSE
