SPECIFICATION Spec
CONSTANTS
  v1 = v1
  v2 = v2
  h1 = h1
  h2 = h2
  c1 = c1
  c2 = c2
  q1 = q1
  q2 = q2
  b1 = b1
  None = None
  Versions = {v1, v2}
  Bundles = {h1, h2}
  Capacity = 1
  Compiles = {c1}
  Quotes = {q1}
  Others = {b1}
  Released <- SecondReleased
  Served <- Second
  MaxDeployments = 2
  Faults = {"metadata", "store"}
CONSTRAINT Unproduced
INVARIANTS TypeOK SlotCoherent PricedAsRecorded ReviewedAsChecked TraceTellsPrice
PROPERTIES ImplementsPricedQuotes
