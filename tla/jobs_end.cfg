SPECIFICATION FairSpec
CONSTANTS
  j1 = j1
  j2 = j2
  j3 = j3
  key = key
  small = small
  large = large
  None = None
  Jobs = {j1, j2}
  Workers = {1}
  Relays = {1}
  KeyOf <- NoKeys
  SpecOf <- SameSpec
  Unroutable = {j2}
  Unhandled = {}
  BatchSize = 2
  CopiesBound = 1
  Faults = {"relay", "timeout"}
PROPERTIES FinishedIsHistory EveryJobEnds
CHECK_DEADLOCK FALSE
