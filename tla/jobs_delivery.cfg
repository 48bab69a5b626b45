SPECIFICATION Spec
CONSTANTS
  j1 = j1
  j2 = j2
  j3 = j3
  key = key
  small = small
  large = large
  None = None
  Jobs = {j1, j2}
  Workers = {1, 2}
  Relays = {1, 2}
  KeyOf <- NoKeys
  SpecOf <- SameSpec
  Unroutable = {}
  Unhandled = {j2}
  BatchSize = 1
  CopiesBound = 1
  Faults = {"relay", "worker", "timeout"}
INVARIANTS TypeOK QueuedIsCarried
PROPERTIES ImplementsJobLifecycle
CHECK_DEADLOCK FALSE
