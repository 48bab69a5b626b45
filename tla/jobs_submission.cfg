SPECIFICATION Spec
CONSTANTS
  j1 = j1
  j2 = j2
  j3 = j3
  key = key
  small = small
  large = large
  None = None
  Jobs = {j1, j2, j3}
  Workers = {1}
  Relays = {1}
  KeyOf <- OneKey
  SpecOf <- OneDiffers
  Unroutable = {}
  Unhandled = {j2}
  BatchSize = 2
  CopiesBound = 2
  Faults = {"relay", "worker", "timeout", "database", "broker", "slow_write"}
INVARIANTS OneAnswerPerKey CommittedBeforePublished
PROPERTIES ImplementsJobLifecycle
CHECK_DEADLOCK FALSE
