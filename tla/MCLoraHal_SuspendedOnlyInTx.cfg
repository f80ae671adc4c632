SPECIFICATION Spec
CONSTANTS
  MAX_EVENTS = 3
  MAX_SENDS = 2
  MAX_FAULTS = 0
INVARIANT SuspendedOnlyInTx
