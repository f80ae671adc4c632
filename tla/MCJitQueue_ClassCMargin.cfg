SPECIFICATION Spec
CONSTANTS
  M = 92
  TX_START_DELAY = 1
  TX_MARGIN_DELAY = 1
  TX_JIT_DELAY = 1
  TX_MAX_ADVANCE_DELAY = 11
  BEACON_GUARD = 2
  BEACON_RESERVED = 2
  ASAP_DELAY = 4
  JIT_QUEUE_MAX = 3
  Payload = {pl}
  TimeOnAir = {1}
  PktTypes = {"CLASS_A", "CLASS_C"}
  Leads = {3, 4, 7, 12}
  Steps = {1, 4}
  MAX_LATE = 15
  LONGEST = 2
  HORIZON = 30
INVARIANT ClassCMargin
