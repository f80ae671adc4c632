SPECIFICATION Spec
CONSTANTS
  M = 164
  TX_START_DELAY = 0
  TX_MARGIN_DELAY = 0
  TX_JIT_DELAY = 6
  TX_MAX_ADVANCE_DELAY = 30
  BEACON_GUARD = 4
  BEACON_RESERVED = 2
  ASAP_DELAY = 8
  JIT_QUEUE_MAX = 2
  Payload = {p1, p2}
  TimeOnAir = {0, 5}
  PktTypes = {"CLASS_A", "CLASS_C"}
  START_COUNT = 150
  RECV_UNTIL = 8
  MAX_RECV = 2
  MAX_FAULTS = 1
  PERIOD = 2
  DOWN_LAG = 2
  TCXO_STARTUP = 1
  LONGEST = 5
  Leads = {7, 30}
  NoRequest = NoRequest
PROPERTY QueueDrains
CHECK_DEADLOCK TRUE
