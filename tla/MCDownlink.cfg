SPECIFICATION Spec
CONSTANTS
  M = 256
  TX_START_DELAY = 0
  TX_MARGIN_DELAY = 0
  TX_JIT_DELAY = 6
  TX_MAX_ADVANCE_DELAY = 40
  BEACON_GUARD = 4
  BEACON_RESERVED = 2
  ASAP_DELAY = 8
  JIT_QUEUE_MAX = 2
  Payload = {p1, p2}
  TimeOnAir = {0, 5}
  PktTypes = {"CLASS_A", "CLASS_C"}
  START_COUNT = 240
  RECV_UNTIL = 8
  MAX_RECV = 3
  MAX_FAULTS = 1
  PERIOD = 2
  DOWN_LAG = 2
  TCXO_STARTUP = 1
  LONGEST = 5
  Leads = {7, 12, 40}
  NoRequest = NoRequest
INVARIANTS
  TypeOK
  OnTime
  AtMostOnce
  OneEmission
  TxAccounted
PROPERTIES
  IndexStable
  Refines
CHECK_DEADLOCK TRUE
SYMMETRY Identities
