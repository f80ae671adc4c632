SPECIFICATION Spec
CONSTANTS
  Tokens = {t1, t2}
  Downlinks = {d1}
  AUTOQUIT_THRESHOLD = 2
  STAT_PULLS = 2
  MAX_RESP = 2
INVARIANTS
  TypeOK
  QuitIffSilent
  AckedOnce
  RejectedWithinRequested
  TxAckTruthful
PROPERTY SilenceRestarts
CHECK_DEADLOCK TRUE
