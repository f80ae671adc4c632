SPECIFICATION Spec
CONSTANTS
  Tokens = {t1, t2}
  Forwarded = {"CRC_OK"}
  MAX_RX = 2
  MAX_REPORTS = 2
INVARIANTS
  TypeOK
  NothingLost
  ReportConsistent
  ReportWhole
  ReportSentOnce
PROPERTY ReportServed
CHECK_DEADLOCK TRUE
