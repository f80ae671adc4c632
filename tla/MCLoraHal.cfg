SPECIFICATION Spec
CONSTANTS
  MAX_EVENTS = 3
  MAX_SENDS = 2
  MAX_FAULTS = 2
INVARIANTS
  TypeOK
  Listening
  OwnMetadata
  InOrder
  EmittingIsTrue
PROPERTIES
  LostOnlyToSend
  UplinkServed
CHECK_DEADLOCK TRUE
