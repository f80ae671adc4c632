SPECIFICATION Spec
CONSTANTS
  Default <- MCDefault
  Posts <- MCPosts
  MAXIMUM_RETRY = 1
  AUTOQUIT_THRESHOLD = 10
INVARIANTS
  TypeOK
  SavedIsLoaded
  DetectorsValid
  AcceptedIsUsed
PROPERTIES
  
  StrandedRestarts
CHECK_DEADLOCK TRUE
