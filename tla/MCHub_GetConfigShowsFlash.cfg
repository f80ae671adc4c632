SPECIFICATION Spec
CONSTANTS
  Default <- MCDefault
  Posts <- MCPosts
  MAXIMUM_RETRY = 1
  AUTOQUIT_THRESHOLD = 10
INVARIANT
  GetConfigShowsFlash
CHECK_DEADLOCK TRUE
