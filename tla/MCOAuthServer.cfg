SPECIFICATION Spec
CONSTANTS
  Tokens = {"a", "b"}
  TIMEOUT = 2
  MaxRequests = 2
PROPERTIES AuthenticationEnds
CHECK_DEADLOCK FALSE
