SPECIFICATION Spec
CONSTANTS
  Leaves = {"cut", "reset"}
  Requests = {"pause", "disconnect"}
  MaxRequests = 1
PROPERTIES
  CloseEnds
  ServerEnds
CHECK_DEADLOCK FALSE
