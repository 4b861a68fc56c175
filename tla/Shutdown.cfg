SPECIFICATION Spec
CONSTANTS
  Leaves = {"eof", "cut", "reset"}
  Requests = {"config", "pause", "disconnect", "unknown"}
  MaxRequests = 2
INVARIANTS
  TypeOK
  AnnouncedOnce
  DisconnectHonoured
  AnsweredOnce
CHECK_DEADLOCK FALSE
