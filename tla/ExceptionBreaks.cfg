SPECIFICATION Spec
CONSTANTS
  Exceptions = {"KeyError", "Gone"}
  Missing = {"Gone"}
  Modes = {"always", "unhandled"}
  MaxOptions = 2
  MaxRequests = 2
  MaxRaises = 1
INVARIANTS
  TypeOK
  TablesAsRequested
  InfoOfTheStop
\* The session may end: no more requests, and the thread has ended.
CHECK_DEADLOCK FALSE
