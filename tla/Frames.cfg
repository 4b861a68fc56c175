SPECIFICATION Spec
CONSTANTS
  a = a
  b = b
  f = f
  g = g
  Tid <- MCTid
  Frame <- MCFrame
  NoFrame = NoFrame
  Asked = {a}
  MaxStops = 2
  StopsIn <- MCStopsIn
  MaxRequests = 4
  MaxWork = 5
INVARIANTS TypeOK HeldIdsResolve IdsCleared
PROPERTIES AnsweredUnlessResumed
CHECK_DEADLOCK FALSE
