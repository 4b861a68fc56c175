SPECIFICATION TrackingSpec
CONSTANTS
  Tid = {main, daemon}
  Internal = {daemon}
  NoTid = NoTid
  MaxThreads = 2
  MaxStops = 1
  MaxId = 3
INVARIANTS TrackingTypeOK NoGhostThreads
PROPERTIES EveryThreadStarted
CHECK_DEADLOCK FALSE
