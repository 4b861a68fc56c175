SPECIFICATION Spec
CONSTANTS
  Fn = {f1, f2}
  NoFn = NoFn
  MaxQueue = 3
INVARIANTS TypeOK NoLostWakeup
PROPERTIES ImplementsExecutor EveryFnRuns
CHECK_DEADLOCK FALSE
