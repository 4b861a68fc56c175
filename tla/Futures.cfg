SPECIFICATION Spec
CONSTANTS
  Future = {fut1, fut2}
  Callback = {c1, c2}
  Client = {t1, t2}
  LoopThread = loop
  None = None
INVARIANTS TypeOK AtMostOnce
PROPERTIES EveryCallbackRuns
CHECK_DEADLOCK FALSE
