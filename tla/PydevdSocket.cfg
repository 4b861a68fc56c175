SPECIFICATION Spec
CONSTANTS
  Sender = {s1, s2}
  MaxSeq = 3
  MaxEvents = 1
INVARIANTS TypeOK RepliesMatched
PROPERTIES EveryReplyResolves
CHECK_DEADLOCK FALSE
