SPECIFICATION MapSpec
CONSTANTS
  Thread = {server, loop, writer}
  Remover = writer
  Entity = {p, q}
  NoEntity = NoEntity
  NoThread = NoThread
  MaxId = 4
INVARIANTS MapTypeOK NeverReassigned LookupConsistent OneIdUnlessContended RemoveNeverRaises
CHECK_DEADLOCK FALSE
