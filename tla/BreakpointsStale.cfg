SPECIFICATION Spec
CONSTANTS
  Source = {f, g}
  NoSource = NoSource
  Line = {1, 2}
  MaxLines = 2
  MaxRequests = 3
INVARIANT OldOnesDeleted
CHECK_DEADLOCK FALSE
