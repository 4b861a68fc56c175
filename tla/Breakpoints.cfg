SPECIFICATION Spec
CONSTANTS
  Source = {f, g}
  NoSource = NoSource
  Line = {1, 2}
  MaxLines = 2
  MaxRequests = 3
INVARIANTS TypeOK NoneLost OneSourceExact BreakpointsBeforeRun
CHECK_DEADLOCK FALSE
