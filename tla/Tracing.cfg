SPECIFICATION Spec
CONSTANTS
  Outer = "main"
  Functions = {"f"}
  MaxLine = 2
  MaxDepth = 3
  MaxCommands = 2
INVARIANTS
  TypeOK
  BreakpointsHit
  StepStopsWhere
PROPERTIES
  StepEnds
  PauseTakesEffect
\* A suspended thread waits for the client, which has used up its commands.
CHECK_DEADLOCK FALSE
