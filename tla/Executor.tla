------------------------------ MODULE Executor ------------------------------
(***************************************************************************)
(* What the event loop of ptvsd/futures.py promises its users: functions   *)
(* are called one at a time, in the order in which they were posted, each  *)
(* once per posting, until the loop halts; it halts only after a request   *)
(* to stop, and never between two functions it had begun to drain.         *)
(***************************************************************************)
EXTENDS Sequences

CONSTANTS Fn, NoFn

VARIABLES
  pending,     \* posted and not yet called, oldest first
  running,     \* the function being called, or NoFn
  stopping,    \* a stop was requested
  halted       \* no function will be called any more

vars == <<pending, running, stopping, halted>>

Init ==
  /\ pending = <<>>
  /\ running = NoFn
  /\ stopping = FALSE
  /\ halted = FALSE

Submit(f) ==
  /\ pending' = Append(pending, f)
  /\ UNCHANGED <<running, stopping, halted>>

Begin ==
  /\ ~halted
  /\ running = NoFn
  /\ pending # <<>>
  /\ running' = Head(pending)
  /\ pending' = Tail(pending)
  /\ UNCHANGED <<stopping, halted>>

End ==
  /\ running # NoFn
  /\ running' = NoFn
  /\ UNCHANGED <<pending, stopping, halted>>

RequestStop ==
  /\ stopping' = TRUE
  /\ UNCHANGED <<pending, running, halted>>

Halt ==
  /\ stopping
  /\ running = NoFn
  /\ halted' = TRUE
  /\ UNCHANGED <<pending, running, stopping>>

Next ==
  \/ \E f \in Fn : Submit(f)
  \/ Begin
  \/ End
  \/ RequestStop
  \/ Halt

Safe == Init /\ [][Next]_vars
=============================================================================
