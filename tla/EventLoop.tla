------------------------------ MODULE EventLoop ------------------------------
(***************************************************************************)
(* ptvsd/futures.py, class EventLoop: the callback queue drained by the    *)
(* thread ptvsd.EventLoop (run_forever) and filled by every other thread   *)
(* (call_soon, call_soon_threadsafe).                                      *)
(*                                                                         *)
(* A "with self._lock" block is one step; each test of self._stop, each    *)
(* wait on the event and the call of each queued function are steps of     *)
(* their own, so a caller may run between any two of them.  A queued       *)
(* function is a member of Fn: StartFn is the call, EndFn its return.      *)
(***************************************************************************)
EXTENDS Sequences, Naturals

CONSTANTS
  Fn,          \* the (function, arguments) pairs that may be queued
  NoFn,        \* run_forever is not inside a queued function
  MaxQueue     \* bound: call_soon is not modelled past this queue length

ASSUME NoFnAssumption == NoFn \notin Fn
ASSUME MaxQueueAssumption == MaxQueue \in Nat

VARIABLES
  queue,       \* self._queue
  event,       \* self._event is set
  stop,        \* self._stop
  pc,          \* where the loop thread is in run_forever
  batch,       \* local queue of run_forever: what is left of the swapped list
  current      \* the queued function the loop thread is inside of, or NoFn

vars == <<queue, event, stop, pc, batch, current>>

LoopPc == {"test", "wait", "swap", "run", "call", "exited"}

Init ==
  /\ queue = <<>>
  /\ event = TRUE
  /\ stop = FALSE
  /\ pc = "test"
  /\ batch = <<>>
  /\ current = NoFn

-----------------------------------------------------------------------------
\* Operations of the other threads (and of functions run by the loop).

\* mutant: the append without the wake-up
CallSoonSilent(f) ==
  /\ queue' = Append(queue, f)
  /\ UNCHANGED <<event, stop, pc, batch, current>>

\* mutant: the newest function overtakes the older ones
CallSoonAtFront(f) ==
  /\ queue' = <<f>> \o queue
  /\ event' = TRUE
  /\ UNCHANGED <<stop, pc, batch, current>>

CallSoon(f) ==
  /\ queue' = Append(queue, f)
  /\ event' = TRUE
  /\ UNCHANGED <<stop, pc, batch, current>>

Stop ==
  /\ stop' = TRUE
  /\ UNCHANGED <<queue, event, pc, batch, current>>

-----------------------------------------------------------------------------
\* The loop thread.

TestStop ==
  /\ pc = "test"
  /\ pc' = IF stop THEN "exited" ELSE "wait"
  /\ UNCHANGED <<queue, event, stop, batch, current>>

WaitWakes ==
  /\ pc = "wait"
  /\ event
  /\ pc' = "swap"
  /\ UNCHANGED <<queue, event, stop, batch, current>>

WaitTimesOut ==
  /\ pc = "wait"
  /\ ~event
  /\ pc' = "test"
  /\ UNCHANGED <<queue, event, stop, batch, current>>

Swap ==
  /\ pc = "swap"
  /\ batch' = queue
  /\ queue' = <<>>
  /\ event' = FALSE
  /\ pc' = "run"
  /\ UNCHANGED <<stop, current>>

StartFn ==
  /\ pc = "run"
  /\ batch # <<>>
  /\ current' = Head(batch)
  /\ batch' = Tail(batch)
  /\ pc' = "call"
  /\ UNCHANGED <<queue, event, stop>>

\* mutant: the loop goes on as if it were still inside the function
EndFnForgets ==
  /\ pc = "call"
  /\ pc' = "run"
  /\ UNCHANGED <<queue, event, stop, batch, current>>

EndFn ==
  /\ pc = "call"
  /\ current' = NoFn
  /\ pc' = "run"
  /\ UNCHANGED <<queue, event, stop, batch>>

\* mutant: the event is cleared after the batch, outside the lock section
BatchDoneClears ==
  /\ pc = "run"
  /\ batch = <<>>
  /\ event' = FALSE
  /\ pc' = "test"
  /\ UNCHANGED <<queue, stop, batch, current>>

BatchDone ==
  /\ pc = "run"
  /\ batch = <<>>
  /\ pc' = "test"
  /\ UNCHANGED <<queue, event, stop, batch, current>>

LoopStep ==
  \/ TestStop \/ WaitWakes \/ WaitTimesOut \/ Swap
  \/ StartFn \/ EndFn \/ BatchDone

-----------------------------------------------------------------------------
Post(f) == Len(queue) < MaxQueue /\ CallSoon(f)

Next ==
  \/ \E f \in Fn : Post(f)
  \/ Stop
  \/ LoopStep

\* The operating system keeps scheduling the loop thread, and every queued
\* function returns.  Nothing makes a caller post or stop.
Fairness == WF_vars(LoopStep)

Spec == Init /\ [][Next]_vars /\ Fairness

-----------------------------------------------------------------------------
\* Types of the state, and that the loop is inside a function exactly at "call".
TypeOK ==
  /\ queue \in Seq(Fn)
  /\ event \in BOOLEAN
  /\ stop \in BOOLEAN
  /\ pc \in LoopPc
  /\ batch \in Seq(Fn)
  /\ current \in Fn \cup {NoFn}
  /\ (current = NoFn) <=> (pc # "call")

\* A queued function always has the event set behind it: run_forever clears the
\* event in the lock section that empties the queue, and call_soon sets it in the
\* one that appends, so no caller's wake-up can fall between the two and be lost.
NoLostWakeup == queue # <<>> => event

\* Every function handed to call_soon is eventually called, unless somebody stops
\* the loop (VSCodeMessageProcessor.close does); and stop() makes run_forever return,
\* whatever the other threads go on posting: close() relies on it when it joins the
\* thread.
EveryFnRuns ==
  /\ \A f \in Fn :
       (\E i \in 1..Len(queue) : queue[i] = f) ~> (current = f \/ stop)
  /\ stop ~> (pc = "exited")

-----------------------------------------------------------------------------
\* The pending functions of the abstract executor are what is left of the batch
\* being drained followed by what has been queued since.
Abstract ==
  INSTANCE Executor WITH
    pending <- batch \o queue, running <- current,
    stopping <- stop, halted <- (pc = "exited")

\* The event loop implements Executor: FIFO order over the swapped batch and the
\* shared queue together, one call per posting, one function at a time, no call
\* after run_forever has returned, and it returns only when stop was called.
ImplementsExecutor == Abstract!Safe
=============================================================================
