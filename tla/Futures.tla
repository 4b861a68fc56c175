------------------------------- MODULE Futures -------------------------------
(***************************************************************************)
(* ptvsd/futures.py, class Future on top of class EventLoop.               *)
(*                                                                         *)
(* Any thread may resolve a future (set_result, set_exc_info) or register  *)
(* a callback (add_done_callback); the callbacks the resolver snapshots    *)
(* are called by the event loop, one that is registered later is called    *)
(* by the registering thread.  Both operations are a lock section followed *)
(* by a step outside the lock, and op holds what a thread has still to do  *)
(* after it left the lock section.                                         *)
(*                                                                         *)
(* The loop thread performs the same operations from inside the functions  *)
(* it calls (async's callback awaits the next future, resolves its own).   *)
(***************************************************************************)
EXTENDS Sequences, Naturals, FiniteSets, SequencesExt

CONSTANTS
  Future,
  Callback,      \* registrations: each is made at most once
  Client,        \* the threads other than ptvsd.EventLoop
  LoopThread,    \* ptvsd.EventLoop
  None           \* no future, no function

ASSUME ThreadAssumption == LoopThread \notin Client
ASSUME NoneAssumption == None \notin Future

VARIABLES
  queue, event, stop, pc, batch, current,   \* the event loop
  outcome,     \* Future -> "pending" (_done is false), "result" or "exception"
  callbacks,   \* Future -> _done_callbacks
  op,          \* Thread -> what the thread does after its lock section
  todo,        \* callbacks invoke_callbacks has still to call on the loop thread
  owner,       \* history: Callback -> the future it was registered with
  removed,     \* history: callbacks taken back before their future was resolved
  calls        \* history: Callback -> how often it was called

loopVars == <<queue, event, stop, pc, batch, current>>
futVars == <<outcome, callbacks>>
history == <<owner, removed, calls>>
vars == <<loopVars, futVars, op, todo, history>>

Thread == Client \cup {LoopThread}

\* invoke_callbacks of a resolved future, with the snapshot it closes over
Closure == [fut : Future, cbs : Seq(Callback)]

ASSUME NoClosureAssumption == None \notin Closure

Loop ==
  INSTANCE EventLoop WITH Fn <- Closure, NoFn <- None,
                          MaxQueue <- Cardinality(Future)

Idle == [do |-> "idle", fut |-> None, cbs |-> <<>>]
Op == {Idle} \cup [do : {"post", "inline"}, fut : Future, cbs : Seq(Callback)]

Init ==
  /\ Loop!Init
  /\ outcome = [f \in Future |-> "pending"]
  /\ callbacks = [f \in Future |-> <<>>]
  /\ op = [t \in Thread |-> Idle]
  /\ todo = <<>>
  /\ owner = [c \in Callback |-> None]
  /\ removed = {}
  /\ calls = [c \in Callback |-> 0]

\* The loop thread can only start an operation from inside a queued function.
CanStart(t) ==
  /\ op[t] = Idle
  /\ t = LoopThread => pc = "call"

Called(c) == calls' = [calls EXCEPT ![c] = @ + 1]

-----------------------------------------------------------------------------
\* set_result, set_exc_info: the lock section.  Every future of the program has
\* one resolver (PydevdSocket.send pops the request before it resolves it, and
\* async resolves its own result once), which the first conjunct states.
Resolve(t, f, how) ==
  /\ CanStart(t)
  /\ outcome[f] = "pending"
  /\ outcome' = [outcome EXCEPT ![f] = how]
  /\ op' = [op EXCEPT ![t] = [do |-> "post", fut |-> f, cbs |-> callbacks[f]]]
  /\ UNCHANGED <<loopVars, callbacks, todo, history>>

\* ... and then self._loop.call_soon(invoke_callbacks).
\* mutant: the callbacks are read when posting, after the lock was released
PostInvokeLate(t) ==
  /\ op[t].do = "post"
  /\ Loop!CallSoon([fut |-> op[t].fut, cbs |-> callbacks[op[t].fut]])
  /\ op' = [op EXCEPT ![t] = Idle]
  /\ UNCHANGED <<futVars, todo, history>>

PostInvoke(t) ==
  /\ op[t].do = "post"
  /\ Loop!CallSoon([fut |-> op[t].fut, cbs |-> op[t].cbs])
  /\ op' = [op EXCEPT ![t] = Idle]
  /\ UNCHANGED <<futVars, todo, history>>

-----------------------------------------------------------------------------
\* add_done_callback: the lock section reads _done and appends.

\* mutant: a callback of a resolved future is only appended
RegisterNoCall(t, f, c) ==
  /\ CanStart(t)
  /\ owner[c] = None
  /\ owner' = [owner EXCEPT ![c] = f]
  /\ callbacks' = [callbacks EXCEPT ![f] = Append(@, c)]
  /\ UNCHANGED <<loopVars, outcome, op, todo, removed, calls>>

Register(t, f, c) ==
  /\ CanStart(t)
  /\ owner[c] = None
  /\ owner' = [owner EXCEPT ![c] = f]
  /\ callbacks' = [callbacks EXCEPT ![f] = Append(@, c)]
  /\ op' = IF outcome[f] = "pending" THEN op
           ELSE [op EXCEPT ![t] = [do |-> "inline", fut |-> f, cbs |-> <<c>>]]
  /\ UNCHANGED <<loopVars, outcome, todo, removed, calls>>

\* ... and then callback(self), on the registering thread.
CallInline(t) ==
  /\ op[t].do = "inline"
  /\ Called(op[t].cbs[1])
  /\ op' = [op EXCEPT ![t] = Idle]
  /\ UNCHANGED <<loopVars, futVars, todo, owner, removed>>

\* remove_done_callback; list.remove raises when the callback is not there.
Unregister(t, f, c) ==
  /\ CanStart(t)
  /\ Contains(callbacks[f], c)
  /\ callbacks' = [callbacks EXCEPT ![f] = RemoveFirst(@, c)]
  /\ removed' = IF outcome[f] = "pending" THEN removed \cup {c} ELSE removed
  /\ UNCHANGED <<loopVars, outcome, op, todo, owner, calls>>

-----------------------------------------------------------------------------
\* The loop thread: run_forever, with invoke_callbacks as the queued function.
StartInvoke ==
  /\ Loop!StartFn
  /\ todo' = current'.cbs
  /\ UNCHANGED <<futVars, op, history>>

CallNext ==
  /\ pc = "call"
  /\ op[LoopThread] = Idle
  /\ todo # <<>>
  /\ Called(Head(todo))
  /\ todo' = Tail(todo)
  /\ UNCHANGED <<loopVars, futVars, op, owner, removed>>

\* mutant: invoke_callbacks returns without waiting for the nested operation
EndInvokeForgets ==
  /\ todo = <<>>
  /\ pc = "call"
  /\ pc' = "run"
  /\ UNCHANGED <<queue, event, stop, batch, current, futVars, op, todo, history>>

EndInvoke ==
  /\ op[LoopThread] = Idle
  /\ todo = <<>>
  /\ Loop!EndFn
  /\ UNCHANGED <<futVars, op, todo, history>>

LoopIdleStep ==
  /\ Loop!TestStop \/ Loop!WaitWakes \/ Loop!WaitTimesOut \/ Loop!Swap \/ Loop!BatchDone
  /\ UNCHANGED <<futVars, op, todo, history>>

StopLoop ==
  /\ Loop!Stop
  /\ UNCHANGED <<futVars, op, todo, history>>

LoopStep == LoopIdleStep \/ StartInvoke \/ CallNext \/ EndInvoke

ThreadStep(t) == PostInvoke(t) \/ CallInline(t)

Next ==
  \/ \E t \in Thread :
       \/ \E f \in Future, how \in {"result", "exception"} : Resolve(t, f, how)
       \/ \E f \in Future, c \in Callback : Register(t, f, c) \/ Unregister(t, f, c)
       \/ ThreadStep(t)
  \/ LoopStep
  \/ StopLoop

\* A thread that has left a lock section goes on; the loop thread keeps being
\* scheduled and callbacks return (async's callback catches every exception).
Fairness == WF_vars(LoopStep) /\ \A t \in Thread : WF_vars(ThreadStep(t))

Spec == Init /\ [][Next]_vars /\ Fairness

-----------------------------------------------------------------------------
TypeOK ==
  /\ Loop!TypeOK
  /\ outcome \in [Future -> {"pending", "result", "exception"}]
  /\ callbacks \in [Future -> Seq(Callback)]
  /\ op \in [Thread -> Op]
  /\ todo \in Seq(Callback)
  /\ owner \in [Callback -> Future \cup {None}]
  /\ removed \in SUBSET Callback
  /\ calls \in [Callback -> Nat]

\* A callback is called at most once, whether the thread that resolves the future
\* or the thread that registers the callback wins the race for the lock: the
\* continuation of a request handler must not run twice.  It is never called before
\* its future is resolved, on either path, nor after it was taken back in time.
AtMostOnce ==
  \A c \in Callback :
    /\ calls[c] <= 1
    /\ calls[c] > 0 => owner[c] # None /\ outcome[owner[c]] # "pending"
    /\ c \in removed => calls[c] = 0

\* A callback of a resolved future is called, unless it was taken back or the loop
\* is stopped: no interleaving of set_result and add_done_callback loses one.
EveryCallbackRuns ==
  \A c \in Callback :
    (owner[c] # None /\ outcome[owner[c]] # "pending" /\ Contains(callbacks[owner[c]], c))
      ~> (calls[c] = 1 \/ stop)
=============================================================================
