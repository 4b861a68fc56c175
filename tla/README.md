# TLA+ models of ptvsd

ptvsd is the debug adapter that lives inside a Python process that is being debugged.  It
speaks the VS Code debug protocol (VSC) to a client over a socket and the line protocol of
pydevd to the debugger, which runs in the same process; `src/ptvsd/wrapper.py` translates
between the two.  pydevd believes it talks to a remote debugger over a socket: that socket
is a Python object of ptvsd, `PydevdSocket`.

Almost everything that can go wrong in it is a matter of threads.  A debug session has at
least six of them inside the process:

| thread | runs | touches |
| --- | --- | --- |
| `ptvsd.Server` (server thread) | `process_messages`: one VSC request after the other, every handler up to its first `yield` | all maps of the message processor, the pipe to pydevd |
| `ptvsd.EventLoop` (loop thread) | `EventLoop.run_forever`: the rest of the handlers that wait for pydevd | the same maps |
| pydevd reader | `ReaderThread._on_run`, `process_net_command` | pydevd's tables, the internal command queues |
| pydevd writer | `WriterThread._on_run`, hence `PydevdSocket.send` and all `on_pydevd_...` event handlers | the same maps, and the futures |
| pydevd command thread | `process_internal_commands` every half second | thread tables of pydevd |
| threads of the debuggee | the trace function, `do_wait_suspend` | |

## Components

State, operations and what makes each of them correct.  `PROJECT.json` has the same list
with the status of each.

| component | state | operations | interacts with | correct when | status |
| --- | --- | --- | --- | --- | --- |
| `EventLoop` (futures.py) | queue, event, stop flag | `call_soon`, `call_soon_threadsafe`, `run_forever`, `stop` | called by the writer thread and by futures | no lost wake-up; FIFO; each function once | `EventLoop`, refines `Executor` |
| `Future` (futures.py) | result, callbacks | `set_result`, `set_exc_info`, `add_done_callback`, `remove_done_callback` | the loop calls the callbacks | each callback once, never early, none lost | `Futures` |
| `async`, `async_handler` | the generator of a handler | first part on the server thread, rest on the loop | futures, `on_request` | every request gets one response | in `Frames`, `ThreadTracking` |
| `IDMap` | two dictionaries, next id, lock | `add`, `remove`, `pairs`, `to_vscode`, `to_pydevd` | all handlers, from three threads | ids are never reused; look-ups agree; removal never raises | `IDMap` |
| `PydevdSocket` | sequence counter, futures by number, pipe, lock | `make_packet`, `pydevd_notify`, `pydevd_request`, `recv`, `send`, `close` | pydevd's reader and writer | each reply reaches its own request, once | `PydevdSocket` |
| line breakpoints | `bp_map`; pydevd's two tables | `setBreakpoints`, `configurationDone`; CMD_SET_BREAK, CMD_REMOVE_BREAK, CMD_RUN | pipe | the lines in force are the requested ones | `Breakpoints` |
| threads | `thread_map`; pydevd's table of running threads | `threads`; CMD_THREAD_CREATE, _KILL, _SUSPEND, _RUN | writer and loop threads | the client's view follows the debuggee | `ThreadTracking` |
| suspended state | `stack_traces`, `frame_map`, `var_map` | `stackTrace`, `scopes`, `variables`, `evaluate`, `setVariable`; CMD_THREAD_SUSPEND, _RUN | server, loop and writer threads | what the client holds stands for the current stop | `Frames` |
| stepping and suspension | state, step command and stop frame of a thread; internal command queues | `next`, `stepIn`, `stepOut`, `continue`, `pause`; CMD_THREAD_SUSPEND, CMD_THREAD_RUN, CMD_STEP_...; `do_wait_suspend` | reader thread, traced thread | a command acts on the stop it was meant for | `Tracing` |
| trace function (pydevd_frame.py, pydevd_trace_dispatch_regular.py) | `f_trace` of the frames, two caches | call, line and return events | interpreter, reader thread | no breakpoint is passed | `Tracing`, partly |
| exception breakpoints | `exceptions`, `active_exceptions`; two tables of pydevd, the excepthook | `setExceptionBreakpoints`, `exceptionInfo`; CMD_ADD_EXCEPTION_BREAK, CMD_REMOVE_... | pipe, writer thread | tables follow the last request, a stop is told with its exception | `ExceptionBreaks` |
| shutdown | `_closed`, `_closing`, disconnect request and event | both `close` methods, `disconnect`, exit and signal handlers | every thread | ends once, answers the disconnect, leaves no thread waiting | `Shutdown` |
| message channel (ipcjson.py) | buffer, message list, exit flag, lock | dispatch, `send_event`, `send_response`, end of the stream | client | one response per request; ends at the end of the stream | in `Shutdown`; framing is not modelled |
| debugger_protocol | declared datatypes | coercion, validation | none at run time | data only | not modelled |
| safe_repr, untangle, reraise, command line, schema tools, the rest of vendored pydevd | | | | | not modelled, see below |

The behaviours that are hard here: look-ups without the lock that the update takes (IDMap);
a stack read under a lock and used after it; a reply that may overtake the code that
registers for it; lists of threads that are stale when they are worked on; internal commands
that wait for the next stop of their thread; handlers whose exceptions have nowhere to go;
three closers at once, each of which may call the other close method with a lock held; a
client that disconnects too late; caches of the trace function that are written from a
table read before it changed.  `PROJECT.json` lists each under
`hazards` with its line and the properties that cover it.

## Modules

A step of a model is what no other thread can split: a lock section, a look-up, a single
dictionary operation, a send.  Histories (variables that only record) are marked as such.
Operators under a `mutant:` comment are plausible mistakes in the definition that follows
them.  They are not part of the specification: each serves to check that a property
notices it.

**Executor** is what users of the event loop rely on: a FIFO of postings, one running at a
time, and a halt.  **EventLoop** is the code: the queue and the event under the lock, the
swap of the queue for a fresh list, and the tests of `_stop` between steps.  It implements
`Executor` under the mapping `pending <- batch \o queue`, `running <- current`,
`stopping <- stop`, `halted <- pc = "exited"`.
Code that raises inside a queued function is not modelled: the functions that are queued
catch what they call.

**Futures** puts `Future` on top of `EventLoop` (same variables, by INSTANCE).  Resolving
and registering are a lock section plus a step after it; both may happen on any thread,
the loop included.

**IDMap** models the dictionaries as functions.  `to_vscode` with `autogen` is a look-up and
a later `add`, as in the code; `add` and `remove` hold the lock for their two assignments,
one step each, because `to_vscode` and `to_pydevd` take no lock and may run in between
(`adding` and `removing` are the pairs in that state).  The only remover is the writer
thread, with a snapshot (`on_pydevd_thread_run`) or a look-up (`on_pydevd_thread_kill`).  The
histories are the pairs ever given out, and the entities for which two calls overlapped.

**PydevdSocket** has the senders, the pipe, pydevd as an environment that answers in any
order or with an error, and the writer thread in `send`, which ends when its handler raises
(an event without a handler, an error about a notification).  `send` only queues a reply on the
event loop (`queued`); the future is done when the loop comes to it (`LoopResolve`).  `close`
takes the lock and keeps it while it closes the processor, which stops the loop (`LoopStop`).
The calls `close` makes back into the processor are in `Shutdown`.

**Breakpoints** runs `on_setBreakpoints` command by command against `process_net_command`,
with the pipe between them.  An id of pydevd is scoped to a file; `consolidate_breakpoints`
recomputes the lines in force from that table.

**ThreadTracking** has the writer's handlers for threads and the loop's half of
`on_threads` as interleaved steps on one `thread_map`, and pydevd as the source of messages:
it notices a thread (CMD_THREAD_CREATE), suspends and resumes it, notices its end
(CMD_THREAD_KILL), and lists the threads that are alive, noticed or not, or answers with an
error, on which `on_threads` raises (`failed` counts these requests).

**Frames** has the five requests about a stopped thread on the server and loop threads, the
handlers of suspend and run on the writer, pydevd's execution of posted commands by the
thread itself, and a client that uses only ids it was given since the stop it knows of. A
stop has a number, counted over all threads, so that a request and a message tell which stop
they are about. The look-up and the add of `to_vscode` are two steps, on the server thread
(`ServerLookUp`, `ServerAdd`) and on the loop (`LoopLookUp`, `LoopAdd`); the halves of `add` and
of `remove` are merged, because between them a look-up finds what it found just before, and no
client has or uses the id. The client keeps every id it is given: of frames, of scopes, of the
children that `variables`, `evaluate` and `setVariable` find to be containers. The
threads are in `thread_map` throughout (its changes are `ThreadTracking`), and the values of
a stopped thread stay as they are, so that a variable that was listed can still be found.

**Shutdown** has three threads, each with a program counter and a stack of labels to return
to, because the two `close` methods call each other: `VSCodeMessageProcessor.close` (labels
`pTest` to `pDown`) and `PydevdSocket.close` (`sTest`, `sLock`, `sDone`).  The main thread runs
the exit handler, and SIGHUP can put the signal handler on top of whatever it is doing, inside a
close included.  The writer thread of pydevd closes the socket when it ends.  The server thread
reads requests and handles `configurationDone`, `pause`, `disconnect` and an unknown one,
each of which needs the socket's lock, the answer, or the exit flag.  An exception (`Raise`)
unwinds to the handler of its thread and releases the lock.  Each timed wait may end at any
time.  The connection is open, at its end between two messages (`eof`: the
server thread reads it again and again until the exit flag is set), cut inside a message (its
reading raises), reset, or closed by us.  The histories say whether two closers passed
the unlocked test of `_closed` together (`raced`), whether one began between the disconnect
handler's test and its close (`overtaken`), and whether a disconnect was stored before the
wait of two seconds was over (`stored`, `waited`).

**Tracing** runs an arbitrary program on a stack of frames under pydevd's two trace functions.
An event is a run of steps, `enter` (ThreadTracer with `cache_skips`), `readStop` and
`readCmd` (the copies of `pydev_step_stop` and `pydev_step_cmd`), `look` (what a return makes of
the step, by the copies; the breakpoints of the file; `can_skip`), `test` and `check`
(breakpoint or suspend flag, with the test of `pydev_state` before and after), `step` (is the
step over?) and `back` (what `f_trace` becomes).  The reader thread's commands fall between any
two of them: a breakpoint set or removed (the table with its caches, then the tracing of the
frames that exist), pause (the tracing, then the flag), continue (its three assignments), and
the three steps, which are only posted.  `do_wait_suspend` is `show`, `wait`, `leave` (the
command is read) and `mark` (the frame of a step is noted).  The program chooses each
line, call and return; `due` records that a line with a breakpoint was reached, `raced`
that a cache was written from an older table, `continued` and `from` what was asked last, and
whether an event has undone a continue.

**ExceptionBreaks** sends a request as one removal per old entry and one addition per new one.
The reader of pydevd applies a command in three steps (table of uncaught exceptions, table of
caught ones, excepthook) while a thread raises exceptions that are caught or not.  The
messages of a stop reach ptvsd's handlers later and in order: the exception, the
stop, the resumption, and that the exception is dealt with.

The theorems are in modules of their own that extend the components' modules: `FuturesProofs`,
`PydevdSocketProofs`, `BreakpointsProofs`, `FramesProofs`, `TracingProofs` and
`ExceptionBreaksProofs` have one component each, `SharedStateProofs` has `EventLoop` and `IDMap`, and
`SessionProofs` has `ThreadTracking` and `Shutdown`.  So that two components can be extended
together, the specification of `IDMap` is called `MapSpec` (with `MapInit`, `MapNext`,
`MapTypeOK`) and that of `ThreadTracking` `TrackingSpec`, and so on.  The TLC configurations
instantiate the modules themselves, as the constants are sets of model values and numbers;
only `Frames` has a module in between, `MCFrames`, which names the stops that may occur.

## Runs

| run | instance | shows |
| --- | --- | --- |
| EventLoop | 2 functions, queue up to 3 | wake-ups are kept (`NoLostWakeup`), the code implements `Executor`, every posted function runs or the loop is stopped, a stopped loop ends |
| Futures | 2 futures, 2 callbacks, 2 threads and the loop | a callback runs at most once, not before the result, not after its removal (`AtMostOnce`), and is not lost in the race of `set_result` with `add_done_callback` |
| IDMap | 3 threads (the writer is the remover), 2 entities, 4 ids | ids are never reassigned, look-ups lead back except to an id that is just being removed, two live ids need overlapping calls, the remover never fails |
| PydevdSocket | 2 senders, 3 numbers, 1 event | numbers are unique on their whole way, replies match, each future once (`RepliesMatched`), every answer resolves its future unless the writer thread has ended or the loop was stopped before |
| Breakpoints | 2 sources, 2 lines, 3 requests | none is lost; one source is exact; in force before the debuggee runs |
| BreakpointsStale | same | **violated**: `OldOnesDeleted`, see findings |
| ThreadTracking | a thread and an internal thread, 2 requests, 1 stop | stops are announced for known threads and the dead are taken back (`NoGhostThreads`), every thread is announced, every request answered unless pydevd could not make its list |
| Frames | 2 threads, 2 frames, 2 stops, 4 requests, 5 of both together, requests about one of the threads | the stack of the stop is there when the client asks, held ids stand for it, a resumed thread leaves nothing but what `late` and `doubled` name, requests are answered unless the thread resumes |
| Shutdown | 3 threads, 2 requests of 4 kinds, every way a client leaves | `exited` and `terminated` once and in this order, a disconnect in time is answered before the connection closes and a kill follows a complete close, no request is answered twice; the lock is with a thread inside close (`TypeOK`) |
| ShutdownEnds | the same, 1 request of 2 kinds, `cut` and `reset` | every close and every handler comes to an end, and the server thread after the exit flag |
| Tracing | 2 functions of 2 lines, depth 3, 2 commands of any kind | no breakpoint is passed outside two races, steps stop where they should and not after a continue, except in a race that is named, they end, and a pause stops the thread |
| ExceptionBreaks | 2 exceptions (one pydevd cannot import) and BaseException, 2 requests of 2 options, one caught and one uncaught exception | tables and hook follow the last request and agree with ptvsd's modes, a stop is told with its own exception |

Why these bounds suffice.  The races of these models involve two actors and one datum: two
threads and one entity, a request and one resumption, a list and one death.  Each
instance has at least one datum and one actor more than that, so that work on one thing can
disturb another (the second source, the second thread, the second frame, which tells
one stop from the next).  Three breakpoint requests are needed for f, g, f; three frame
requests for the longest chain of dependent ones (stackTrace, scopes, variables), and a fourth
so that `setVariable` and `variables` can meet at the same variable; two stops for a command that
is executed at a later stop than the one it was sent in.  To keep that instance small the
client asks about one of its two threads (`Asked`), the other one stops and resumes beside it,
the stops are those of `StopsIn` (the same thread in the same frame, in another one, or the
other thread), and stops and requests are five together (`MaxWork`): four requests at one stop
or three about two.  In `Tracing` a
depth of three tells the stepped frame from its caller and from the one it calls, and two
commands suffice for each pair that can race (set and remove a breakpoint, a step and a
continue, a pause and a continue); `BreakpointsHit` was also checked with three and four
commands at depth two.  In `Shutdown` two requests allow a disconnect behind a handler that waits
for the lock.  `ExceptionBreaks` leaves the mode "never" out of its instance, which
adds nothing to either table.  Deadlock
checking is off in every run because a session may stop asking: the specifications end in
states where the bounds are used up.

Fairness is weak fairness of the threads that the process schedules: the loop (`EventLoop`,
`Futures`), the writer thread, the server thread, pydevd's reader where its commands are
processed one by one, and in `ThreadTracking` and `Frames` the polling of
`process_internal_commands` (every half second by the command thread, every 10 ms by a
suspended thread, for each thread separately in `Frames`). In `Shutdown` a thread inside a close, the server thread and the end of
the process after the exit handler are scheduled, and a wait with a time-out ends. In
`Tracing` the traced thread and what the reader has begun of a command are fair; strong
fairness of returns at each depth and of lines in the outermost function is an assumption on
the debuggee that only the two liveness properties use: a debuggee that calls for ever never
comes back to the frame of a step. The client, the debuggee elsewhere and pydevd's decision
to answer in `PydevdSocket` have none. The timed waits of the code are steps that may always
be taken, so no property depends on a wait being long.

Some properties leave out what a history variable names: `crossed` and `failed` in
`ThreadTracking`, `late` and `doubled` in `Frames`, `raced` and `overtaken` in `Shutdown`, `raced`
and `continued` in `Tracing`.  These histories name,
as narrowly as the model can say it, the races in which the code really goes wrong.  Outside
them the properties hold, and each has a mutant that breaks them.

## Findings

A run that is expected to fail:

* `BreakpointsStale`: `on_setBreakpoints` forgets the breakpoints of every source but names
  the current path to pydevd, which does not know these ids there (wrapper.py:820-823).  The
  comment at wrapper.py:819 promises the deletion of those in that source; after
  f, g, f the first breakpoints of f are still in force and nothing can remove them.

Races and gaps that modelling showed and that the properties name as their exceptions:

* `IDMap` (`removing`): between the two `del` statements of `remove` (wrapper.py:113-114)
  `to_vscode` still returns an id on which `to_pydevd` raises KeyError.
* `PydevdSocket`: an event that `on_pydevd_event` does not know (wrapper.py:487-490), and an error
  about a notification, raise in pydevd's writer thread and end it.  A reply that `send` queues
  after `close` has stopped the event loop (wrapper.py:199-202, 241) is never delivered, and
  its future never done.
* `ThreadTracking` (`failed`): when pydevd cannot make the list of threads it answers with an
  error (pydevd_comm.py:617-618), which `on_threads` parses as XML (wrapper.py:603): it raises on
  the event loop and the request is never answered.
* `ThreadTracking` (`crossed`): a create or kill handled while a list that names the
  thread is on its way: the thread is shown twice or for ever (wrapper.py:618-625).
* `Frames` (`late`): `on_stackTrace` makes ids for a stack it read before
  `on_pydevd_thread_run` cleared everything (wrapper.py:637-639, 658 against 953-967); they
  stay in the map.
* `Frames` (`doubled`): `setVariable` on the server thread (wrapper.py:729) and `variables` on the
  loop (715) can both miss one variable and both add it.  It then has two ids, and
  `on_pydevd_thread_run` (965-967) removes the later one only: the earlier stays in `var_map`.
* `Frames`: a generator handler that fails answers nothing (wrapper.py:500-504), although
  debugger_protocol/README.md promises a response to each request.  This is why
  `AnsweredUnlessResumed` speaks only of threads that stay stopped.
* `Shutdown` (`raced`): `close` tests and sets `_closed` without a lock (wrapper.py:434-436); two
  closers at once may send `exited` twice, answer twice, or find `self.pydevd` gone.
  (`overtaken`): the disconnect handler decides to kill the process from a
  `_closed` that another thread is about to set (wrapper.py:560-563), and SIGTERM
  cuts that close short.  A disconnect stored after the wait is never answered, and
  `configurationDone` is answered twice when it fails after its response.
* `Tracing` (`raced`): an event that read the table before a breakpoint was set adds its key to
  `cache_skips` after the caches were cleared, or a pause and a continue between the two
  tests of `pydev_state` make a line with a breakpoint count as one without: it is
  passed from then on.  The cache is also tested before the suspend flag: a thread that runs
  only through cached keys does not notice a pause, hence the condition of `PauseTakesEffect`.
  A step that begins while the return event of its frame is traced is lost, and a step
  into sets no trace function on the frame it starts from, hence the conditions of
  `StepEnds`.
* `Tracing` (`continued`): the trace function copies the stop frame and the command of a step
  (pydevd_frame.py:429-430) and, at a return, writes a step into by these copies (448-449).  A
  continue whose assignments (pydevd_process_net_command.py:107-109) fall in between is undone,
  and the thread goes on stepping; this is the value "undone".  The last assignment can also
  resume the thread from the stop it has just made.  And a step that was posted before the continue
  may begin between its assignments and lose its frame at 108: it does not end.
* `ExceptionBreaks` (label `lost`): `_excepthook` calls an original hook that a removal has just
  set to None, and the thread ends without its stop.  An exception that a request names twice with
  two modes is in both tables of pydevd, while ptvsd knows the last mode only.

## Proofs

All theorems are for every value of the constants, from the named assumptions of the modules
(a distinguished value lies outside its set; bounds are natural numbers; the
remover is a thread; a missing exception is an exception).  `NoClosureAssumption` of `Futures`
is of this kind: the value for "no closure" is not a closure.

The safety invariants of a run are seldom inductive.  Each proof module states the inductive
invariant as a conjunction of named parts (`IInv`, or the invariants named below); TLC checked
it on the instance of the component's run before it was proved.  The proofs have
one lemma or step per action; lemmas about queues (`AppendPositions`, `TailPositions`), stacks
and maps come before them.

* `SharedStateProofs`, of the event loop: `TypeCorrect`, `WakeupKept` and `Refinement`.  `NoLostWakeup` (a
  non-empty queue has the event set) is not inductive without the types and without
  `BatchDrained` (the batch is empty outside the drain loop), which is also what the step
  proof of the refinement needs: only then does the swap leave `batch \o queue` as it is.
* `SharedStateProofs`, of the map of ids: `MapTypeCorrect`, `IdsNeverReassigned`, `LookupsAreConsistent`,
  `OneIdWithoutContention`, `RemoverNeverFails`.  The inductive invariant adds that every id
  given out is below the counter; what holds between the two assignments of `add` (`HalfAdded`)
  and of `remove` (`HalfRemoved`), and that the lock keeps them apart; that what the remover has
  read is still present (it is the only remover); and that a thread which missed an entity that
  is present now implies contention.
* `FuturesProofs`: `TypeCorrect` and `CalledAtMostOnce`.  That a callback is called at most once
  says nothing of how it gets there, so the invariant follows it: it is in at most one of a
  thread's hands, the queue, the batch and the snapshot of the loop (`OnePlace`), there only once
  (`Once`), listed only at the future it was registered with (`ListedInv`), and where it is due
  it has not been called, its future is resolved, and it was not taken back (`DueInv`).
* `PydevdSocketProofs`: `TypeCorrect` and `AnswersMatch` (`RepliesMatched`).  The same idea for a
  sequence number: in one place between packet and reply and there once, unused from the counter on
  (`Fresh`), with the kind for which it was taken (`KindKept`), and registered exactly from
  the write to the pop (`Registered`); the loop's queue is one of the places, and only what was
  there is resolved (`Done`).  `KindKept` and `Registered` make a reply find its future: an
  answer that overtakes the registration would break the latter.
* `BreakpointsProofs`: `TypeCorrect`, `RequestedStay` (`NoneLost`), `OneSource` (`OneSourceExact`)
  and `InForceAtRun` (`BreakpointsBeforeRun`).  The invariants speak of what pydevd knows or
  will know once it has worked off the pipe: a requested line stands under an id that no
  command is going to remove, or is still to be set (`KeptInv`); a line answered before
  `configurationDone` is in the table or ahead of CMD_RUN (`RunInv`); with a single source, all
  that pydevd has is a live pair of `bp_map` or has its removal on the way (`ExactInv`).
  `RequestedStay` holds although removals go to the wrong path, because an id
  is never used twice (`Used`): such a removal names an id the path does not have.
* `ExceptionBreaksProofs`: `TypeCorrect`, `StopIsToldRight` (`InfoOfTheStop`) and
  `LastRequestRules` (`TablesAsRequested`).  `StopInv`: while a thread runs, each "trace" in the
  queue has a "proceeded" behind it, and at a stop the last two messages are those of the
  stop.  `TableInv`: what the tables will be after the commands in the pipe is, during
  the removals, among the entries still to be removed, and then exactly what the options sent so
  far want; `step` in the middle of a command needs that its first half is done.
* `FramesProofs`: `TypeCorrect`, `HeldIdsStand` (`HeldIdsResolve`) and `NothingKept` (`IdsCleared`).
  The messages about a thread are in order (`OrderInv`: between two suspends there is a run,
  and a run follows unless the thread waits), a stop the client has been told of and that goes
  on is the one of `stack_traces`, with nothing about the thread on its way (`StopInv`), and
  then what the client holds, asks for, and what the server and loop threads have in their
  hands are of this stop (`HeldInv`, `AskedInv`, `ServerInv`, `LoopInv`).  A variable that the
  server thread and the loop are adding at the same time is marked from the first of the two adds
  on (`AddInv`), which is how the type invariant can say that the two dictionaries of `var_map` agree
  outside marked keys.  `ClearInv` says what the writer has still to remove.  Only requests about the stop that goes on are constrained: one
  that outlives its stop finds anything.
* `TracingProofs`: `TypeCorrect`, `NoBreakpointPassed` (`BreakpointsHit`) and `StepsStopWhere`
  (`StepStopsWhere`).  `WatchInv`: every frame is traced, about to be, or has no breakpoints;
  `CacheInv`: no cache holds, or is about to get, a key with a breakpoint; `DueInv`: a line
  that is due is on its way to a stop, at each test in the trace function.  `StepInv`
  is in three parts.  `CmdInv`: the command and stop frame in PyDB are those of the step last
  begun, the frame gone or taken by a continue, or a step into made of it at a return event.
  `CopyInv`: so are the copies in the trace function, although a continue may come between
  the two reads and after them.  `ContinueInv`: a continue leaves no command behind, and no copy
  that was made after it, until an event undoes it.
* `SessionProofs`, of the threads: `TrackingTypeCorrect`, `GhostsExcluded` (`NoGhostThreads`) and
  `IdsStandForOneThread` (`IdsTellThreadsApart`, which only the theorem states: an id the client
  was told stands for one thread, races or not).  `NoGhostThreads` speaks of the end, when all
  is handled; the invariant (`TrackingIInv`) has to say what holds on the way.  `OrderInv`: of
  each thread the create is the first message in the queue and the kill the last, and a list
  that names a dead thread is ahead of its kill.  `OwnInv`: an id belongs to one thread,
  whether it is in `thread_map`, in the hands of the writer or the loop, or told to the client.
  `TrackInv`, for a thread that was not crossed: the writer and the loop never work on it at the
  same time, what the client shows of it is what `thread_map` has or what the writer is taking
  back, and once its kill is handled no list names it any more, so that nothing adds it
  again.  The first two hold for every thread; without them `TrackInv` is not inductive.
  For the type invariant, requests are counted on their whole way (`CountInv`), which bounds
  the answers by the requests.
* `SessionProofs`, of the shutdown: `ShutdownTypeCorrect`, `SessionEndAnnouncedOnce`
  (`AnnouncedOnce`), `DisconnectIsHonoured` (`DisconnectHonoured`) and `RequestsAnsweredOnce`
  (`AnsweredOnce`).  All four rest on what the stacks of return labels can be (`Shaped`): the two
  close methods call each other, yet a thread has one of a few shapes, with what a signal has
  left below a new call of the main thread (`Torn`).  From the shape follows who holds the lock
  (`LockInv`; `TypeOK` alone does not say that a thread about to release it is the holder) and
  that a thread past the test of `_closed` has set it (`PastInv`).  Each step is then described
  once (`Step`, one lemma per action) by what it does to being past that test, and the
  theorems use only this.  `RaceInv`: without a race one thread is past the test, and the events
  sent so far are those of its label.  `HonourInv`, which needs no such condition: a disconnect
  stored in time is still there, or answered, when a close gets beyond its wait, and a handler
  that is going to kill the process has seen its own close through.  `RequestInv`: a request
  is in one place, and until its handler starts nobody has answered it.  `TwiceInv` is about
  the race-free case of the disconnect, which `close` may answer for its handler: it is
  answered twice only when the client has left and every close is over, which is where an
  exception out of `close` makes `on_request` answer it again.

Only model-checked:

* All liveness properties (`StepEnds`, `PauseTakesEffect`, `CloseEnds`, `ServerEnds`,
  `EveryThreadStarted` and those of the other runs): they need fairness and ENABLED, which the
  prover does not handle.
* `OldOnesDeleted`, which the code violates.

## Plan

Done: the layers from the bottom up, in the order in which each builds on the one before.

1. EventLoop, Executor and the first proofs; Futures.
2. IDMap with its proofs; PydevdSocket.
3. Breakpoints; ThreadTracking; Frames.
4. Shutdown, with the part of the message channel that takes part in it; Tracing (stepping,
   suspension and the trace function); ExceptionBreaks.
5. Theorems about Futures, PydevdSocket, ExceptionBreaks, Breakpoints, Frames and Tracing.
6. Theorems about ThreadTracking and Shutdown.  With them every invariant that a passing run
   checks is a theorem, and so is the refinement of `Executor`.

Further modelling that would need room among the runs: the framing of messages over chunks of
the stream, exception events in the trace function (with them the cache that exception breakpoints
do not clear, pydevd_trace_dispatch_regular.py:39), and an abstract specification of a
request handler (asked, answered or refused once) for `ThreadTracking` and `Frames`.

## Not modelled

Inside the modelled components: conditions and hit counts of breakpoints, plugins, library
filters, generators, run to line and smart step in the trace function; deeper paths of variables and the
values themselves; classes between an exception and BaseException, and names
contained in one another; the launch arguments; the text of messages and their
framing by headers.

safe_repr, untangle, the wire formats and the datatypes of debugger_protocol (which ptvsd's own
handlers do not use at this commit) are sequential and data only: ordinary unit tests reach what
they do, and the repository has them.  The schema tools download and compare a file.  The command
line builds an argument list and calls pydevd.

The larger part of the repository by lines is vendored code that no operation of a debug session
described above runs through: a Windows debugger library to attach to a process (winappdbg, some
fifty thousand lines), the IPython and console front ends, test runners, frame evaluation in C
and cython, plugins for templates, and tools to profile and to find referrers.  They are declarations of
operating system structures, input and output, or data formats, so that the share of the
lines a model of ptvsd's own logic covers stays small: what is modelled is wrapper.py,
futures.py and ipcjson.py with the parts of pydevd that answer them.
