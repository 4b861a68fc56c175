-------------------------------- MODULE Tracing --------------------------------
(***************************************************************************)
(* When a thread of the debuggee stops: pydevd's trace function            *)
(* (pydevd_trace_dispatch_regular.py, pydevd_frame.py), the wait of a      *)
(* suspended thread (PyDB.do_wait_suspend) and the commands that drive     *)
(* them, executed by pydevd's reader thread                                *)
(* (pydevd_process_net_command.py) while the thread runs.                  *)
(*                                                                         *)
(* One thread.  Its program may do anything: go to any line, call any      *)
(* function, return; only the outermost function never returns.  Every     *)
(* function is in a file of its own, so functions name files too.          *)
(* Breakpoints have no condition; no exception breakpoints, no plugins, no *)
(* filters, no frame evaluation.                                           *)
(*                                                                         *)
(* What the interpreter does with trace functions is modelled from how     *)
(* this code uses it: a call goes to the global function, whose result     *)
(* becomes f_trace of the new frame; lines and returns go to f_trace, and  *)
(* a result of None leaves f_trace as it is.                               *)
(***************************************************************************)
EXTENDS Naturals, Sequences, FiniteSets, SequencesExt

CONSTANTS
  Outer,          \* the outermost function
  Functions,      \* the functions it may call
  MaxLine,        \* bound: lines of a function; the first is where it is called
  MaxDepth,       \* bound: frames of the thread
  MaxCommands     \* bound: commands of a session

ASSUME BoundsAssumption ==
  MaxLine \in Nat \ {0} /\ MaxDepth \in Nat \ {0} /\ MaxCommands \in Nat

Step == {"into", "over", "return"}
Key == (Functions \cup {Outer}) \X (1 .. MaxLine)
None == "none"
Gone == MaxDepth + 1       \* a frame that is no longer on the stack; 0 is no frame

VARIABLES
  frames,        \* the stack, outermost first; trace: f_trace is None, the global
                 \* "tracer" or a "dispatch" of PyDBFrame
  state,         \* pydev_state: "run", "suspend"
  cmd,           \* pydev_step_cmd
  stop,          \* pydev_step_stop: 0, a depth, or Gone
  bps,           \* PyDB.breakpoints, as keys
  cacheSkips,    \* global_cache_skips
  lineSkips,     \* global_cache_frame_skips: the lines cached as 0
  queue,         \* internal commands posted for the thread
  reader,        \* what the reader thread has still to do: "idle", "pause", "trace", of a
                 \* continue "stop" or "run"
  pc,            \* where the thread is: "run" in its program, or in an event
  event,         \* locals of the trace function, as a record, see Idle
  sent,          \* history: commands so far
  due,           \* history: the line the thread is at has a breakpoint to stop at
  raced,         \* history: a cache may have been written from an older table
  continued,     \* history: CMD_THREAD_RUN was the last to set step_cmd: "no", "during" an
                 \* event that had its copy, "since"; or the event put a step back: "undone"
  from           \* history: the last step and the frame it started in

info == <<state, cmd, stop>>
tables == <<bps, cacheSkips, lineSkips>>
histories == <<due, raced, continued, from>>
vars == <<frames, info, tables, queue, reader, pc, event, sent, histories>>

Depth == Len(frames)
Top == frames[Depth]
KeyOf(frame) == <<frame.fn, frame.line>>
LinesOf(fn) == {k[2] : k \in {b \in bps : b[1] = fn}}

\* The locals of trace_dispatch: the event, whether it came through ThreadTracer,
\* stop_frame, step_cmd, the lines of breakpoints_for_file, whether breakpoint is
\* set, the frame to show and why.
Idle == [kind |-> None, global |-> FALSE, stop |-> 0, cmd |-> None, lines |-> {},
         hit |-> FALSE, shown |-> 0, why |-> None]

\* Breakpoints may have been set before the thread began; the call of its outermost
\* function has been traced.
Init ==
  /\ bps \in SUBSET (Key \ {<<Outer, 1>>})
  /\ LET broken == \E k \in bps : k[1] = Outer
     IN /\ frames = <<[fn |-> Outer, line |-> 1, trace |-> IF broken THEN "dispatch" ELSE None]>>
        /\ cacheSkips = IF broken THEN {} ELSE {<<Outer, 1>>}
        /\ lineSkips = IF broken THEN {<<Outer, 1>>} ELSE {}
  /\ state = "run" /\ cmd = None /\ stop = 0
  /\ queue = <<>> /\ reader = "idle"
  /\ pc = "run" /\ event = Idle
  /\ sent = 0
  /\ due = FALSE /\ raced = FALSE /\ continued = "no" /\ from = [cmd |-> None, frame |-> 0]

-----------------------------------------------------------------------------
\* The program and the interpreter.

\* f_trace of the frames up to a depth; update_trace with and without overwriting.
Traced(depth, overwrite) ==
  [d \in DOMAIN frames |->
     IF d <= depth /\ (overwrite \/ frames[d].trace = None)
       THEN [frames[d] EXCEPT !.trace = "tracer"] ELSE frames[d]]

Popped(s) == IF s = Depth THEN Gone ELSE s

\* mutant: the frame is still taken for the one of pydev_step_stop
PopOnly == frames' = Front(frames) /\ UNCHANGED stop

\* The frame of a return event goes away.
Pop == frames' = Front(frames) /\ stop' = Popped(stop)

\* The thread is back in its program: result is what the trace function returned.
Back(result) ==
  /\ pc' = "run" /\ event' = Idle
  /\ continued' = IF continued = "during" THEN "since" ELSE continued
  /\ IF event.kind = "return"
       THEN Pop
       ELSE /\ frames' = IF result = None THEN frames
                         ELSE [frames EXCEPT ![Depth].trace = result]
            /\ UNCHANGED stop

Begin(kind, trace) ==
  /\ pc' = IF trace = "tracer" THEN "enter" ELSE "readStop"
  /\ event' = [Idle EXCEPT !.kind = kind, !.global = trace = "tracer"]

\* A call: always an event of the global trace function.
CallFn(fn) ==
  /\ pc = "run" /\ Depth < MaxDepth
  /\ frames' = Append(frames, [fn |-> fn, line |-> 1, trace |-> None])
  /\ Begin("call", "tracer")
  /\ due' = FALSE
  /\ UNCHANGED <<info, tables, queue, reader, sent, raced, continued, from>>

GoTo(line) ==
  /\ pc = "run"
  /\ frames' = [frames EXCEPT ![Depth].line = line]
  /\ IF Top.trace = None THEN UNCHANGED <<pc, event>> ELSE Begin("line", Top.trace)
  /\ due' = (<<Top.fn, line>> \in bps /\ reader # "trace" /\ ~raced)
  /\ UNCHANGED <<info, tables, queue, reader, sent, raced, continued, from>>

ReturnFn ==
  /\ pc = "run" /\ Depth > 1
  /\ IF Top.trace = None
       THEN Pop /\ UNCHANGED <<pc, event>>
       ELSE Begin("return", Top.trace) /\ UNCHANGED <<frames, stop>>
  /\ due' = FALSE
  /\ UNCHANGED <<state, cmd, tables, queue, reader, sent, raced, continued, from>>

-----------------------------------------------------------------------------
\* The trace function.

\* mutant: the cache is used while stepping, too
EnterAlways ==
  /\ pc = "enter"
  /\ IF KeyOf(Top) \in cacheSkips
       THEN Back(None)
       ELSE pc' = "readStop" /\ UNCHANGED <<frames, stop, event, continued>>
  /\ UNCHANGED <<state, cmd, tables, queue, reader, sent, due, raced, from>>

\* ThreadTracer.__call__: a key of the cache is not looked at, unless stepping.
Enter ==
  /\ pc = "enter"
  /\ IF cmd = None /\ KeyOf(Top) \in cacheSkips
       THEN Back(None)
       ELSE pc' = "readStop" /\ UNCHANGED <<frames, stop, event, continued>>
  /\ UNCHANGED <<state, cmd, tables, queue, reader, sent, due, raced, from>>

\* trace_dispatch works with copies of the step, read one after the other.
ReadStop ==
  /\ pc = "readStop" /\ pc' = "readCmd"
  /\ event' = [event EXCEPT !.stop = stop]
  /\ UNCHANGED <<frames, info, tables, queue, reader, sent, histories>>

ReadCmd ==
  /\ pc = "readCmd" /\ pc' = "look"
  /\ event' = [event EXCEPT !.cmd = cmd]
  /\ UNCHANGED <<frames, info, tables, queue, reader, sent, histories>>

\* mutant: the flag is not looked at
CanSkipSuspended ==
  \/ event.cmd = None /\ event.stop = 0
  \/ event.cmd \in {"over", "return"} /\ event.stop # Depth

CanSkip ==
  /\ state = "run"
  /\ \/ event.cmd = None /\ event.stop = 0
     \/ event.cmd \in {"over", "return"} /\ event.stop # Depth

\* By the copies, a step whose frame returns goes on as a step into: over a continue
\* that has come since.  Then the two ways to skip an event: None in a file without
\* breakpoints, and the cache of lines.
Look ==
  /\ pc = "look"
  /\ event' = [event EXCEPT !.lines = LinesOf(Top.fn)]
  /\ IF event.stop = Depth /\ event.kind = "return" /\ event.cmd \in {"over", "return"}
       THEN /\ cmd' = "into" /\ stop' = 0
            /\ continued' = IF continued = "during" THEN "undone" ELSE continued
       ELSE UNCHANGED <<cmd, stop, continued>>
  /\ pc' = CASE CanSkip /\ LinesOf(Top.fn) = {} -> "skip"
             [] CanSkip /\ LinesOf(Top.fn) # {} /\ KeyOf(Top) \in lineSkips -> "back"
             [] OTHER -> "test"
  /\ UNCHANGED <<frames, state, tables, queue, reader, sent, due, raced, from>>

\* None: ThreadTracer adds the key to its cache.
Skip ==
  /\ pc = "skip"
  /\ cacheSkips' = IF event.global THEN cacheSkips \cup {KeyOf(Top)} ELSE cacheSkips
  /\ Back(None)
  /\ UNCHANGED <<state, cmd, bps, lineSkips, queue, reader, sent, due, raced, from>>

\* A breakpoint of the line, unless a step over ends here anyway.
Test ==
  /\ pc = "test"
  /\ LET hit == event.kind # "return" /\ state = "run" /\ Top.line \in event.lines
         stepped == event.cmd = "over" /\ event.stop = Depth /\ event.kind = "line"
     IN /\ event' = [event EXCEPT !.hit = hit]
        /\ state' = IF hit /\ ~stepped THEN "suspend" ELSE state
  /\ pc' = "check"
  /\ UNCHANGED <<frames, cmd, stop, tables, queue, reader, sent, histories>>

\* The suspend flag, set by Test or by the reader; a line that has neither is cached.
Check ==
  /\ pc = "check"
  /\ IF state = "suspend"
       THEN /\ pc' = "show"
            /\ event' = [event EXCEPT !.shown = Depth, !.why = "flag"]
            /\ due' = FALSE
            /\ UNCHANGED lineSkips
       ELSE /\ pc' = "step"
            /\ lineSkips' = IF ~event.hit /\ event.kind # "return"
                              THEN lineSkips \cup {KeyOf(Top)} ELSE lineSkips
            /\ UNCHANGED <<event, due>>
  /\ UNCHANGED <<frames, info, bps, cacheSkips, queue, reader, sent, raced, continued, from>>

\* mutant: a step over ends at any line
StepEndsAnywhere ==
  CASE event.cmd \in {"into", "over"} -> event.kind \in {"line", "return"}
    [] event.cmd = "return" -> event.stop = Depth /\ event.kind = "return"
    [] OTHER -> FALSE

\* Whether a step ends at this event.
StepEndsHere ==
  LET inStop == event.stop = Depth
  IN CASE event.cmd = "into" -> event.kind \in {"line", "return"}
       [] event.cmd = "over" -> inStop /\ event.kind \in {"line", "return"}
       [] event.cmd = "return" -> inStop /\ event.kind = "return"
       [] OTHER -> FALSE

\* Step handling; the end of a step at a return is shown in the caller.
StepHandling ==
  /\ pc = "step"
  /\ IF StepEndsHere
       THEN /\ state' = "suspend" /\ pc' = "show"
            /\ event' = [event EXCEPT !.why = "step",
                           !.shown = IF event.kind = "line" THEN Depth ELSE Depth - 1]
            /\ due' = FALSE
       ELSE pc' = "back" /\ UNCHANGED <<state, event, due>>
  /\ UNCHANGED <<frames, cmd, stop, tables, queue, reader, sent, raced, continued, from>>

Dispatch ==
  /\ pc = "back"
  /\ Back("dispatch")
  /\ UNCHANGED <<state, cmd, tables, queue, reader, sent, due, raced, from>>

-----------------------------------------------------------------------------
\* do_wait_suspend.

\* process_internal_commands: each step sets the command and lets the thread run.
Process ==
  IF queue = <<>>
    THEN UNCHANGED <<state, cmd, queue, continued>>
    ELSE /\ cmd' = Last(queue) /\ state' = "run" /\ queue' = <<>>
         /\ continued' = "no"

\* The stop is announced, after what was queued before it.
Show ==
  /\ pc = "show"
  /\ Process
  /\ pc' = "wait"
  /\ UNCHANGED <<frames, stop, tables, reader, event, sent, due, raced, from>>

Wait ==
  /\ pc = "wait"
  /\ IF state = "suspend"
       THEN queue # <<>> /\ Process /\ UNCHANGED pc
       ELSE pc' = "leave" /\ UNCHANGED <<state, cmd, queue, continued>>
  /\ UNCHANGED <<frames, stop, tables, reader, event, sent, due, raced, from>>

\* The step begins in the frame that was shown; the resumption is announced.
Leave ==
  /\ pc = "leave"
  /\ pc' = IF cmd \in {"over", "return"} THEN "mark" ELSE "back"
  /\ stop' = IF cmd = "into" THEN 0 ELSE stop
  /\ from' = IF cmd = None THEN from ELSE [cmd |-> cmd, frame |-> event.shown]
  /\ UNCHANGED <<frames, state, cmd, tables, queue, reader, event, sent, due, raced, continued>>

\* The frame of a step over or out is noted once its command has been read.
Mark ==
  /\ pc = "mark" /\ pc' = "back"
  /\ stop' = event.shown /\ frames' = Traced(event.shown, FALSE)
  /\ UNCHANGED <<state, cmd, tables, queue, reader, event, sent, histories>>

-----------------------------------------------------------------------------
\* Commands, as the reader thread executes them.

Command == reader = "idle" /\ sent < MaxCommands /\ sent' = sent + 1

\* CMD_THREAD_SUSPEND: first every frame is traced, then the flag is set.
ThreadSuspend ==
  /\ Command
  /\ frames' = Traced(Depth, TRUE)
  /\ reader' = "pause"
  /\ UNCHANGED <<info, tables, queue, pc, event, histories>>

SetSuspend ==
  /\ reader = "pause"
  /\ state' = "suspend" /\ reader' = "idle"
  /\ UNCHANGED <<frames, cmd, stop, tables, queue, pc, event, sent, histories>>

\* The trace function has its copy of step_cmd.
Copied == pc \notin {"run", "enter", "readStop", "readCmd"}

\* CMD_THREAD_RUN is carried out at once, in three assignments while the thread runs.
ThreadRun ==
  /\ Command
  /\ cmd' = None /\ reader' = "stop"
  /\ continued' = IF queue # <<>> THEN "no" ELSE IF Copied THEN "during" ELSE "since"
  /\ UNCHANGED <<frames, state, stop, tables, queue, pc, event, due, raced, from>>

ClearStop ==
  /\ reader = "stop"
  /\ stop' = 0 /\ reader' = "run"
  /\ UNCHANGED <<frames, state, cmd, tables, queue, pc, event, sent, histories>>

SetRun ==
  /\ reader = "run"
  /\ state' = "run" /\ reader' = "idle"
  /\ due' = FALSE /\ raced' = (raced \/ (pc = "check" /\ state = "suspend"))
  /\ UNCHANGED <<frames, cmd, stop, tables, queue, pc, event, sent, continued, from>>

\* CMD_STEP_*: posted to the thread; ahead of the others when pydevd's command thread has
\* taken them out of the queue and is about to put them back.
PostStep(c) ==
  /\ Command
  /\ queue' \in {Append(queue, c), <<c>> \o queue}
  /\ UNCHANGED <<frames, info, tables, reader, pc, event, histories>>

\* mutant: the caches are not cleared
ConsolidateOnly(breaks) == bps' = breaks /\ UNCHANGED <<cacheSkips, lineSkips>>

Consolidate(breaks) == bps' = breaks /\ cacheSkips' = {} /\ lineSkips' = {}

\* The thread is between reading the table and writing a cache.
Caching == pc \in {"skip", "test", "check"}

\* CMD_SET_BREAK: the table and the caches, then the frames.
SetBreak(k) ==
  /\ Command
  /\ Consolidate(bps \cup {k})
  /\ raced' = (Caching /\ (raced \/ Top.fn = k[1]))
  /\ reader' = "trace"
  /\ due' = (due /\ pc # "run")
  /\ UNCHANGED <<frames, info, queue, pc, event, continued, from>>

TraceContexts ==
  /\ reader = "trace"
  /\ frames' = Traced(Depth, TRUE) /\ reader' = "idle"
  /\ UNCHANGED <<info, tables, queue, pc, event, sent, histories>>

\* CMD_REMOVE_BREAK.
RemoveBreak(k) ==
  /\ Command /\ k \in bps
  /\ Consolidate(bps \ {k})
  /\ due' = (due /\ pc # "run" /\ k # KeyOf(Top))
  /\ UNCHANGED <<frames, info, queue, reader, pc, event, raced, continued, from>>

-----------------------------------------------------------------------------
Program == ReturnFn \/ (\E fn \in Functions : CallFn(fn)) \/ (\E l \in 1 .. MaxLine : GoTo(l))
TraceFunction ==
  \/ Enter \/ ReadStop \/ ReadCmd \/ Look \/ Skip \/ Test \/ Check \/ StepHandling \/ Dispatch
  \/ Show \/ Wait \/ Leave \/ Mark
Reader ==
  \/ ThreadSuspend \/ SetSuspend \/ ThreadRun \/ ClearStop \/ SetRun \/ TraceContexts
  \/ \E c \in Step : PostStep(c)
  \/ \E k \in Key : SetBreak(k) \/ RemoveBreak(k)

Next == Program \/ TraceFunction \/ Reader

\* The thread and the reader are scheduled; of the program it is assumed that it
\* goes on, that its functions return and that the outermost one goes through its
\* lines.
Fairness ==
  /\ WF_vars(Program) /\ WF_vars(TraceFunction)
  /\ WF_vars(SetSuspend \/ ClearStop \/ SetRun \/ TraceContexts)
  /\ (\A d \in 2 .. MaxDepth : SF_vars(Depth = d /\ ReturnFn))
  /\ SF_vars(Depth = 1 /\ \E l \in 1 .. MaxLine : GoTo(l))

Spec == Init /\ [][Next]_vars /\ Fairness

-----------------------------------------------------------------------------
\* Types, and how the parts of the state go together: the locals of an event exist
\* only during one, and what is shown is a frame of the stack.
TypeOK ==
  /\ frames \in Seq([fn : Functions \cup {Outer}, line : 1 .. MaxLine,
                     trace : {None, "tracer", "dispatch"}])
  /\ Depth \in 1 .. MaxDepth
  /\ state \in {"run", "suspend"} /\ cmd \in Step \cup {None} /\ stop \in 0 .. Gone
  /\ bps \subseteq Key /\ cacheSkips \subseteq Key /\ lineSkips \subseteq Key
  /\ queue \in Seq(Step) /\ reader \in {"idle", "pause", "trace", "stop", "run"}
  /\ pc \in {"run", "enter", "readStop", "readCmd", "look", "skip", "test", "check", "step",
             "back", "show", "wait", "leave", "mark"}
  /\ (pc = "run") = (event = Idle)
  /\ pc \in {"show", "wait", "leave", "mark"} => event.shown \in 1 .. Depth
  /\ stop \in 1 .. MaxDepth => stop <= Depth

\* A thread does not pass a line with a breakpoint: not through an untraced frame,
\* not through a cache.  The one exception is a cache written by an event that had
\* read the table of breakpoints before it was changed.
BreakpointsHit == pc = "run" => ~due

\* A step over is not shown deeper than it began, a step out is shown further out, and
\* after a continue no step stops the thread.  What a continue does not cancel: a step
\* that was still queued, and the event whose trace function had copied the command
\* before.  That event may stop, and if it is the return from the frame of a step over or
\* out, it may put a step into back in place of the command the continue had reset: only
\* then the thread goes on stepping.
StepStopsWhere ==
  pc = "show" /\ event.why = "step" =>
    /\ from.cmd = "over" => event.shown <= from.frame
    /\ from.cmd = "return" => event.shown < from.frame
    /\ continued # "since"

\* Every step comes to an end: a step over or out while its frame is on the stack (not
\* out of the outermost function, which never returns), a step in whose frame is traced.
\* Steps that begin in a frame that is just being left may not.  A continue takes a step
\* back; one that was under way when the step began may take its frame only.
StepEnds ==
  (/\ pc = "run"
   /\ \/ cmd = "over" /\ stop \notin {0, Gone}
      \/ cmd = "return" /\ stop \notin {0, 1, Gone}
      \/ cmd = "into" /\ Top.trace # None)
    ~> (pc = "wait" \/ cmd = None \/ (cmd # "into" /\ stop = 0))

\* A pause stops the thread, or a continue takes it back, as long as ThreadTracer has to
\* look at the events: while a step is going on, or from a moment at which its cache is
\* empty.  (It tests its cache and not the flag: a thread that goes through cached lines
\* only does not notice a pause.)
PauseTakesEffect ==
  (state = "suspend" /\ (cmd # None \/ (pc = "run" /\ cacheSkips = {})))
    ~> (pc = "wait" \/ state = "run")
=============================================================================
