---------------------------- MODULE TracingProofs ----------------------------
(***************************************************************************)
(* Proofs about Tracing for any program, any number of lines, frames and   *)
(* commands: types, that no breakpoint is passed, and that no step stops   *)
(* the thread where it should not.                                         *)
(***************************************************************************)
EXTENDS Tracing, SequenceTheorems, TLAPS

Fn == Functions \cup {Outer}
Frame == [fn : Fn, line : 1 .. MaxLine, trace : {None, "tracer", "dispatch"}]
Resume == Step \cup {None}
Event == [kind : {None, "call", "line", "return"}, global : BOOLEAN, stop : 0 .. Gone,
          cmd : Resume, lines : SUBSET (1 .. MaxLine), hit : BOOLEAN,
          shown : 0 .. MaxDepth, why : {None, "flag", "step"}]

Duties == {"idle", "pause", "trace", "stop", "run"}

StackTypes ==
  /\ frames \in Seq(Frame)
  /\ Depth \in 1 .. MaxDepth
  /\ stop \in 0 .. Gone
  /\ stop # Gone => stop <= Depth

\* The last to set the command was a continue.
Cancelled == {"during", "since"}

InfoTypes ==
  /\ state \in {"run", "suspend"} /\ cmd \in Resume
  /\ bps \subseteq Key /\ cacheSkips \subseteq Key /\ lineSkips \subseteq Key
  /\ queue \in Seq(Step) /\ reader \in Duties
  /\ due \in BOOLEAN /\ raced \in BOOLEAN
  /\ continued \in {"no", "undone"} \cup Cancelled
  /\ from \in [cmd : Resume, frame : 0 .. MaxDepth]

EventTypes ==
  /\ pc \in {"run", "enter", "readStop", "readCmd", "look", "skip", "test", "check", "step",
             "back", "show", "wait", "leave", "mark"}
  /\ event \in Event
  /\ pc = "run" => event = Idle
  /\ pc # "run" => event.kind # None
  /\ event.kind = "return" => Depth > 1
  /\ pc \in {"show", "wait", "leave", "mark"} => event.shown \in 1 .. Depth

TypeInv == StackTypes /\ InfoTypes /\ EventTypes

\* A function without breakpoints.
Unbroken(fn) == \A b \in bps : b[1] # fn

\* The frame at depth d is traced, or about to be, or has no breakpoints.
Watched(d) ==
  \/ frames[d].trace # None
  \/ Unbroken(frames[d].fn)
  \/ raced
  \/ reader = "trace"
  \/ d = Depth /\ pc # "run" /\ event.kind = "call"
WatchInv == \A d \in DOMAIN frames : Watched(d)

\* What a cache holds, or is about to, has no breakpoint.
CacheInv ==
  /\ \A k \in cacheSkips : Unbroken(k[1]) \/ raced
  /\ pc = "skip" => Unbroken(Top.fn) \/ raced
  /\ \A k \in lineSkips : k \notin bps \/ raced

AtBreak == KeyOf(Top) \in bps
Stepped == event.cmd = "over" /\ event.stop = Depth

\* A line that is due is on its way to a stop: its breakpoint is found in the table, sets
\* the flag, or a step ends at the line anyway.  And a line that Check caches has none.
Looking == {"enter", "readStop", "readCmd", "look"}
DueInv ==
  /\ due =>
       /\ pc \in Looking \cup {"test", "check", "step"} /\ event.kind = "line"
       /\ AtBreak
       /\ pc \in Looking => ~raced
       /\ pc = "test" => Top.line \in event.lines
       /\ pc = "check" => state = "suspend" \/ Stepped
       /\ pc = "step" => Stepped
  /\ pc = "check" /\ ~event.hit /\ event.kind # "return" => raced \/ ~AtBreak \/ state = "suspend"
  /\ pc = "test" /\ AtBreak => raced \/ Top.line \in event.lines

HitInv == WatchInv /\ CacheInv /\ DueInv

\* The step that is going on, in PyDB and in the copies of the trace function, is the last
\* that was begun, and its stop frame the one it began in, or gone, or taken by a continue.
\* A step that ends in a return goes on as a step into.  Until an event undoes it, a
\* continue leaves no step behind: none in PyDB, and none in the copies made after it.
InEvent == pc \in {"look", "test", "check", "step"}
OutOf == {"over", "return"}
CmdInv ==
  /\ pc \notin {"wait", "leave"} /\ cmd \in OutOf => from.cmd = cmd
  /\ pc \notin {"wait", "leave", "mark"} /\ cmd \in OutOf => stop \in {0, from.frame, Gone}
  /\ pc = "mark" => from.frame = event.shown
  /\ pc \notin {"wait", "leave"} /\ cmd = "into" =>
       \/ from.cmd = "into"
       \/ /\ pc \in {"test", "check", "step", "show"}
          /\ event.cmd = from.cmd /\ event.cmd \in OutOf /\ event.stop = Depth /\ event.kind = "return"
CopyInv ==
  /\ pc = "readCmd" /\ cmd \in OutOf => event.stop \in {0, from.frame, Gone}
  /\ InEvent /\ event.cmd = "into" => from.cmd = "into"
  /\ InEvent /\ event.cmd \in OutOf =>
       from.cmd = event.cmd /\ event.stop \in {0, from.frame, Gone}
ContinueInv ==
  /\ continued \in Cancelled => cmd = None
  /\ InEvent /\ continued = "since" => event.cmd = None
StepInv == CmdInv /\ CopyInv /\ ContinueInv

-----------------------------------------------------------------------------
\* Facts about the model's operators.

\* Tracing frames changes their f_trace only, and none back to None.
LEMMA TracedStack ==
  ASSUME frames \in Seq(Frame), NEW n \in Nat, NEW o \in BOOLEAN
  PROVE  /\ Traced(n, o) \in Seq(Frame)
         /\ Len(Traced(n, o)) = Depth
         /\ \A d \in 1 .. Depth :
              /\ Traced(n, o)[d].fn = frames[d].fn
              /\ Traced(n, o)[d].line = frames[d].line
              /\ frames[d].trace # None => Traced(n, o)[d].trace # None
              /\ o /\ d <= n => Traced(n, o)[d].trace # None
  <1> DEFINE t == Traced(n, o)
  <1>0. Depth \in Nat /\ DOMAIN frames = 1 .. Depth
        BY DEF Depth
  <1>1. PICK m \in Nat : m = Depth /\ DOMAIN frames = 1 .. m
        BY <1>0
  <1>2. \A d \in 1 .. m : frames[d] \in Frame
        BY <1>1
  <1>3. t = [d \in 1 .. m |-> t[d]] /\ \A d \in 1 .. m : t[d] = IF d <= n /\ (o \/ frames[d].trace = None)
                                      THEN [frames[d] EXCEPT !.trace = "tracer"] ELSE frames[d]
        BY <1>1 DEF Traced
  <1>4. ASSUME NEW d \in 1 .. m
        PROVE  /\ t[d] \in Frame
               /\ t[d].fn = frames[d].fn
               /\ t[d].line = frames[d].line
               /\ frames[d].trace # None => t[d].trace # None
               /\ o /\ d <= n => t[d].trace # None
        BY <1>2, <1>3, <1>4 DEF Frame, None
  <1> HIDE DEF t
  <1>5. t \in [1 .. m -> Frame]
        BY <1>3, <1>4
  <1>6. t \in Seq(Frame) /\ Len(t) = m
        BY <1>5
  <1> QED
        BY <1>1, <1>4, <1>6 DEF t

LEMMA FrontStack ==
  ASSUME frames \in Seq(Frame), Depth > 1
  PROVE  /\ Front(frames) \in Seq(Frame)
         /\ Len(Front(frames)) = Depth - 1
         /\ \A d \in 1 .. Depth - 1 : Front(frames)[d] = frames[d]
  BY SubSeqProperties DEF Front, Depth

LEMMA ToppedStack ==
  ASSUME frames \in Seq(Frame), Depth \in Nat \ {0}, NEW f \in Frame
  PROVE  /\ [frames EXCEPT ![Depth] = f] \in Seq(Frame)
         /\ Len([frames EXCEPT ![Depth] = f]) = Depth
         /\ [frames EXCEPT ![Depth] = f][Depth] = f
         /\ \A d \in 1 .. Depth - 1 : [frames EXCEPT ![Depth] = f][d] = frames[d]
  BY DEF Depth

LEMMA PushedStack ==
  ASSUME frames \in Seq(Frame), NEW f \in Frame
  PROVE  /\ Append(frames, f) \in Seq(Frame)
         /\ Len(Append(frames, f)) = Depth + 1
         /\ Append(frames, f)[Depth + 1] = f
         /\ \A d \in 1 .. Depth : Append(frames, f)[d] = frames[d]
  BY DEF Depth

LEMMA TopFrame ==
  ASSUME StackTypes
  PROVE  Top \in Frame /\ KeyOf(Top) \in Key /\ Depth \in 1 .. MaxDepth /\ DOMAIN frames = 1 .. Depth
  <1>1. Depth \in 1 .. MaxDepth /\ DOMAIN frames = 1 .. Depth
        BY BoundsAssumption DEF StackTypes, Depth
  <1>2. Top \in Frame
        BY <1>1, BoundsAssumption DEF StackTypes, Top
  <1> QED
        BY <1>1, <1>2 DEF KeyOf, Key, Frame, Fn

\* The thread goes back to its program: at a return without the frame.
LEMMA BackStep ==
  ASSUME TypeInv, NEW result \in {None, "dispatch"}, Back(result)
  PROVE  /\ StackTypes'
         /\ pc' = "run" /\ event' = Idle
         /\ \A d \in DOMAIN frames' :
              /\ d \in DOMAIN frames
              /\ frames'[d].fn = frames[d].fn
              /\ frames[d].trace # None => frames'[d].trace # None
              /\ d = Depth => event.kind # "return" /\ (result # None => frames'[d].trace # None)
         /\ stop' \in {stop, Gone}
         /\ continued' \in {"no", "undone"} \cup Cancelled
         /\ continued' \in Cancelled => continued \in Cancelled
  <1> USE DEF Back
  <1>0. /\ Top \in Frame /\ Depth \in 1 .. MaxDepth /\ DOMAIN frames = 1 .. Depth
        /\ MaxDepth \in Nat /\ Gone = MaxDepth + 1
        /\ frames \in Seq(Frame)
        BY TopFrame, BoundsAssumption DEF TypeInv, StackTypes, Gone
  <1>1. /\ continued' \in {"no", "undone"} \cup Cancelled
        /\ continued' \in Cancelled => continued \in Cancelled
        BY DEF TypeInv, InfoTypes, Cancelled
  <1>2. CASE event.kind = "return"
    <2>1. Depth > 1
          BY <1>2 DEF TypeInv, EventTypes
    <2>2. frames' = Front(frames) /\ stop' = Popped(stop)
          BY <1>2 DEF Pop
    <2>3. /\ frames' \in Seq(Frame) /\ Len(frames') = Depth - 1
          /\ \A d \in 1 .. Depth - 1 : frames'[d] = frames[d]
          BY <1>0, <2>1, <2>2, FrontStack
    <2>4. stop' \in {stop, Gone} /\ stop' \in 0 .. Gone /\ (stop' # Gone => stop' <= Depth - 1)
          BY <1>0, <2>2 DEF Popped, TypeInv, StackTypes
    <2>5. StackTypes'
          BY <1>0, <2>1, <2>3, <2>4 DEF StackTypes, Depth, Gone
    <2>6. DOMAIN frames' = 1 .. Depth - 1
          BY <2>3
    <2> QED
          BY <1>0, <1>1, <2>1, <2>3, <2>4, <2>5, <2>6
  <1>3. CASE event.kind # "return" /\ result = None
    <2>1. frames' = frames /\ stop' = stop
          BY <1>3
    <2> QED
          BY <1>0, <1>1, <1>3, <2>1 DEF TypeInv, StackTypes, Depth, Gone
  <1>4. CASE event.kind # "return" /\ result = "dispatch"
    <2> DEFINE f == [Top EXCEPT !.trace = "dispatch"]
    <2>1. /\ f \in Frame /\ f.trace = "dispatch" /\ f.fn = Top.fn
          /\ result # None
          BY <1>0, <1>4 DEF Frame, None
    <2>2. frames' = [frames EXCEPT ![Depth] = f] /\ stop' = stop
          BY <1>0, <1>4, <2>1 DEF Top
    <2> HIDE DEF f
    <2>3. /\ frames' \in Seq(Frame) /\ Len(frames') = Depth
          /\ frames'[Depth] = f
          /\ \A d \in 1 .. Depth - 1 : frames'[d] = frames[d]
          BY <1>0, <2>1, <2>2, ToppedStack
    <2>4. DOMAIN frames' = 1 .. Depth
          BY <2>3
    <2>5. StackTypes'
          BY <1>0, <2>2, <2>3 DEF TypeInv, StackTypes, Depth, Gone
    <2>6. ASSUME NEW d \in 1 .. Depth
          PROVE  frames'[d].fn = frames[d].fn /\ (frames[d].trace # None => frames'[d].trace # None)
                 /\ (d = Depth => frames'[d].trace # None)
          <3>1. CASE d = Depth
                BY <2>1, <2>3, <3>1 DEF Top, None
          <3>2. CASE d # Depth
                BY <1>0, <2>3, <3>2
          <3> QED
                BY <3>1, <3>2
    <2> QED
          BY <1>0, <1>1, <1>4, <2>2, <2>4, <2>5, <2>6
  <1> QED
        BY <1>2, <1>3, <1>4

-----------------------------------------------------------------------------
\* Types.

LEMMA IdleType == Idle \in Event /\ Idle.kind = None
  BY BoundsAssumption DEF Idle, Event, Resume, None, Gone

\* An event reaches the trace function.
LEMMA BeginEvent ==
  ASSUME NEW kind \in {"call", "line", "return"}, NEW trace, Begin(kind, trace)
  PROVE  event' \in Event /\ event'.kind = kind /\ pc' \in {"enter", "readStop"}
  <1>1. PICK global \in BOOLEAN : global = (trace = "tracer")
        OBVIOUS
  <1>2. event' = [Idle EXCEPT !.kind = kind, !.global = global]
        BY <1>1 DEF Begin
  <1>3. event' \in Event /\ event'.kind = kind
        BY <1>2, IdleType DEF Event
  <1> QED
        BY <1>3 DEF Begin

LEMMA KeyParts ==
  ASSUME bps \subseteq Key, NEW fn
  PROVE  LinesOf(fn) \subseteq 1 .. MaxLine
         /\ \A l : l \in LinesOf(fn) <=> <<fn, l>> \in bps
  BY DEF LinesOf, Key

LEMMA NoLines == \A fn : LinesOf(fn) = {} <=> Unbroken(fn)
  BY DEF LinesOf, Unbroken

LEMMA TypeInit == Init => TypeInv
  <1> SUFFICES ASSUME Init PROVE TypeInv
      OBVIOUS
  <1> DEFINE broken == \E k \in bps : k[1] = Outer
  <1>1. PICK f \in Frame : frames = <<f>>
    <2>1. [fn |-> Outer, line |-> 1, trace |-> IF broken THEN "dispatch" ELSE None] \in Frame
          BY BoundsAssumption DEF Frame, Fn, None
    <2> QED
          BY <2>1 DEF Init
  <1>2. Depth = 1
        BY <1>1 DEF Depth
  <1>3. StackTypes
        BY <1>1, <1>2, BoundsAssumption DEF Init, StackTypes, Gone
  <1>4. <<Outer, 1>> \in Key
        BY BoundsAssumption DEF Key
  <1>5. InfoTypes
    <2>1. cacheSkips \subseteq Key /\ lineSkips \subseteq Key
          BY <1>4 DEF Init
    <2>2. bps \subseteq Key /\ queue \in Seq(Step) /\ cmd \in Resume
          BY DEF Init, Resume
    <2>3. from \in [cmd : Resume, frame : 0 .. MaxDepth]
          BY BoundsAssumption DEF Init, Resume
    <2>4. /\ state = "run" /\ reader = "idle" /\ due = FALSE /\ raced = FALSE
          /\ continued = "no"
          BY DEF Init
    <2> QED
          BY <2>1, <2>2, <2>3, <2>4 DEF InfoTypes, Duties
  <1>6. EventTypes
        BY IdleType, <1>2 DEF Init, EventTypes, None, Idle
  <1> QED
        BY <1>3, <1>5, <1>6 DEF TypeInv

LEMMA TypeProgram == TypeInv /\ Program => TypeInv'
  <1> SUFFICES ASSUME TypeInv, Program PROVE TypeInv'
      OBVIOUS
  <1> USE DEF vars, info, tables, histories
  <1>0. /\ Top \in Frame /\ Depth \in 1 .. MaxDepth /\ DOMAIN frames = 1 .. Depth
        /\ MaxDepth \in Nat /\ Gone = MaxDepth + 1
        /\ frames \in Seq(Frame)
        BY TopFrame, BoundsAssumption DEF TypeInv, StackTypes, Gone
  <1>1. ASSUME ReturnFn PROVE TypeInv'
    <2>1. InfoTypes'
          BY <1>1 DEF ReturnFn, TypeInv, InfoTypes
    <2>2. CASE Top.trace = None
      <3>1. /\ frames' = Front(frames) /\ stop' = Popped(stop) /\ Depth > 1
            /\ pc = "run" /\ UNCHANGED <<pc, event>>
            BY <1>1, <2>2 DEF ReturnFn, Pop
      <3>2. frames' \in Seq(Frame) /\ Len(frames') = Depth - 1
            BY <1>0, <3>1, FrontStack
      <3>3. StackTypes'
        <4>1. stop' \in 0 .. Gone /\ (stop' # Gone => stop' <= Depth - 1)
              BY <1>0, <3>1 DEF Popped, TypeInv, StackTypes
        <4> QED
              BY <1>0, <3>1, <3>2, <4>1 DEF StackTypes, Depth, Gone
      <3>4. EventTypes'
            BY <3>1, IdleType DEF TypeInv, EventTypes, None
      <3> QED
            BY <2>1, <3>3, <3>4 DEF TypeInv
    <2>3. CASE Top.trace # None
      <3>1. UNCHANGED <<frames, stop>> /\ Depth > 1 /\ Begin("return", Top.trace)
            BY <1>1, <2>3 DEF ReturnFn
      <3>2. event' \in Event /\ event'.kind = "return" /\ pc' \in {"enter", "readStop"}
            BY <3>1, BeginEvent
      <3>3. EventTypes'
            BY <1>0, <3>1, <3>2 DEF EventTypes, Depth, None
      <3> QED
            BY <2>1, <3>1, <3>3 DEF TypeInv, StackTypes, Depth, Gone
    <2> QED
          BY <2>2, <2>3
  <1>2. ASSUME NEW fn \in Functions, CallFn(fn) PROVE TypeInv'
    <2>1. PICK f \in Frame : frames' = Append(frames, f)
      <3>1. [fn |-> fn, line |-> 1, trace |-> None] \in Frame
            BY BoundsAssumption DEF Frame, Fn
      <3> QED
            BY <1>2, <3>1 DEF CallFn
    <2>2. frames' \in Seq(Frame) /\ Len(frames') = Depth + 1
          BY <1>0, <2>1, PushedStack
    <2>3. StackTypes'
          BY <1>0, <1>2, <2>2 DEF CallFn, TypeInv, StackTypes, Depth, Gone
    <2>4. event' \in Event /\ event'.kind = "call" /\ pc' = "enter"
          BY <1>2, BeginEvent DEF CallFn, Begin
    <2>5. EventTypes'
          BY <2>4 DEF EventTypes, None
    <2>6. InfoTypes'
          BY <1>2 DEF CallFn, TypeInv, InfoTypes
    <2> QED
          BY <2>3, <2>5, <2>6 DEF TypeInv
  <1>3. ASSUME NEW l \in 1 .. MaxLine, GoTo(l) PROVE TypeInv'
    <2>1. PICK f \in Frame : frames' = [frames EXCEPT ![Depth] = f]
      <3>1. [Top EXCEPT !.line = l] \in Frame
            BY <1>0 DEF Frame
      <3> QED
            BY <1>3, <3>1 DEF GoTo, Top
    <2>2. frames' \in Seq(Frame) /\ Len(frames') = Depth
          BY <1>0, <2>1, ToppedStack
    <2>3. StackTypes'
          BY <1>0, <1>3, <2>2 DEF GoTo, TypeInv, StackTypes, Depth, Gone
    <2>4. ASSUME Top.trace = None PROVE EventTypes'
          BY <1>3, <2>4, IdleType DEF GoTo, TypeInv, EventTypes, None
    <2>5. ASSUME Top.trace # None PROVE EventTypes'
      <3>1. event' \in Event /\ event'.kind = "line" /\ pc' \in {"enter", "readStop"}
            BY <1>3, <2>5, BeginEvent DEF GoTo
      <3> QED
            BY <3>1 DEF EventTypes, None
    <2>6. InfoTypes'
          BY <1>3 DEF GoTo, TypeInv, InfoTypes
    <2> QED
          BY <2>3, <2>4, <2>5, <2>6 DEF TypeInv
  <1> QED
        BY <1>1, <1>2, <1>3 DEF Program

\* The frame n is to be shown, for the reason w.
LEMMA ShownEvent ==
  ASSUME event \in Event, NEW n \in 0 .. MaxDepth, NEW w \in {"flag", "step"},
         event' = [event EXCEPT !.shown = n, !.why = w]
  PROVE  /\ event' \in Event
         /\ event'.shown = n /\ event'.why = w
         /\ event'.kind = event.kind /\ event'.stop = event.stop /\ event'.cmd = event.cmd
  BY DEF Event

\* A step that leaves the stack and the breakpoints alone, as most steps of the trace
\* function do.
LEMMA TypeQuiet ==
  ASSUME TypeInv, UNCHANGED frames,
         stop' \in {0, stop}, cmd' \in Resume, state' \in {"run", "suspend"},
         queue' \in {queue, <<>>}, lineSkips' \subseteq Key, continued' \in {"no", "undone", continued},
         UNCHANGED <<bps, cacheSkips, reader, raced, from>>, due' \in {FALSE, due}
  PROVE  StackTypes' /\ InfoTypes'
  <1>1. StackTypes'
        BY BoundsAssumption DEF TypeInv, StackTypes, Depth, Gone
  <1>2. due' \in BOOLEAN /\ continued' \in {"no", "undone"} \cup Cancelled
        BY DEF TypeInv, InfoTypes
  <1>3. queue' \in Seq(Step)
    <2>1. queue \in Seq(Step) /\ <<>> \in Seq(Step)
          BY DEF TypeInv, InfoTypes
    <2> QED
          BY <2>1
  <1>4. bps \subseteq Key /\ cacheSkips \subseteq Key /\ reader \in Duties
        /\ raced \in BOOLEAN /\ from \in [cmd : Resume, frame : 0 .. MaxDepth]
        BY DEF TypeInv, InfoTypes
  <1> QED
        BY <1>1, <1>2, <1>3, <1>4 DEF InfoTypes

LEMMA TypeTrace == TypeInv /\ TraceFunction => TypeInv'
  <1> SUFFICES ASSUME TypeInv, TraceFunction PROVE TypeInv'
      OBVIOUS
  <1> USE DEF info, tables, histories
  <1>0. /\ Top \in Frame /\ Depth \in 1 .. MaxDepth /\ DOMAIN frames = 1 .. Depth
        /\ MaxDepth \in Nat /\ Gone = MaxDepth + 1
        /\ frames \in Seq(Frame) /\ KeyOf(Top) \in Key
        BY TopFrame, BoundsAssumption DEF TypeInv, StackTypes, Gone
  <1>a. ASSUME NEW result \in {None, "dispatch"}, Back(result), cacheSkips' \subseteq Key,
               UNCHANGED <<state, cmd, bps, lineSkips, queue, reader, due, raced, from>>
        PROVE  TypeInv'
    <2>1. StackTypes' /\ pc' = "run" /\ event' = Idle /\ continued' \in {"no", "undone"} \cup Cancelled
          BY <1>a, BackStep
    <2>2. InfoTypes'
          BY <1>a, <2>1 DEF TypeInv, InfoTypes
    <2>3. EventTypes'
          BY <2>1, IdleType DEF EventTypes, None
    <2> QED
          BY <2>1, <2>2, <2>3 DEF TypeInv
  <1>b. ASSUME UNCHANGED frames, pc # "run",
               pc' \in {"readStop", "readCmd", "look", "skip", "test", "check", "step", "back",
                        "show", "wait", "leave", "mark"},
               event' \in Event, event'.kind = event.kind,
               pc' \in {"show", "wait", "leave", "mark"} => event'.shown \in 1 .. Depth
        PROVE  EventTypes'
        BY <1>b DEF TypeInv, EventTypes, Depth
  <1>1. ASSUME Enter PROVE TypeInv'
    <2>1. CASE cmd = None /\ KeyOf(Top) \in cacheSkips
          BY <1>1, <1>a, <2>1 DEF Enter, TypeInv, InfoTypes
    <2>2. CASE ~(cmd = None /\ KeyOf(Top) \in cacheSkips)
      <3>1. /\ pc = "enter" /\ pc' = "readStop" /\ UNCHANGED <<frames, stop, event, continued>>
            /\ UNCHANGED <<state, cmd, tables, queue, reader, due, raced, from>>
            BY <1>1, <2>2 DEF Enter
      <3>2. EventTypes'
            BY <3>1, <1>b DEF TypeInv, EventTypes
      <3>3. StackTypes' /\ InfoTypes'
            BY <3>1 DEF TypeInv, StackTypes, InfoTypes, Depth, Gone
      <3> QED
            BY <3>2, <3>3 DEF TypeInv
    <2> QED
          BY <2>1, <2>2
  <1>2. ASSUME Look PROVE TypeInv'
    <2>1. event' \in Event /\ event'.kind = event.kind
      <3>1. LinesOf(Top.fn) \in SUBSET (1 .. MaxLine)
            BY KeyParts DEF TypeInv, InfoTypes
      <3>2. event \in Event
            BY DEF TypeInv, EventTypes
      <3> QED
            BY <1>2, <3>1, <3>2 DEF Look, Event
    <2>2. pc' \in {"skip", "back", "test"} /\ pc = "look"
          BY <1>2 DEF Look
    <2>3. EventTypes'
          BY <1>2, <1>b, <2>1, <2>2 DEF Look
    <2>4. stop' \in {0, stop} /\ cmd' \in Resume
          BY <1>2 DEF Look, TypeInv, InfoTypes, Resume, Step
    <2>5. continued' \in {"undone", continued}
          BY <1>2 DEF Look
    <2>6. StackTypes' /\ InfoTypes'
          BY <1>2, <2>4, <2>5, TypeQuiet DEF Look, TypeInv, InfoTypes
    <2> QED
          BY <2>3, <2>6 DEF TypeInv
  <1>3. ASSUME Skip PROVE TypeInv'
        BY <1>0, <1>3, <1>a DEF Skip, TypeInv, InfoTypes
  <1>4. ASSUME Test PROVE TypeInv'
    <2>1. event' \in Event /\ event'.kind = event.kind
          BY <1>4 DEF Test, TypeInv, EventTypes, Event
    <2>2. EventTypes'
          BY <1>4, <1>b, <2>1 DEF Test
    <2>3. StackTypes' /\ InfoTypes'
          BY <1>4, TypeQuiet DEF Test, TypeInv, InfoTypes
    <2> QED
          BY <2>2, <2>3 DEF TypeInv
  <1>5. ASSUME Check PROVE TypeInv'
    <2>1. event' \in Event /\ event'.kind = event.kind /\ (pc' = "show" => event'.shown = Depth)
      <3>1. event \in Event /\ Depth \in 0 .. MaxDepth
            BY <1>0 DEF TypeInv, EventTypes
      <3>2. CASE state = "suspend"
        <4>1. event' = [event EXCEPT !.shown = Depth, !.why = "flag"]
              BY <1>5, <3>2 DEF Check
        <4> QED
              BY <3>1, <4>1, ShownEvent
      <3>3. CASE state # "suspend"
            BY <1>5, <3>1, <3>3 DEF Check
      <3> QED
            BY <3>2, <3>3
    <2>2. pc' \in {"show", "step"} /\ pc = "check"
          BY <1>5 DEF Check
    <2>3. EventTypes'
          BY <1>0, <1>5, <1>b, <2>1, <2>2 DEF Check
    <2>4. lineSkips' \subseteq Key /\ due' \in {FALSE, due}
          BY <1>0, <1>5 DEF Check, TypeInv, InfoTypes
    <2>5. StackTypes' /\ InfoTypes'
          BY <1>5, <2>4, TypeQuiet DEF Check, TypeInv, InfoTypes
    <2> QED
          BY <2>3, <2>5 DEF TypeInv
  <1>6. ASSUME StepHandling PROVE TypeInv'
    <2>1. /\ event' \in Event /\ event'.kind = event.kind
          /\ pc' = "show" => event'.shown \in 1 .. Depth
      <3>1. CASE StepEndsHere
        <4>1. event.kind \in {"line", "return"}
              BY <3>1 DEF StepEndsHere
        <4>2. (IF event.kind = "line" THEN Depth ELSE Depth - 1) \in 1 .. Depth
              BY <1>0, <4>1 DEF TypeInv, EventTypes
        <4> QED
          <5> DEFINE n == IF event.kind = "line" THEN Depth ELSE Depth - 1
          <5>1. event' = [event EXCEPT !.shown = n, !.why = "step"]
                BY <1>6, <3>1 DEF StepHandling
          <5>2. event \in Event /\ n \in 0 .. MaxDepth
                BY <1>0, <4>2 DEF TypeInv, EventTypes
          <5> HIDE DEF n
          <5>3. event' \in Event /\ event'.kind = event.kind /\ event'.shown = n
                BY <5>1, <5>2, ShownEvent
          <5> QED
                BY <4>2, <5>3 DEF n
      <3>2. CASE ~StepEndsHere
            BY <1>6, <3>2 DEF StepHandling, TypeInv, EventTypes
      <3> QED
            BY <3>1, <3>2
    <2>2. pc' \in {"show", "back"} /\ pc = "step"
          BY <1>6 DEF StepHandling
    <2>3. EventTypes'
          BY <1>6, <1>b, <2>1, <2>2 DEF StepHandling
    <2>4. state' \in {"run", "suspend"} /\ due' \in {FALSE, due}
          BY <1>6 DEF StepHandling, TypeInv, InfoTypes
    <2>5. StackTypes' /\ InfoTypes'
          BY <1>6, <2>4, TypeQuiet DEF StepHandling, TypeInv, InfoTypes
    <2> QED
          BY <2>3, <2>5 DEF TypeInv
  <1>7. ASSUME Dispatch PROVE TypeInv'
        BY <1>7, <1>a DEF Dispatch, TypeInv, InfoTypes
  <1>c. Process => /\ cmd' \in Resume /\ state' \in {"run", "suspend"}
                   /\ queue' \in {queue, <<>>} /\ continued' \in {"no", continued}
    <2>1. queue # <<>> => Last(queue) \in Step
          BY DEF TypeInv, InfoTypes, Last
    <2> QED
          BY <2>1 DEF Process, TypeInv, InfoTypes, Resume
  <1>8. ASSUME Show PROVE TypeInv'
    <2>1. EventTypes'
          BY <1>8, <1>b DEF Show, TypeInv, EventTypes
    <2>2. StackTypes' /\ InfoTypes'
          BY <1>8, <1>c, TypeQuiet DEF Show, TypeInv, InfoTypes
    <2> QED
          BY <2>1, <2>2 DEF TypeInv
  <1>9. ASSUME Wait PROVE TypeInv'
    <2>1. pc = "wait" /\ pc' \in {"wait", "leave"}
          BY <1>9 DEF Wait
    <2>2. EventTypes'
          BY <1>9, <1>b, <2>1 DEF Wait, TypeInv, EventTypes
    <2>3. /\ cmd' \in Resume /\ state' \in {"run", "suspend"}
          /\ queue' \in {queue, <<>>} /\ continued' \in {"no", continued}
          BY <1>9, <1>c DEF Wait, TypeInv, InfoTypes
    <2>4. StackTypes' /\ InfoTypes'
          BY <1>9, <2>3, TypeQuiet DEF Wait, TypeInv, InfoTypes
    <2> QED
          BY <2>2, <2>4 DEF TypeInv
  <1>10. ASSUME Leave PROVE TypeInv'
    <2>1. event.shown \in 0 .. MaxDepth
          BY <1>10 DEF Leave, TypeInv, EventTypes, Event
    <2>2. StackTypes'
          BY <1>0, <1>10 DEF Leave, TypeInv, StackTypes, Depth, Gone
    <2>3. from' \in [cmd : Resume, frame : 0 .. MaxDepth]
          BY <1>10, <2>1 DEF Leave, TypeInv, InfoTypes, Resume
    <2>4. InfoTypes'
          BY <1>10, <2>3 DEF Leave, TypeInv, InfoTypes
    <2>5. EventTypes'
          BY <1>10, <1>b DEF Leave, TypeInv, EventTypes
    <2> QED
          BY <2>2, <2>4, <2>5 DEF TypeInv
  <1>11. ASSUME Mark PROVE TypeInv'
    <2>1. event.shown \in 1 .. Depth /\ event.shown \in Nat /\ event.kind # None
          BY <1>0, <1>11 DEF Mark, TypeInv, EventTypes
    <2>2. frames' = Traced(event.shown, FALSE) /\ stop' = event.shown /\ FALSE \in BOOLEAN
          BY <1>11 DEF Mark
    <2>3. frames' \in Seq(Frame) /\ Len(frames') = Depth
          BY <1>0, <2>1, <2>2, TracedStack
    <2>4. StackTypes'
      <3>1. Depth' = Depth /\ stop' \in 1 .. Depth
            BY <2>1, <2>2, <2>3 DEF Depth
      <3> QED
            BY <1>0, <2>3, <3>1 DEF StackTypes, Gone
    <2>5. InfoTypes'
          BY <1>11 DEF Mark, TypeInv, InfoTypes
    <2>6. EventTypes'
          BY <1>11, <2>1, <2>3 DEF Mark, TypeInv, EventTypes, Depth
    <2> QED
          BY <2>4, <2>5, <2>6 DEF TypeInv
  <1>12. ASSUME ReadStop \/ ReadCmd PROVE TypeInv'
    <2>1. event' \in Event /\ event'.kind = event.kind
      <3>1. stop \in 0 .. Gone /\ cmd \in Resume /\ event \in Event
            BY DEF TypeInv, StackTypes, InfoTypes, EventTypes
      <3> QED
            BY <1>12, <3>1 DEF ReadStop, ReadCmd, Event
    <2>2. EventTypes'
          BY <1>12, <1>b, <2>1 DEF ReadStop, ReadCmd
    <2>3. StackTypes' /\ InfoTypes'
          BY <1>12, TypeQuiet DEF ReadStop, ReadCmd, TypeInv, InfoTypes
    <2> QED
          BY <2>2, <2>3 DEF TypeInv
  <1> QED
        BY <1>1, <1>2, <1>3, <1>4, <1>5, <1>6, <1>7, <1>8, <1>9, <1>10, <1>11, <1>12 DEF TraceFunction

LEMMA TypeReader == TypeInv /\ Reader => TypeInv'
  <1> SUFFICES ASSUME TypeInv, Reader PROVE TypeInv'
      OBVIOUS
  <1> USE DEF info, tables, histories, Command
  <1>0. /\ Depth \in 1 .. MaxDepth /\ MaxDepth \in Nat /\ Gone = MaxDepth + 1
        /\ frames \in Seq(Frame) /\ KeyOf(Top) \in Key
        BY TopFrame, BoundsAssumption DEF TypeInv, StackTypes, Gone
  <1>a. ASSUME frames' = Traced(Depth, TRUE), UNCHANGED stop
        PROVE  StackTypes' /\ Depth' = Depth
    <2>1. Depth \in Nat /\ TRUE \in BOOLEAN
          BY <1>0
    <2>2. frames' \in Seq(Frame) /\ Len(frames') = Depth
          BY <1>0, <1>a, <2>1, TracedStack
    <2> QED
          BY <1>0, <1>a, <2>2 DEF TypeInv, StackTypes, Depth, Gone
  <1>b. ASSUME UNCHANGED <<frames, stop>>
        PROVE  StackTypes' /\ Depth' = Depth
        BY <1>b DEF TypeInv, StackTypes, Depth, Gone
  <1>c. ASSUME UNCHANGED <<pc, event>>, Depth' = Depth
        PROVE  EventTypes'
        BY <1>c DEF TypeInv, EventTypes
  <1>1. ASSUME ThreadSuspend PROVE TypeInv'
    <2>1. StackTypes' /\ EventTypes'
          BY <1>1, <1>a, <1>c DEF ThreadSuspend
    <2>2. InfoTypes'
          BY <1>1 DEF ThreadSuspend, TypeInv, InfoTypes, Duties
    <2> QED
          BY <2>1, <2>2 DEF TypeInv
  <1>2. ASSUME SetSuspend PROVE TypeInv'
    <2>1. StackTypes' /\ EventTypes'
          BY <1>2, <1>b, <1>c DEF SetSuspend
    <2>2. InfoTypes'
          BY <1>2 DEF SetSuspend, TypeInv, InfoTypes, Duties
    <2> QED
          BY <2>1, <2>2 DEF TypeInv
  <1>3. ASSUME ThreadRun \/ ClearStop \/ SetRun PROVE TypeInv'
    <2>1. StackTypes' /\ Depth' = Depth
          BY <1>0, <1>3 DEF ThreadRun, ClearStop, SetRun, TypeInv, StackTypes, Depth, Gone
    <2>2. EventTypes'
          BY <1>3, <1>c, <2>1 DEF ThreadRun, ClearStop, SetRun
    <2>3. InfoTypes'
          BY <1>3 DEF ThreadRun, ClearStop, SetRun, TypeInv, InfoTypes, Resume, Duties, Cancelled
    <2> QED
          BY <2>1, <2>2, <2>3 DEF TypeInv
  <1>4. ASSUME TraceContexts PROVE TypeInv'
    <2>1. StackTypes' /\ EventTypes'
          BY <1>4, <1>a, <1>c DEF TraceContexts
    <2>2. InfoTypes'
          BY <1>4 DEF TraceContexts, TypeInv, InfoTypes, Duties
    <2> QED
          BY <2>1, <2>2 DEF TypeInv
  <1>5. ASSUME NEW c \in Step, PostStep(c) PROVE TypeInv'
    <2>1. StackTypes' /\ EventTypes'
          BY <1>5, <1>b, <1>c DEF PostStep
    <2>2. queue' \in Seq(Step)
      <3>1. queue \in Seq(Step) /\ Append(queue, c) \in Seq(Step) /\ <<c>> \in Seq(Step)
            BY <1>5 DEF TypeInv, InfoTypes
      <3>2. <<c>> \o queue \in Seq(Step)
            BY <3>1, ConcatProperties
      <3> QED
            BY <1>5, <3>1, <3>2 DEF PostStep
    <2>3. InfoTypes'
          BY <1>5, <2>2 DEF PostStep, TypeInv, InfoTypes
    <2> QED
          BY <2>1, <2>3 DEF TypeInv
  <1>6. ASSUME NEW k \in Key, SetBreak(k) PROVE TypeInv'
    <2>1. StackTypes' /\ EventTypes'
          BY <1>6, <1>b, <1>c DEF SetBreak
    <2>2. InfoTypes'
          BY <1>6 DEF SetBreak, Consolidate, Caching, TypeInv, InfoTypes, Duties
    <2> QED
          BY <2>1, <2>2 DEF TypeInv
  <1>7. ASSUME NEW k \in Key, RemoveBreak(k) PROVE TypeInv'
    <2>1. StackTypes' /\ EventTypes'
          BY <1>7, <1>b, <1>c DEF RemoveBreak
    <2>2. InfoTypes'
          BY <1>7 DEF RemoveBreak, Consolidate, TypeInv, InfoTypes
    <2> QED
          BY <2>1, <2>2 DEF TypeInv
  <1> QED
        BY <1>1, <1>2, <1>3, <1>4, <1>5, <1>6, <1>7 DEF Reader

LEMMA TypeStep == TypeInv /\ [Next]_vars => TypeInv'
  <1>1. TypeInv /\ UNCHANGED vars => TypeInv'
        BY DEF vars, info, tables, histories, TypeInv, StackTypes, InfoTypes, EventTypes, Depth, Gone
  <1> QED
        BY <1>1, TypeProgram, TypeTrace, TypeReader DEF Next

LEMMA TypeOKHolds == TypeInv => TypeOK
  <1> SUFFICES ASSUME TypeInv PROVE TypeOK
      OBVIOUS
  <1>1. (pc = "run") = (event = Idle)
        BY IdleType DEF TypeInv, EventTypes
  <1>2. stop \in 1 .. MaxDepth => stop <= Depth
        BY BoundsAssumption DEF TypeInv, StackTypes, Gone
  <1> QED
        BY <1>1, <1>2 DEF TypeOK, TypeInv, StackTypes, InfoTypes, EventTypes, Frame, Fn, Resume, Duties

-----------------------------------------------------------------------------
\* No breakpoint is passed.

LEMMA HitInit == Init => HitInv
  <1> SUFFICES ASSUME Init PROVE HitInv
      OBVIOUS
  <1> DEFINE broken == \E k \in bps : k[1] = Outer
  <1>1. /\ DOMAIN frames = {1} /\ Len(frames) = 1 /\ frames[1].fn = Outer /\ frames[1].line = 1
        /\ broken => frames[1].trace = "dispatch"
        BY DEF Init
  <1>2. WatchInv
        BY <1>1 DEF WatchInv, Watched, Unbroken, None
  <1>3. CacheInv
        BY DEF Init, CacheInv, Unbroken
  <1>4. DueInv
        BY DEF Init, DueInv
  <1> QED
        BY <1>2, <1>3, <1>4 DEF HitInv

\* No frame is watched less.
LEMMA StillWatched ==
  ASSUME WatchInv, bps' \subseteq bps, raced => raced', reader = "trace" => reader' = "trace",
         \A d \in DOMAIN frames' :
           /\ d \in DOMAIN frames
           /\ frames'[d].fn = frames[d].fn
           /\ frames[d].trace # None => frames'[d].trace # None
           /\ d = Depth /\ pc # "run" /\ event.kind = "call" =>
                \/ frames'[d].trace # None \/ Unbroken(frames[d].fn) \/ raced
                \/ d = Depth' /\ pc' # "run" /\ event'.kind = "call"
  PROVE  WatchInv'
  BY DEF WatchInv, Watched, Unbroken

\* The caches hold no more than before.
LEMMA StillCached ==
  ASSUME CacheInv, bps' \subseteq bps, raced => raced', cacheSkips' \subseteq cacheSkips,
         lineSkips' \subseteq lineSkips, pc' # "skip"
  PROVE  CacheInv'
  BY DEF CacheInv, Unbroken

LEMMA HitProgram == TypeInv /\ HitInv /\ Program => HitInv'
  <1> SUFFICES ASSUME TypeInv, HitInv, Program PROVE HitInv'
      OBVIOUS
  <1> USE DEF info, tables, histories
  <1>0. /\ Top \in Frame /\ Depth \in 1 .. MaxDepth /\ DOMAIN frames = 1 .. Depth
        /\ Depth \in Nat \ {0} /\ frames \in Seq(Frame)
        BY TopFrame, BoundsAssumption DEF TypeInv, StackTypes
  <1>1. ASSUME ReturnFn PROVE HitInv'
    <2>1. /\ pc = "run" /\ Depth > 1 /\ pc' # "skip" /\ pc' \in {"run", "enter", "readStop"}
          /\ due' = FALSE /\ UNCHANGED <<bps, cacheSkips, lineSkips, reader, raced>>
          BY <1>1 DEF ReturnFn, Begin
    <2>2. \A d \in DOMAIN frames' : d \in DOMAIN frames /\ frames'[d] = frames[d]
      <3>1. CASE Top.trace = None
        <4>1. frames' = Front(frames)
              BY <1>1, <3>1 DEF ReturnFn, Pop
        <4> QED
              BY <1>0, <2>1, <4>1, FrontStack
      <3>2. CASE Top.trace # None
            BY <1>1, <3>2 DEF ReturnFn
      <3> QED
            BY <3>1, <3>2
    <2>3. WatchInv'
          BY <2>1, <2>2, StillWatched DEF HitInv
    <2>4. CacheInv'
          BY <2>1, StillCached DEF HitInv
    <2>5. DueInv'
          BY <2>1 DEF DueInv
    <2> QED
          BY <2>3, <2>4, <2>5 DEF HitInv
  <1>2. ASSUME NEW fn \in Functions, CallFn(fn) PROVE HitInv'
    <2>1. /\ pc = "run" /\ pc' = "enter" /\ event'.kind = "call"
          /\ due' = FALSE /\ UNCHANGED <<bps, cacheSkips, lineSkips, reader, raced>>
          BY <1>2 DEF CallFn, Begin, Idle
    <2>2. /\ Len(frames') = Depth + 1 /\ DOMAIN frames' = 1 .. Depth + 1
          /\ \A d \in 1 .. Depth : frames'[d] = frames[d]
      <3>1. [fn |-> fn, line |-> 1, trace |-> None] \in Frame
            BY BoundsAssumption DEF Frame, Fn
      <3>2. /\ frames' \in Seq(Frame) /\ Len(frames') = Depth + 1
            /\ \A d \in 1 .. Depth : frames'[d] = frames[d]
            BY <1>0, <1>2, <3>1, PushedStack DEF CallFn
      <3> QED
            BY <3>2
    <2>3. WatchInv'
      <3>1. ASSUME NEW d \in 1 .. Depth PROVE Watched(d)'
            BY <1>0, <2>1, <2>2 DEF HitInv, WatchInv, Watched, Unbroken
      <3>2. Depth' = Depth + 1
            BY <2>2 DEF Depth
      <3>3. PICK n : n = Depth + 1
            OBVIOUS
      <3>4. Watched(n)'
            BY <2>1, <3>2, <3>3 DEF Watched
      <3> QED
            BY <1>0, <2>2, <3>1, <3>3, <3>4 DEF WatchInv
    <2>4. CacheInv'
          BY <2>1, StillCached DEF HitInv
    <2>5. DueInv'
          BY <2>1 DEF DueInv
    <2> QED
          BY <2>3, <2>4, <2>5 DEF HitInv
  <1>3. ASSUME NEW l \in 1 .. MaxLine, GoTo(l) PROVE HitInv'
    <2>1. /\ pc = "run" /\ pc' \in {"run", "enter", "readStop"}
          /\ UNCHANGED <<bps, cacheSkips, lineSkips, reader, raced>>
          /\ due' => <<Top.fn, l>> \in bps /\ reader # "trace" /\ ~raced
          BY <1>3 DEF GoTo, Begin
    <2>2. PICK f \in Frame : /\ f.fn = Top.fn /\ f.line = l /\ f.trace = Top.trace
                             /\ frames' = [frames EXCEPT ![Depth] = f]
      <3>1. /\ [Top EXCEPT !.line = l] \in Frame
            /\ [Top EXCEPT !.line = l].fn = Top.fn
            /\ [Top EXCEPT !.line = l].line = l
            /\ [Top EXCEPT !.line = l].trace = Top.trace
            BY <1>0 DEF Frame
      <3> QED
            BY <1>3, <3>1 DEF GoTo, Top
    <2>3. /\ Len(frames') = Depth /\ DOMAIN frames' = 1 .. Depth /\ frames'[Depth] = f
          /\ \A d \in 1 .. Depth - 1 : frames'[d] = frames[d]
      <3>1. /\ frames' \in Seq(Frame) /\ Len(frames') = Depth /\ frames'[Depth] = f
            /\ \A d \in 1 .. Depth - 1 : frames'[d] = frames[d]
            BY <1>0, <2>2, ToppedStack
      <3> QED
            BY <3>1
    <2>4. \A d \in DOMAIN frames' : /\ d \in DOMAIN frames /\ frames'[d].fn = frames[d].fn
                                    /\ frames'[d].trace = frames[d].trace
      <3>1. frames'[Depth].fn = frames[Depth].fn /\ frames'[Depth].trace = frames[Depth].trace
            BY <2>2, <2>3 DEF Top
      <3> QED
            BY <1>0, <2>3, <3>1
    <2>5. WatchInv'
          BY <2>1, <2>4, StillWatched DEF HitInv
    <2>6. CacheInv'
          BY <2>1, StillCached DEF HitInv
    <2>7. Top' = f /\ KeyOf(Top)' = <<Top.fn, l>>
          BY <2>2, <2>3 DEF Top, Depth, KeyOf
    <2>8. ASSUME due' PROVE pc' # "run" /\ event'.kind = "line"
      <3>1. ~Unbroken(Top.fn)
            BY <2>1, <2>8 DEF Unbroken
      <3>2. Top.trace # None
            BY <1>0, <2>1, <2>8, <3>1 DEF HitInv, WatchInv, Watched, Top
      <3> QED
            BY <1>3, <3>2 DEF GoTo, Begin, Idle
    <2>9. DueInv'
          BY <2>1, <2>7, <2>8 DEF DueInv, AtBreak, Looking
    <2> QED
          BY <2>5, <2>6, <2>9 DEF HitInv
  <1> QED
        BY <1>1, <1>2, <1>3 DEF Program

LEMMA HitTrace == TypeInv /\ HitInv /\ TraceFunction => HitInv'
  <1> SUFFICES ASSUME TypeInv, HitInv, TraceFunction PROVE HitInv'
      OBVIOUS
  <1> USE DEF info, tables, histories
  <1>0. /\ Top \in Frame /\ Depth \in 1 .. MaxDepth /\ DOMAIN frames = 1 .. Depth
        /\ Depth \in Nat \ {0} /\ frames \in Seq(Frame)
        BY TopFrame, BoundsAssumption DEF TypeInv, StackTypes
  \* Most steps change nothing of what the frames and the caches say, ...
  <1>a. ASSUME UNCHANGED <<frames, bps, cacheSkips, lineSkips, reader, raced>>,
               pc # "run", pc' # "run", pc' # "skip", event'.kind = event.kind
        PROVE  WatchInv' /\ CacheInv' /\ (AtBreak' <=> AtBreak) /\ Top' = Top /\ Depth' = Depth
    <2>1. Depth' = Depth /\ Top' = Top
          BY <1>a DEF Depth, Top
    <2>2. WatchInv'
          BY <1>a, <2>1, StillWatched DEF HitInv
    <2>3. CacheInv'
          BY <1>a, StillCached DEF HitInv
    <2> QED
          BY <1>a, <2>1, <2>2, <2>3 DEF AtBreak, KeyOf
  \* ... and an event ends when its line is not due.
  <1>b. ASSUME NEW result \in {None, "dispatch"}, Back(result), ~due,
               result = None => Unbroken(Top.fn) \/ raced \/ event.kind # "call",
               UNCHANGED <<bps, lineSkips, reader, due, raced>>,
               \A k \in cacheSkips' : k \in cacheSkips \/ Unbroken(k[1]) \/ raced
        PROVE  HitInv'
    <2>1. /\ pc' = "run" /\ event' = Idle
          /\ \A d \in DOMAIN frames' :
               /\ d \in DOMAIN frames
               /\ frames'[d].fn = frames[d].fn
               /\ frames[d].trace # None => frames'[d].trace # None
               /\ d = Depth => event.kind # "return" /\ (result # None => frames'[d].trace # None)
          BY <1>b, BackStep
    <2>2. WatchInv'
          BY <1>b, <2>1, StillWatched DEF HitInv, Top
    <2>3. CacheInv'
          BY <1>b, <2>1 DEF HitInv, CacheInv, Unbroken
    <2>4. DueInv'
          BY <1>b, <2>1 DEF DueInv
    <2> QED
          BY <2>2, <2>3, <2>4 DEF HitInv
  <1>1. ASSUME Enter PROVE HitInv'
    <2>1. CASE cmd = None /\ KeyOf(Top) \in cacheSkips
      <3>1. KeyOf(Top)[1] = Top.fn
            BY DEF KeyOf
      <3>2. Unbroken(Top.fn) \/ raced
            BY <2>1, <3>1 DEF HitInv, CacheInv
      <3>3. ~due
        <4>1. AtBreak => ~Unbroken(Top.fn)
              BY <3>1 DEF AtBreak, Unbroken
        <4> QED
              BY <1>1, <3>2, <4>1 DEF Enter, HitInv, DueInv, Looking
      <3> QED
            BY <1>1, <1>b, <2>1, <3>2, <3>3 DEF Enter
    <2>2. CASE ~(cmd = None /\ KeyOf(Top) \in cacheSkips)
      <3>1. /\ pc = "enter" /\ pc' = "readStop" /\ UNCHANGED <<frames, stop, event, continued>>
            /\ UNCHANGED <<state, cmd, tables, queue, reader, due, raced, from>>
            BY <1>1, <2>2 DEF Enter
      <3>2. WatchInv' /\ CacheInv' /\ (AtBreak' <=> AtBreak)
            BY <1>a, <3>1
      <3>3. DueInv'
            BY <3>1, <3>2 DEF HitInv, DueInv, Looking
      <3> QED
            BY <3>2, <3>3 DEF HitInv
    <2> QED
          BY <2>1, <2>2
  <1>2. ASSUME Look PROVE HitInv'
    <2>1. /\ pc = "look" /\ pc' \in {"skip", "back", "test"}
          /\ UNCHANGED <<frames, state, tables, reader, due, raced>>
          BY <1>2 DEF Look
    <2>2. event'.kind = event.kind /\ event'.lines = LinesOf(Top.fn)
          BY <1>2 DEF Look, TypeInv, EventTypes, Event
    <2>3. Depth' = Depth /\ Top' = Top /\ (AtBreak' <=> AtBreak)
          BY <2>1 DEF Depth, Top, AtBreak, KeyOf
    <2>4. WatchInv'
          BY <2>1, <2>2, <2>3, StillWatched DEF HitInv
    <2>5. AtBreak => ~Unbroken(Top.fn) /\ Top.line \in LinesOf(Top.fn)
          BY DEF AtBreak, KeyOf, Unbroken, LinesOf
    <2>6. pc' = "skip" => Unbroken(Top.fn)
          BY <1>2, NoLines DEF Look
    <2>7. pc' = "back" => ~AtBreak \/ raced
          BY <1>2 DEF Look, HitInv, CacheInv, AtBreak
    <2>8. CacheInv'
          BY <2>1, <2>3, <2>6 DEF HitInv, CacheInv, Unbroken
    <2>9. due => AtBreak /\ ~raced /\ event.kind = "line"
          BY <2>1 DEF HitInv, DueInv, Looking
    <2>10. due => pc' = "test"
          BY <2>1, <2>5, <2>6, <2>7, <2>9
    <2>11. DueInv'
          BY <2>1, <2>2, <2>3, <2>5, <2>9, <2>10 DEF DueInv, Looking
    <2> QED
          BY <2>4, <2>8, <2>11 DEF HitInv
  <1>3. ASSUME Skip PROVE HitInv'
    <2>1. KeyOf(Top)[1] = Top.fn /\ (Unbroken(Top.fn) \/ raced) /\ ~due
          BY <1>3 DEF Skip, HitInv, CacheInv, DueInv, Looking, KeyOf
    <2>2. \A k \in cacheSkips' : k \in cacheSkips \/ Unbroken(k[1]) \/ raced
          BY <1>3, <2>1 DEF Skip
    <2> QED
          BY <1>3, <1>b, <2>1, <2>2 DEF Skip
  <1>4. ASSUME Test PROVE HitInv'
    <2> DEFINE hit == event.kind # "return" /\ state = "run" /\ Top.line \in event.lines
               stepped == Stepped /\ event.kind = "line"
    <2>1. /\ pc = "test" /\ pc' = "check"
          /\ UNCHANGED <<frames, tables, reader, due, raced>>
          BY <1>4 DEF Test
    <2>2. PICK h : h = hit
          OBVIOUS
    <2>3. /\ event'.kind = event.kind /\ event'.cmd = event.cmd /\ event'.stop = event.stop
          /\ event'.hit = h
          BY <1>4, <2>2 DEF Test, TypeInv, EventTypes, Event
    <2>4. state' = IF h /\ ~stepped THEN "suspend" ELSE state
          BY <1>4, <2>2 DEF Test, Stepped
    <2>5. WatchInv' /\ CacheInv' /\ (AtBreak' <=> AtBreak) /\ Top' = Top /\ Depth' = Depth
          BY <1>a, <2>1, <2>3
    <2>6. Stepped' <=> Stepped
          BY <2>3, <2>5 DEF Stepped
    <2>7. state \in {"run", "suspend"}
          BY DEF TypeInv, InfoTypes
    <2>8. /\ due => event.kind = "line" /\ AtBreak /\ Top.line \in event.lines
          /\ AtBreak => raced \/ Top.line \in event.lines
          BY <2>1 DEF HitInv, DueInv
    <2>9. due => state' = "suspend" \/ Stepped
          BY <2>2, <2>4, <2>7, <2>8
    <2>10. ~h /\ event.kind # "return" => raced \/ ~AtBreak \/ state' = "suspend"
          BY <2>2, <2>4, <2>7, <2>8
    <2>11. DueInv'
          BY <2>1, <2>3, <2>5, <2>6, <2>8, <2>9, <2>10 DEF DueInv, Looking
    <2> QED
          BY <2>5, <2>11 DEF HitInv
  <1>5. ASSUME Check PROVE HitInv'
    <2>1. /\ pc = "check" /\ pc' \in {"show", "step"}
          /\ UNCHANGED <<frames, bps, cacheSkips, reader, raced>>
          BY <1>5 DEF Check
    <2>2. event'.kind = event.kind /\ event'.cmd = event.cmd /\ event'.stop = event.stop
          BY <1>5 DEF Check, TypeInv, EventTypes, Event
    <2>3. Depth' = Depth /\ Top' = Top /\ (AtBreak' <=> AtBreak) /\ (Stepped' <=> Stepped)
          BY <2>1, <2>2 DEF Depth, Top, AtBreak, KeyOf, Stepped
    <2>4. WatchInv'
          BY <2>1, <2>2, <2>3, StillWatched DEF HitInv
    <2>5. \A k \in lineSkips' : k \in lineSkips \/ k \notin bps \/ raced
          BY <1>5 DEF Check, HitInv, DueInv, AtBreak
    <2>6. CacheInv'
          BY <2>1, <2>5 DEF HitInv, CacheInv, Unbroken
    <2>7. due' => due /\ pc' = "step" /\ state # "suspend"
          BY <1>5 DEF Check
    <2>8. DueInv'
          BY <2>1, <2>2, <2>3, <2>7 DEF HitInv, DueInv, Looking
    <2> QED
          BY <2>4, <2>6, <2>8 DEF HitInv
  <1>6. ASSUME StepHandling PROVE HitInv'
    <2>1. /\ pc = "step" /\ pc' \in {"show", "back"}
          /\ UNCHANGED <<frames, tables, reader, raced>>
          BY <1>6 DEF StepHandling
    <2>2. event'.kind = event.kind
          BY <1>6 DEF StepHandling, TypeInv, EventTypes, Event
    <2>3. WatchInv' /\ CacheInv'
          BY <1>a, <2>1, <2>2
    <2>4. ~due'
      <3>1. due => StepEndsHere
            BY <2>1 DEF HitInv, DueInv, StepEndsHere, Stepped
      <3> QED
            BY <1>6, <3>1 DEF StepHandling
    <2>5. DueInv'
          BY <2>1, <2>4 DEF DueInv
    <2> QED
          BY <2>3, <2>5 DEF HitInv
  <1>7. ASSUME Dispatch PROVE HitInv'
        BY <1>7, <1>b DEF Dispatch, HitInv, DueInv, Looking, None
  <1>8. ASSUME Show \/ Wait PROVE HitInv'
    <2>1. /\ pc \in {"show", "wait"} /\ pc' \in {"wait", "leave"}
          /\ UNCHANGED <<frames, tables, reader, event, due, raced>>
          BY <1>8 DEF Show, Wait
    <2>2. WatchInv' /\ CacheInv'
          BY <1>a, <2>1
    <2>3. DueInv'
          BY <2>1 DEF HitInv, DueInv, Looking
    <2> QED
          BY <2>2, <2>3 DEF HitInv
  <1>9. ASSUME Leave \/ ReadStop \/ ReadCmd PROVE HitInv'
    <2>1. /\ pc \in {"leave", "readStop", "readCmd"}
          /\ pc' = IF pc = "readStop" THEN "readCmd" ELSE IF pc = "readCmd" THEN "look" ELSE pc'
          /\ pc = "leave" => pc' \in {"mark", "back"}
          /\ UNCHANGED <<frames, tables, reader, due, raced>>
          BY <1>9 DEF Leave, ReadStop, ReadCmd
    <2>2. event'.kind = event.kind
          BY <1>9 DEF Leave, ReadStop, ReadCmd, TypeInv, EventTypes, Event
    <2>3. WatchInv' /\ CacheInv' /\ (AtBreak' <=> AtBreak)
          BY <1>a, <2>1, <2>2
    <2>4. DueInv'
          BY <2>1, <2>2, <2>3 DEF HitInv, DueInv, Looking
    <2> QED
          BY <2>3, <2>4 DEF HitInv
  <1>10. ASSUME Mark PROVE HitInv'
    <2>1. /\ pc = "mark" /\ pc' = "back" /\ frames' = Traced(event.shown, FALSE)
          /\ UNCHANGED <<tables, reader, event, due, raced>>
          BY <1>10 DEF Mark
    <2>2. event.shown \in Nat /\ FALSE \in BOOLEAN
          BY <1>0, <2>1 DEF TypeInv, EventTypes
    <2>3. /\ Len(frames') = Depth /\ DOMAIN frames' = 1 .. Depth
          /\ \A d \in 1 .. Depth : /\ frames'[d].fn = frames[d].fn
                                   /\ frames[d].trace # None => frames'[d].trace # None
      <3>1. /\ frames' \in Seq(Frame) /\ Len(frames') = Depth
            /\ \A d \in 1 .. Depth : /\ frames'[d].fn = frames[d].fn
                                     /\ frames[d].trace # None => frames'[d].trace # None
            BY <1>0, <2>1, <2>2, TracedStack
      <3> QED
            BY <3>1
    <2>4. Depth' = Depth
          BY <2>3 DEF Depth
    <2>5. WatchInv'
          BY <1>0, <2>1, <2>3, <2>4, StillWatched DEF HitInv
    <2>6. CacheInv'
          BY <2>1, StillCached DEF HitInv
    <2>7. DueInv'
          BY <2>1 DEF HitInv, DueInv, Looking
    <2> QED
          BY <2>5, <2>6, <2>7 DEF HitInv
  <1> QED
        BY <1>1, <1>2, <1>3, <1>4, <1>5, <1>6, <1>7, <1>8, <1>9, <1>10 DEF TraceFunction

LEMMA HitReader == TypeInv /\ HitInv /\ Reader => HitInv'
  <1> SUFFICES ASSUME TypeInv, HitInv, Reader PROVE HitInv'
      OBVIOUS
  <1> USE DEF info, tables, histories, Command
  <1>0. /\ Top \in Frame /\ Depth \in 1 .. MaxDepth /\ DOMAIN frames = 1 .. Depth
        /\ Depth \in Nat \ {0} /\ frames \in Seq(Frame)
        BY TopFrame, BoundsAssumption DEF TypeInv, StackTypes
  \* Tracing every frame keeps the functions and the lines of the stack.
  <1>a. ASSUME frames' = Traced(Depth, TRUE), UNCHANGED <<tables, pc, event, raced, due, state>>
        PROVE  HitInv'
    <2>1. Depth \in Nat /\ TRUE \in BOOLEAN /\ \A d \in 1 .. Depth : d <= Depth
          BY <1>0
    <2>2. /\ Len(frames') = Depth /\ DOMAIN frames' = 1 .. Depth
          /\ \A d \in 1 .. Depth : /\ frames'[d].fn = frames[d].fn
                                   /\ frames'[d].line = frames[d].line
                                   /\ frames'[d].trace # None
      <3>1. /\ frames' \in Seq(Frame) /\ Len(frames') = Depth
            /\ \A d \in 1 .. Depth : /\ frames'[d].fn = frames[d].fn
                                     /\ frames'[d].line = frames[d].line
                                     /\ frames'[d].trace # None
            BY <1>0, <1>a, <2>1, TracedStack
      <3> QED
            BY <3>1
    <2>3. WatchInv'
          BY <2>2 DEF WatchInv, Watched
    <2>4. Depth' = Depth /\ Top'.fn = Top.fn /\ Top'.line = Top.line
          BY <1>0, <2>2 DEF Depth, Top
    <2>5. CacheInv'
          BY <1>a, <2>4 DEF HitInv, CacheInv, Unbroken
    <2>6. DueInv'
          BY <1>a, <2>4 DEF HitInv, DueInv, Looking, AtBreak, KeyOf, Stepped
    <2> QED
          BY <2>3, <2>5, <2>6 DEF HitInv
  <1>1. ASSUME ThreadSuspend PROVE HitInv'
        BY <1>1, <1>a DEF ThreadSuspend
  <1>2. ASSUME TraceContexts PROVE HitInv'
        BY <1>2, <1>a DEF TraceContexts
  <1>3. ASSUME SetSuspend PROVE HitInv'
    <2>1. /\ UNCHANGED <<frames, tables, pc, event, due, raced>> /\ state' = "suspend"
          /\ reader = "pause"
          BY <1>3 DEF SetSuspend
    <2>2. Depth' = Depth /\ Top' = Top
          BY <2>1 DEF Depth, Top
    <2>3. WatchInv'
          BY <2>1, <2>2, StillWatched DEF HitInv
    <2>4. CacheInv'
          BY <2>1, <2>2 DEF HitInv, CacheInv, Unbroken
    <2>5. DueInv'
          BY <2>1, <2>2 DEF HitInv, DueInv, AtBreak, KeyOf, Stepped
    <2> QED
          BY <2>3, <2>4, <2>5 DEF HitInv
  <1>4. ASSUME ThreadRun \/ ClearStop PROVE HitInv'
    <2>1. UNCHANGED <<frames, tables, pc, event, state, due, raced>> /\ reader # "trace"
          BY <1>4 DEF ThreadRun, ClearStop
    <2>2. Depth' = Depth /\ Top' = Top
          BY <2>1 DEF Depth, Top
    <2>3. WatchInv'
          BY <2>1, <2>2, StillWatched DEF HitInv
    <2>4. CacheInv'
          BY <2>1, <2>2 DEF HitInv, CacheInv, Unbroken
    <2>5. DueInv'
          BY <2>1, <2>2 DEF HitInv, DueInv, Looking, AtBreak, KeyOf, Stepped
    <2> QED
          BY <2>3, <2>4, <2>5 DEF HitInv
  <1>8. ASSUME SetRun PROVE HitInv'
    <2>1. /\ UNCHANGED <<frames, tables, pc, event>> /\ reader # "trace" /\ state' = "run"
          /\ due' = FALSE /\ raced' = (raced \/ (pc = "check" /\ state = "suspend"))
          BY <1>8 DEF SetRun
    <2>2. Depth' = Depth /\ Top' = Top
          BY <2>1 DEF Depth, Top
    <2>3. WatchInv'
          BY <2>1, <2>2, StillWatched DEF HitInv
    <2>4. CacheInv'
          BY <2>1, <2>2 DEF HitInv, CacheInv, Unbroken
    <2>5. DueInv'
          BY <2>1, <2>2 DEF HitInv, DueInv, AtBreak, KeyOf
    <2> QED
          BY <2>3, <2>4, <2>5 DEF HitInv
  <1>5. ASSUME NEW c \in Step, PostStep(c) PROVE HitInv'
    <2>1. UNCHANGED <<frames, info, tables, reader, pc, event, histories>>
          BY <1>5 DEF PostStep
    <2>2. Depth' = Depth /\ Top' = Top
          BY <2>1 DEF Depth, Top
    <2>3. WatchInv'
          BY <2>1, <2>2, StillWatched DEF HitInv
    <2>4. CacheInv'
          BY <2>1, <2>2 DEF HitInv, CacheInv, Unbroken
    <2>5. DueInv'
          BY <2>1, <2>2 DEF HitInv, DueInv, AtBreak, KeyOf, Stepped
    <2> QED
          BY <2>3, <2>4, <2>5 DEF HitInv
  <1>6. ASSUME NEW k \in Key, SetBreak(k) PROVE HitInv'
    <2>1. /\ UNCHANGED <<frames, info, pc, event>> /\ reader' = "trace"
          /\ bps' = bps \cup {k} /\ cacheSkips' = {} /\ lineSkips' = {}
          /\ raced' = (Caching /\ (raced \/ Top.fn = k[1]))
          /\ due' = (due /\ pc # "run")
          BY <1>6 DEF SetBreak, Consolidate
    <2>2. Depth' = Depth /\ Top' = Top
          BY <2>1 DEF Depth, Top
    <2>3. WatchInv'
          BY <2>1 DEF WatchInv, Watched
    <2>4. CacheInv'
          BY <2>1, <2>2 DEF HitInv, CacheInv, Unbroken, Caching
    <2>5. /\ AtBreak => AtBreak'
          /\ AtBreak' => AtBreak \/ Top.fn = k[1]
          BY <2>1, <2>2 DEF AtBreak, KeyOf
    <2>6. Stepped' <=> Stepped
          BY <2>1, <2>2 DEF Stepped
    <2>7. DueInv'
          BY <2>1, <2>2, <2>5, <2>6 DEF HitInv, DueInv, Looking, Caching
    <2> QED
          BY <2>3, <2>4, <2>7 DEF HitInv
  <1>7. ASSUME NEW k \in Key, RemoveBreak(k) PROVE HitInv'
    <2>1. /\ UNCHANGED <<frames, info, reader, pc, event, raced>>
          /\ bps' = bps \ {k} /\ cacheSkips' = {} /\ lineSkips' = {}
          /\ due' = (due /\ pc # "run" /\ k # KeyOf(Top))
          BY <1>7 DEF RemoveBreak, Consolidate
    <2>2. Depth' = Depth /\ Top' = Top
          BY <2>1 DEF Depth, Top
    <2>3. WatchInv'
          BY <2>1, <2>2, StillWatched DEF HitInv
    <2>4. CacheInv'
          BY <2>1, <2>2 DEF HitInv, CacheInv, Unbroken
    <2>5. AtBreak' <=> AtBreak /\ k # KeyOf(Top)
          BY <2>1, <2>2 DEF AtBreak, KeyOf
    <2>6. Stepped' <=> Stepped
          BY <2>1, <2>2 DEF Stepped
    <2>7. DueInv'
          BY <2>1, <2>2, <2>5, <2>6 DEF HitInv, DueInv
    <2> QED
          BY <2>3, <2>4, <2>7 DEF HitInv
  <1> QED
        BY <1>1, <1>2, <1>3, <1>4, <1>5, <1>6, <1>7, <1>8 DEF Reader

LEMMA HitStep == TypeInv /\ HitInv /\ [Next]_vars => HitInv'
  <1>1. HitInv /\ UNCHANGED vars => HitInv'
        BY DEF vars, info, tables, histories, HitInv, WatchInv, Watched, Unbroken, CacheInv, DueInv,
               AtBreak, KeyOf, Top, Depth, Stepped
  <1> QED
        BY <1>1, HitProgram, HitTrace, HitReader DEF Next

-----------------------------------------------------------------------------
\* Steps stop where they should.

StepsInv == StepInv /\ StepStopsWhere

LEMMA StepInit == Init => StepsInv
  BY DEF Init, StepsInv, StepInv, CmdInv, CopyInv, ContinueInv, Cancelled, StepStopsWhere, InEvent,
         OutOf, Idle, None

\* A step of the thread that leaves the command and the histories alone, at which no step
\* begins to be handled.
LEMMA StepQuiet ==
  ASSUME TypeInv, StepsInv, pc \notin {"test", "check", "step", "show", "wait", "leave", "mark"},
         pc' \in {"run", "enter", "readStop", "skip", "back"},
         stop' \in {stop, Gone}, UNCHANGED <<cmd, from>>,
         continued' \in Cancelled => continued \in Cancelled
  PROVE  StepsInv'
  BY DEF StepsInv, StepInv, CmdInv, CopyInv, ContinueInv, StepStopsWhere, InEvent, OutOf

LEMMA StepProgram == TypeInv /\ StepsInv /\ Program => StepsInv'
  <1> SUFFICES ASSUME TypeInv, StepsInv, Program PROVE StepsInv'
      OBVIOUS
  <1> USE DEF info, tables, histories
  <1>1. ASSUME ReturnFn PROVE StepsInv'
    <2>1. stop' \in {stop, Gone}
          BY <1>1 DEF ReturnFn, Pop, Popped
    <2>2. /\ pc = "run" /\ pc' \in {"run", "enter", "readStop"} /\ UNCHANGED <<cmd, from, continued>>
          BY <1>1 DEF ReturnFn, Begin
    <2> QED
          BY <2>1, <2>2, StepQuiet
  <1>2. ASSUME NEW fn \in Functions, CallFn(fn) PROVE StepsInv'
    <2>1. /\ pc = "run" /\ pc' = "enter" /\ UNCHANGED <<stop, cmd, from, continued>>
          BY <1>2 DEF CallFn, Begin
    <2> QED
          BY <2>1, StepQuiet
  <1>3. ASSUME NEW l \in 1 .. MaxLine, GoTo(l) PROVE StepsInv'
    <2>1. /\ pc = "run" /\ pc' \in {"run", "enter", "readStop"}
          /\ UNCHANGED <<stop, cmd, from, continued>>
          BY <1>3 DEF GoTo, Begin
    <2> QED
          BY <2>1, StepQuiet
  <1> QED
        BY <1>1, <1>2, <1>3 DEF Program

LEMMA StepTrace == TypeInv /\ StepsInv /\ TraceFunction => StepsInv'
  <1> SUFFICES ASSUME TypeInv, StepsInv, TraceFunction PROVE StepsInv'
      OBVIOUS
  <1> USE DEF info, tables, histories
  <1>0. Depth \in 1 .. MaxDepth /\ Gone = MaxDepth + 1 /\ MaxDepth \in Nat
        BY TopFrame, BoundsAssumption DEF TypeInv, StackTypes, Gone
  <1>a. ASSUME NEW result \in {None, "dispatch"}, Back(result), pc \in {"enter", "skip", "back"},
               UNCHANGED <<cmd, from>>
        PROVE  StepsInv'
        BY <1>a, BackStep, StepQuiet
  <1>1. ASSUME Enter PROVE StepsInv'
    <2>1. CASE cmd = None /\ KeyOf(Top) \in cacheSkips
          BY <1>1, <1>a, <2>1 DEF Enter
    <2>2. CASE ~(cmd = None /\ KeyOf(Top) \in cacheSkips)
      <3>1. pc = "enter" /\ pc' = "readStop" /\ UNCHANGED <<cmd, stop, from, continued>>
            BY <1>1, <2>2 DEF Enter
      <3> QED
            BY <3>1, StepQuiet
    <2> QED
          BY <2>1, <2>2
  <1>2. ASSUME Look PROVE StepsInv'
    <2>1. /\ pc = "look" /\ pc' \in {"skip", "back", "test"}
          /\ UNCHANGED <<frames, from>> /\ Depth' = Depth
          BY <1>2 DEF Look, Depth
    <2>2. event'.kind = event.kind /\ event'.stop = event.stop /\ event'.cmd = event.cmd
          BY <1>2 DEF Look, TypeInv, EventTypes, Event
    <2>3. /\ cmd \in OutOf => from.cmd = cmd /\ stop \in {0, from.frame, Gone}
          /\ cmd = "into" => from.cmd = "into"
          /\ event.cmd = "into" => from.cmd = "into"
          /\ event.cmd \in OutOf => from.cmd = event.cmd /\ event.stop \in {0, from.frame, Gone}
          /\ continued \in Cancelled => cmd = None
          /\ continued = "since" => event.cmd = None
          BY <2>1 DEF StepsInv, StepInv, CmdInv, CopyInv, ContinueInv, InEvent
    <2>4. CASE event.stop = Depth /\ event.kind = "return" /\ event.cmd \in {"over", "return"}
      <3>1. /\ cmd' = "into" /\ stop' = 0
            /\ continued' = IF continued = "during" THEN "undone" ELSE continued
            BY <1>2, <2>4 DEF Look
      <3>2. pc' = "test"
        <4>1. ~CanSkip
              BY <2>4 DEF CanSkip, None
        <4> QED
              BY <1>2, <4>1 DEF Look
      <3>3. continued # "since" /\ from.cmd = event.cmd /\ event.cmd \in OutOf
            BY <2>3, <2>4 DEF OutOf, None
      <3>4. continued' \notin Cancelled
            BY <3>1, <3>3 DEF Cancelled
      <3>5. CmdInv'
            BY <2>1, <2>2, <2>4, <3>1, <3>2, <3>3 DEF CmdInv, OutOf
      <3>6. CopyInv' /\ ContinueInv'
            BY <2>1, <2>2, <2>3, <3>2, <3>4 DEF CopyInv, ContinueInv, InEvent, Cancelled, Gone
      <3> QED
            BY <3>2, <3>5, <3>6 DEF StepsInv, StepInv, StepStopsWhere
    <2>5. CASE ~(event.stop = Depth /\ event.kind = "return" /\ event.cmd \in {"over", "return"})
      <3>1. UNCHANGED <<cmd, stop, continued>>
            BY <1>2, <2>5 DEF Look
      <3>2. CmdInv'
            BY <2>1, <2>3, <3>1 DEF CmdInv, OutOf, Gone
      <3>3. CopyInv' /\ ContinueInv'
            BY <2>1, <2>2, <2>3, <3>1 DEF CopyInv, ContinueInv, InEvent, Gone
      <3> QED
            BY <2>1, <3>2, <3>3 DEF StepsInv, StepInv, StepStopsWhere
    <2> QED
          BY <2>4, <2>5
  <1>3. ASSUME Skip PROVE StepsInv'
        BY <1>3, <1>a DEF Skip
  <1>4. ASSUME Test PROVE StepsInv'
    <2>1. /\ pc = "test" /\ pc' = "check"
          /\ UNCHANGED <<cmd, stop, from, continued>> /\ Depth' = Depth
          BY <1>4 DEF Test, Depth
    <2>2. event'.kind = event.kind /\ event'.stop = event.stop /\ event'.cmd = event.cmd
          BY <1>4 DEF Test, TypeInv, EventTypes, Event
    <2> QED
          BY <2>1, <2>2
          DEF StepsInv, StepInv, CmdInv, CopyInv, ContinueInv, StepStopsWhere, InEvent, Gone
  <1>5. ASSUME Check PROVE StepsInv'
    <2>1. /\ pc = "check" /\ UNCHANGED <<cmd, stop, from, continued>> /\ Depth' = Depth
          BY <1>5 DEF Check, Depth
    <2>2. CASE state = "suspend"
      <3>1. pc' = "show" /\ event' = [event EXCEPT !.shown = Depth, !.why = "flag"]
            BY <1>5, <2>2 DEF Check
      <3>2. /\ event'.kind = event.kind /\ event'.stop = event.stop /\ event'.cmd = event.cmd
            /\ event'.why = "flag"
        <4>1. event \in Event /\ Depth \in 0 .. MaxDepth
              BY <1>0 DEF TypeInv, EventTypes
        <4> QED
              BY <3>1, <4>1, ShownEvent
      <3> QED
            BY <2>1, <3>1, <3>2
            DEF StepsInv, StepInv, CmdInv, CopyInv, ContinueInv, StepStopsWhere, InEvent, Gone
    <2>3. CASE state # "suspend"
      <3>1. pc' = "step" /\ UNCHANGED event
            BY <1>5, <2>3 DEF Check
      <3> QED
            BY <2>1, <3>1
            DEF StepsInv, StepInv, CmdInv, CopyInv, ContinueInv, StepStopsWhere, InEvent, Gone
    <2> QED
          BY <2>2, <2>3
  <1>6. ASSUME StepHandling PROVE StepsInv'
    <2>1. /\ pc = "step" /\ UNCHANGED <<cmd, stop, from, continued>> /\ Depth' = Depth
          BY <1>6 DEF StepHandling, Depth
    <2>2. /\ event.cmd = "into" => from.cmd = "into"
          /\ event.cmd \in OutOf /\ event.stop = Depth => from.cmd = event.cmd /\ from.frame = Depth
          /\ continued = "since" => event.cmd = None
          BY <1>0, <2>1 DEF StepsInv, StepInv, CopyInv, ContinueInv, InEvent
    <2>3. CASE StepEndsHere
      <3> DEFINE n == IF event.kind = "line" THEN Depth ELSE Depth - 1
      <3>1. pc' = "show" /\ event' = [event EXCEPT !.shown = n, !.why = "step"]
            BY <1>6, <2>3 DEF StepHandling
      <3>2. n \in 0 .. MaxDepth /\ n <= Depth /\ (event.kind = "return" => n < Depth)
            BY <1>0
      <3>3. /\ event.cmd # None
            /\ from.cmd = "over" => from.frame = Depth
            /\ from.cmd = "return" => from.frame = Depth /\ event.kind = "return"
            BY <2>2, <2>3 DEF StepEndsHere, OutOf, None
      <3> HIDE DEF n
      <3>4. /\ event'.kind = event.kind /\ event'.stop = event.stop /\ event'.cmd = event.cmd
            /\ event'.shown = n
            BY <3>1, <3>2, ShownEvent DEF TypeInv, EventTypes
      <3>5. StepStopsWhere'
            BY <2>1, <2>2, <3>2, <3>3, <3>4 DEF StepStopsWhere
      <3>6. StepInv'
            BY <2>1, <3>1, <3>4 DEF StepsInv, StepInv, CmdInv, CopyInv, ContinueInv, InEvent, Gone
      <3> QED
            BY <3>5, <3>6 DEF StepsInv
    <2>4. CASE ~StepEndsHere
      <3>1. pc' = "back" /\ UNCHANGED event
            BY <1>6, <2>4 DEF StepHandling
      <3>2. ~(event.cmd \in OutOf /\ event.stop = Depth /\ event.kind = "return")
            BY <2>4 DEF StepEndsHere, OutOf
      <3> QED
            BY <2>1, <3>1, <3>2
            DEF StepsInv, StepInv, CmdInv, CopyInv, ContinueInv, StepStopsWhere, InEvent, Gone
    <2> QED
          BY <2>3, <2>4
  <1>7. ASSUME Dispatch PROVE StepsInv'
        BY <1>7, <1>a DEF Dispatch
  <1>8. ASSUME Show \/ Wait PROVE StepsInv'
    <2>1. /\ pc \in {"show", "wait"} /\ pc' \in {"wait", "leave"}
          /\ continued' = "no" \/ UNCHANGED <<cmd, continued>>
          BY <1>8 DEF Show, Wait, Process
    <2> QED
          BY <2>1 DEF StepsInv, StepInv, CmdInv, CopyInv, ContinueInv, StepStopsWhere, InEvent,
                      Cancelled
  <1>9. ASSUME Leave PROVE StepsInv'
    <2>1. /\ pc = "leave" /\ pc' = IF cmd \in OutOf THEN "mark" ELSE "back"
          /\ UNCHANGED <<cmd, event, continued>>
          /\ cmd # None => from' = [cmd |-> cmd, frame |-> event.shown]
          BY <1>9 DEF Leave, OutOf
    <2>2. cmd \in OutOf \cup {"into"} => from'.cmd = cmd /\ from'.frame = event.shown
          BY <2>1 DEF OutOf, None
    <2> QED
          BY <2>1, <2>2
          DEF StepsInv, StepInv, CmdInv, CopyInv, ContinueInv, StepStopsWhere, InEvent, OutOf
  <1>10. ASSUME Mark PROVE StepsInv'
    <2>1. pc = "mark" /\ pc' = "back" /\ stop' = event.shown /\ UNCHANGED <<cmd, from, continued>>
          BY <1>10 DEF Mark
    <2> QED
          BY <2>1 DEF StepsInv, StepInv, CmdInv, CopyInv, ContinueInv, StepStopsWhere, InEvent
  <1>11. ASSUME ReadStop PROVE StepsInv'
    <2>1. /\ pc = "readStop" /\ pc' = "readCmd" /\ UNCHANGED <<cmd, stop, from, continued>>
          BY <1>11 DEF ReadStop
    <2>2. event'.stop = stop
          BY <1>11 DEF ReadStop, TypeInv, EventTypes, Event
    <2> QED
          BY <2>1, <2>2
          DEF StepsInv, StepInv, CmdInv, CopyInv, ContinueInv, StepStopsWhere, InEvent, Gone
  <1>12. ASSUME ReadCmd PROVE StepsInv'
    <2>1. /\ pc = "readCmd" /\ pc' = "look" /\ UNCHANGED <<cmd, stop, from, continued>>
          BY <1>12 DEF ReadCmd
    <2>2. event'.cmd = cmd /\ event'.stop = event.stop
          BY <1>12 DEF ReadCmd, TypeInv, EventTypes, Event
    <2>3. CmdInv'
          BY <2>1 DEF StepsInv, StepInv, CmdInv, Gone
    <2>4. CopyInv'
          BY <2>1, <2>2 DEF StepsInv, StepInv, CmdInv, CopyInv, InEvent, Gone
    <2>5. ContinueInv'
          BY <2>1, <2>2 DEF StepsInv, StepInv, ContinueInv, Cancelled
    <2> QED
          BY <2>1, <2>3, <2>4, <2>5 DEF StepsInv, StepInv, StepStopsWhere
  <1> QED
        BY <1>1, <1>2, <1>3, <1>4, <1>5, <1>6, <1>7, <1>8, <1>9, <1>10, <1>11, <1>12
        DEF TraceFunction

LEMMA StepReader == TypeInv /\ StepsInv /\ Reader => StepsInv'
  <1> SUFFICES ASSUME TypeInv, StepsInv, Reader PROVE StepsInv'
      OBVIOUS
  <1> USE DEF info, tables, histories, Command
  <1>0. frames \in Seq(Frame) /\ Depth \in Nat
        BY TopFrame, BoundsAssumption DEF TypeInv, StackTypes
  <1>a. ASSUME Depth' = Depth, UNCHANGED <<cmd, stop, pc, event, continued, from>>
        PROVE  StepsInv'
        BY <1>a DEF StepsInv, StepInv, CmdInv, CopyInv, ContinueInv, StepStopsWhere, InEvent, Gone
  <1>b. Traced(Depth, TRUE) = frames' => Depth' = Depth
    <2>1. TRUE \in BOOLEAN
          OBVIOUS
    <2>2. Len(Traced(Depth, TRUE)) = Depth
          BY <1>0, <2>1, TracedStack
    <2> QED
          BY <2>2 DEF Depth
  <1>c. UNCHANGED frames => Depth' = Depth
        BY DEF Depth
  <1>1. ASSUME ThreadSuspend \/ TraceContexts PROVE StepsInv'
        BY <1>1, <1>a, <1>b DEF ThreadSuspend, TraceContexts
  <1>2. ASSUME SetSuspend PROVE StepsInv'
        BY <1>2, <1>a, <1>c DEF SetSuspend
  <1>3. ASSUME ThreadRun PROVE StepsInv'
    <2>1. /\ cmd' = None /\ Depth' = Depth /\ UNCHANGED <<pc, event, from>>
          /\ continued' = "since" => pc \notin {"look", "test", "check", "step", "show"}
          BY <1>3, <1>c DEF ThreadRun, Copied
    <2>2. CmdInv' /\ ContinueInv'
          BY <2>1 DEF StepsInv, StepInv, CmdInv, ContinueInv, InEvent, OutOf, None
    <2>3. CopyInv'
          BY <2>1 DEF StepsInv, StepInv, CopyInv, InEvent, OutOf, None, Gone
    <2>4. StepStopsWhere'
          BY <2>1 DEF StepsInv, StepStopsWhere
    <2> QED
          BY <2>2, <2>3, <2>4 DEF StepsInv, StepInv
  <1>6. ASSUME SetRun PROVE StepsInv'
        BY <1>6, <1>a, <1>c DEF SetRun
  <1>7. ASSUME ClearStop PROVE StepsInv'
    <2>1. stop' = 0 /\ Depth' = Depth /\ UNCHANGED <<cmd, pc, event, continued, from>>
          BY <1>7, <1>c DEF ClearStop
    <2> QED
          BY <2>1 DEF StepsInv, StepInv, CmdInv, CopyInv, ContinueInv, StepStopsWhere, InEvent, Gone
  <1>4. ASSUME NEW c \in Step, PostStep(c) PROVE StepsInv'
        BY <1>4, <1>a, <1>c DEF PostStep
  <1>5. ASSUME NEW k \in Key, SetBreak(k) \/ RemoveBreak(k) PROVE StepsInv'
        BY <1>5, <1>a, <1>c DEF SetBreak, RemoveBreak
  <1> QED
        BY <1>1, <1>2, <1>3, <1>4, <1>5, <1>6, <1>7 DEF Reader

LEMMA StepStep == TypeInv /\ StepsInv /\ [Next]_vars => StepsInv'
  <1>1. StepsInv /\ UNCHANGED vars => StepsInv'
        BY DEF vars, info, tables, histories, StepsInv, StepInv, CmdInv, CopyInv, ContinueInv,
               StepStopsWhere, InEvent, Depth, Gone
  <1> QED
        BY <1>1, StepProgram, StepTrace, StepReader DEF Next

-----------------------------------------------------------------------------
\* The inductive invariant of every behaviour.

IInv == TypeInv /\ HitInv /\ StepsInv

LEMMA Invariant == Spec => []IInv
  <1>1. Init => IInv
        BY TypeInit, HitInit, StepInit DEF IInv
  <1>2. IInv /\ [Next]_vars => IInv'
        BY TypeStep, HitStep, StepStep DEF IInv
  <1> QED
        BY <1>1, <1>2, PTL DEF Spec

\* The state of the thread and of the tables keeps its type: what is shown is a frame of
\* the stack, and pydev_step_stop is one or is gone.
THEOREM TypeCorrect == Spec => []TypeOK
  <1>1. IInv => TypeOK
        BY TypeOKHolds DEF IInv
  <1> QED
        BY <1>1, Invariant, PTL

\* No line with a breakpoint is passed: every event of such a line stops the thread, and
\* untraced frames and the two caches keep back none, except after a cache was written
\* from a table of breakpoints that had changed.
THEOREM NoBreakpointPassed == Spec => []BreakpointsHit
  <1>1. IInv => BreakpointsHit
        BY DEF IInv, HitInv, DueInv, Looking, BreakpointsHit
  <1> QED
        BY <1>1, Invariant, PTL

\* A step over is not shown deeper than it began and a step out is shown further out,
\* whatever the thread called or returned from and whatever commands came meanwhile; a
\* continue cancels a step, unless the return from its frame puts it back.
THEOREM StepsStopWhere == Spec => []StepStopsWhere
  <1>1. IInv => StepStopsWhere
        BY DEF IInv, StepsInv
  <1> QED
        BY <1>1, Invariant, PTL

=============================================================================
