------------------------ MODULE ExceptionBreaksProofs ------------------------
(***************************************************************************)
(* Proofs about ExceptionBreaks for any exceptions and all bounds: types   *)
(* and the hook, the tables of pydevd against the last request, and what   *)
(* exceptionInfo says of a stop.                                           *)
(***************************************************************************)
EXTENDS ExceptionBreaks, SequenceTheorems, TLAPS

Cmd == [op : {"remove"}, name : Name]
         \cup [op : {"add"}, name : Name, raised : BOOLEAN, uncaught : BOOLEAN]
Msg == [kind : {"trace", "suspend", "run", "proceeded"}, name : Name \cup {None}]

HookRight == hooked = (uncaught # {}) /\ (hooked => handled = uncaught)

\* The reader thread is in the middle of a command that it can carry out, and one that
\* does not concern the uncaught exceptions leaves the hook right.
CommandInv ==
  step # "uncaught" =>
    /\ pipe # <<>> /\ Imports(Command)
    /\ Command.op = "add" /\ ~Command.uncaught => HookRight

TypeInv ==
  /\ TypeOK
  /\ pipe \in Seq(Cmd)
  /\ events \in Seq(Msg)
  /\ request \in Seq(Option)
  /\ CommandInv

-----------------------------------------------------------------------------
\* Queues: what an append and a removal at the front leave where it was.
LEMMA AppendPositions ==
  ASSUME NEW S, NEW q \in Seq(S), NEW e \in S
  PROVE  /\ Append(q, e) \in Seq(S) /\ Append(q, e) # <<>>
         /\ \A i \in DOMAIN Append(q, e) :
              \/ i \in DOMAIN q /\ Append(q, e)[i] = q[i]
              \/ i = Len(q) + 1 /\ Append(q, e)[i] = e
         /\ \A i \in DOMAIN q : i \in Nat /\ i < Len(q) + 1 /\ i \in DOMAIN Append(q, e) /\ Append(q, e)[i] = q[i]
         /\ Len(q) + 1 \in DOMAIN Append(q, e) /\ Append(q, e)[Len(q) + 1] = e
         /\ q # <<>> => Head(Append(q, e)) = Head(q)
<1>1. /\ Append(q, e) \in Seq(S) /\ Append(q, e) # <<>>
      /\ DOMAIN q = 1..Len(q) /\ Len(q) \in Nat
      /\ DOMAIN Append(q, e) = 1..(Len(q) + 1)
      /\ \A i \in 1..Len(q) : Append(q, e)[i] = q[i]
      /\ Append(q, e)[Len(q) + 1] = e
  BY AppendProperties, LenProperties
<1>2. q # <<>> => Head(Append(q, e)) = Head(q)
  BY HeadTailAppend
<1> QED
  BY <1>1, <1>2

LEMMA TailPositions ==
  ASSUME NEW S, NEW q \in Seq(S), q # <<>>
  PROVE  /\ Head(q) \in S /\ Tail(q) \in Seq(S)
         /\ 1 \in DOMAIN q /\ q[1] = Head(q)
         /\ \A i \in DOMAIN Tail(q) : i \in Nat /\ i + 1 \in DOMAIN q /\ i + 1 > 1 /\ Tail(q)[i] = q[i + 1]
         /\ \A i, j \in DOMAIN Tail(q) : i + 1 > j + 1 <=> i > j
         /\ \A i \in DOMAIN q : i # 1 => \E j \in DOMAIN Tail(q) : i = j + 1
<1>1. /\ Head(q) \in S /\ Tail(q) \in Seq(S)
      /\ DOMAIN q = 1..Len(q) /\ Len(q) \in Nat \ {0}
      /\ DOMAIN Tail(q) = 1..(Len(q) - 1)
      /\ \A i \in 1..(Len(q) - 1) : Tail(q)[i] = q[i + 1]
      /\ Head(q) = q[1]
  BY HeadTailProperties, LenProperties, EmptySeq
<1>2. \A i \in DOMAIN Tail(q) : i \in Nat /\ i + 1 \in DOMAIN q /\ i + 1 > 1 /\ Tail(q)[i] = q[i + 1]
  BY <1>1
<1>3. \A i, j \in DOMAIN Tail(q) : i + 1 > j + 1 <=> i > j
  BY <1>1
<1>4. \A i \in DOMAIN q : i # 1 => \E j \in DOMAIN Tail(q) : i = j + 1
  <2> SUFFICES ASSUME NEW i \in DOMAIN q, i # 1 PROVE i - 1 \in DOMAIN Tail(q) /\ i = (i - 1) + 1
    OBVIOUS
  <2> QED BY <1>1
<1> QED
  BY <1>1, <1>2, <1>3, <1>4

\* A request is a sequence of options.
LEMMA RequestType == Request \subseteq Seq(Option)
<1> DEFINE Opts == {ByMode(n, mode) : n \in Name, mode \in Modes}
<1>1. Opts \subseteq Option
  <2>1. ASSUME NEW n \in Name, NEW mode \in Modes PROVE ByMode(n, mode) \in Option
    <3>1. (mode = "always") \in BOOLEAN /\ (mode = "unhandled") \in BOOLEAN
      OBVIOUS
    <3> QED
      BY <3>1 DEF ByMode, Option
  <2> QED
    BY <2>1
<1>2. ASSUME NEW r \in BoundedSeq(Opts, MaxOptions) PROVE r \in Seq(Option)
  <2> HIDE DEF Opts
  <2>1. PICK m \in 0..MaxOptions : r \in [1..m -> Opts]
    BY DEF BoundedSeq, SeqOf
  <2>2. m \in Nat
    BY BoundsAssumption
  <2>3. r \in [1..m -> Option]
    BY <1>1, <2>1
  <2> QED
    BY <2>2, <2>3, SeqDef
<1>3. ASSUME NEW r \in {<<o>> : o \in {p \in Option : p.name = Base /\ (p.raised \/ p.uncaught)}}
      PROVE  r \in Seq(Option)
  <2>1. PICK o \in Option : r = <<o>>
    OBVIOUS
  <2> QED
    BY <2>1
<1> QED
  BY <1>2, <1>3 DEF Request

LEMMA InitTypeInv == Init => TypeInv
<1> SUFFICES ASSUME Init PROVE TypeInv
    OBVIOUS
<1>1. <<>> \in Seq(Cmd) /\ <<>> \in Seq(Msg) /\ <<>> \in Seq(Option)
  BY EmptySeq
<1> QED
  BY <1>1 DEF Init, TypeInv, TypeOK, CommandInv, Keys

\* The manager's steps append commands to the pipe; what the reader works on stays.
LEMMA SetTypeInv ==
  ASSUME TypeInv, NEW r \in Request, SetExceptionBreakpoints(r)
  PROVE  TypeInv'
  BY RequestType
     DEF TypeInv, TypeOK, SetExceptionBreakpoints, tables, thread, ptvsd, Keys, CommandInv,
         HookRight, Command, Imports

LEMMA PipeAppended ==
  ASSUME TypeInv, NEW c \in Cmd, pipe' = Append(pipe, c),
         UNCHANGED <<step, hooked, handled, uncaught>>
  PROVE  pipe' \in Seq(Cmd) /\ CommandInv'
<1>1. pipe' \in Seq(Cmd) /\ pipe' # <<>> /\ (pipe # <<>> => Head(pipe') = Head(pipe))
  BY AppendPositions DEF TypeInv
<1> QED
  BY <1>1 DEF TypeInv, CommandInv, HookRight, Command, Imports

LEMMA RemoveTypeInv ==
  ASSUME TypeInv, NEW n \in Name, RemoveBreak(n)
  PROVE  TypeInv'
<1>1. [op |-> "remove", name |-> n] \in Cmd
  BY DEF Cmd
<1>2. pipe' \in Seq(Cmd) /\ CommandInv'
  BY <1>1, PipeAppended DEF RemoveBreak
<1>3. exceptions' \in [Name -> {None, "always", "unhandled", "never"}] /\ removing' \subseteq Keys'
  BY DEF RemoveBreak, TypeInv, TypeOK, Keys
<1> QED
  BY <1>2, <1>3 DEF RemoveBreak, TypeInv, TypeOK, thread, ptvsd

LEMMA AddTypeInv ==
  ASSUME TypeInv, AddBreak
  PROVE  TypeInv'
<1> DEFINE o == Head(adding)
           c == [op |-> "add", name |-> o.name, raised |-> o.raised, uncaught |-> o.uncaught]
<1>1. o \in Option /\ adding' \in Seq(Option)
  BY HeadTailProperties DEF AddBreak, TypeInv, TypeOK
<1>2. c \in Cmd
  BY <1>1 DEF Cmd, Option
<1>3. pipe' \in Seq(Cmd) /\ CommandInv'
  BY <1>2, PipeAppended DEF AddBreak
<1>4. exceptions' \in [Name -> {None, "always", "unhandled", "never"}] /\ removing' = {}
  BY <1>1 DEF AddBreak, TypeInv, TypeOK, ModeOf, Option
<1> QED
  BY <1>1, <1>3, <1>4 DEF AddBreak, TypeInv, TypeOK, thread, ptvsd

\* The reader's steps: the hook is right again at the end of each command.
LEMMA ReaderTypeInv ==
  ASSUME TypeInv, IgnoreMissing \/ ChangeUncaught \/ ChangeCaught \/ UpdateHook
  PROVE  TypeInv'
<1>1. /\ pipe # <<>> /\ Command \in Cmd /\ Tail(pipe) \in Seq(Cmd)
      /\ Command.name \in Name
  <2>1. pipe # <<>>
    BY DEF IgnoreMissing, ChangeUncaught, ChangeCaught, UpdateHook, At
  <2>2. Command \in Cmd /\ Tail(pipe) \in Seq(Cmd)
    BY <2>1, HeadTailProperties DEF TypeInv, Command
  <2> QED
    BY <2>1, <2>2 DEF Cmd
<1>2. UNCHANGED <<manager, thread, events, ptvsd>>
  BY DEF IgnoreMissing, ChangeUncaught, ChangeCaught, UpdateHook
<1>3. CASE IgnoreMissing
  BY <1>1, <1>2, <1>3 DEF IgnoreMissing, TypeInv, TypeOK, CommandInv, HookRight,
     manager, thread, ptvsd, Keys
<1>4. CASE ChangeUncaught
  BY <1>1, <1>2, <1>4 DEF ChangeUncaught, At, Changed, TypeInv, TypeOK, CommandInv, HookRight,
     manager, thread, ptvsd, Keys, Command, Imports
<1>5. CASE ChangeCaught
  BY <1>1, <1>2, <1>5 DEF ChangeCaught, At, Changed, TypeInv, TypeOK, CommandInv, HookRight,
     manager, thread, ptvsd, Keys, Command, Imports
<1>6. CASE UpdateHook
  BY <1>1, <1>2, <1>6 DEF UpdateHook, At, TypeInv, TypeOK, CommandInv, HookRight,
     manager, thread, ptvsd, Keys
<1> QED
  BY <1>3, <1>4, <1>5, <1>6

\* What the thread sends are messages.
LEMMA SentType ==
  ASSUME TypeInv, NEW kind \in {"trace", "suspend", "run", "proceeded"}
  PROVE  /\ Message(kind) \in Msg
         /\ <<Message(kind)>> \in Seq(Msg)
         /\ <<Message("trace"), Message(kind)>> \in Seq(Msg)
<1>1. \A k \in {"trace", "suspend", "run", "proceeded"} : Message(k) \in Msg
  BY DEF TypeInv, TypeOK, Message, Msg
<1>2. Message("trace") \in Msg /\ Message(kind) \in Msg
  BY <1>1
<1> QED
  BY <1>2

LEMMA ThreadTypeInv ==
  ASSUME TypeInv,
         \/ \E n \in Name : RaiseCaught(n) \/ RaiseUncaught(n)
         \/ Suspend \/ Resume \/ Proceed \/ CallOriginal
  PROVE  TypeInv'
<1>1. UNCHANGED <<manager, tables, ptvsd>>
  BY DEF RaiseCaught, RaiseUncaught, Suspend, Resume, Proceed, CallOriginal
<1>2. /\ at' \in {"run", "raised", "stopped", "resumed", "hook", "uncaught", "postMortem", "ended", "lost"}
      /\ exc' \in Name \cup {None}
  BY DEF RaiseCaught, RaiseUncaught, Suspend, Resume, Proceed, CallOriginal, Go, TypeInv, TypeOK
<1>3. events' \in Seq(Msg)
  <2>1. \/ events' = events
        \/ \E k \in {"suspend", "run", "proceeded"} :
             events' = events \o <<Message(k)>> \/ events' = events \o <<Message("trace"), Message(k)>>
    BY DEF RaiseCaught, RaiseUncaught, Suspend, Resume, Proceed, CallOriginal, Send
  <2>2. ASSUME NEW k \in {"suspend", "run", "proceeded"}
        PROVE  /\ events \o <<Message(k)>> \in Seq(Msg)
               /\ events \o <<Message("trace"), Message(k)>> \in Seq(Msg)
    <3>1. /\ events \in Seq(Msg) /\ <<Message(k)>> \in Seq(Msg)
          /\ <<Message("trace"), Message(k)>> \in Seq(Msg)
      BY SentType DEF TypeInv
    <3> QED
      BY <3>1, ConcatProperties
  <2> QED
    BY <2>1, <2>2 DEF TypeInv
<1> QED
  BY <1>1, <1>2, <1>3
     DEF manager, tables, ptvsd, TypeInv, TypeOK, CommandInv, HookRight, Keys, Command, Imports

LEMMA ReceiveTypeInv ==
  ASSUME TypeInv, Receive
  PROVE  TypeInv'
<1>1. Head(events) \in Msg /\ Tail(events) \in Seq(Msg)
  BY HeadTailProperties DEF Receive, TypeInv
<1>2. active' \in Name \cup {None} /\ told' \in Name \cup {None}
  <2>1. active \in Name \cup {None} /\ told \in Name \cup {None} /\ Base \in Name
    BY DEF TypeInv, TypeOK, Name
  <2>2. Head(events).name \in Name \cup {None}
    BY <1>1 DEF Msg
  <2>3. active' \in {Head(events).name, None, active}
    BY DEF Receive
  <2>4. told' \in {Base, active, None, told}
    BY DEF Receive
  <2> QED
    BY <2>1, <2>2, <2>3, <2>4
<1> QED
  BY <1>1, <1>2
     DEF Receive, manager, tables, thread, TypeInv, TypeOK, CommandInv, HookRight, Keys, Command, Imports

LEMMA NextTypeInv == TypeInv /\ [Next]_vars => TypeInv'
<1> SUFFICES ASSUME TypeInv, [Next]_vars PROVE TypeInv'
    OBVIOUS
<1>1. CASE UNCHANGED vars
  BY <1>1 DEF vars, manager, tables, thread, ptvsd,
              TypeInv, TypeOK, CommandInv, HookRight, Keys, Command, Imports
<1> QED
  BY <1>1, SetTypeInv, RemoveTypeInv, AddTypeInv, ReaderTypeInv, ThreadTypeInv, ReceiveTypeInv DEF Next

\* The tables, the messages and the thread keep their types, and between two commands
\* the hook is there exactly when there are uncaught exceptions, and handles those.
THEOREM TypeCorrect == Spec => []TypeOK
<1>1. TypeInv => TypeOK
  BY DEF TypeInv
<1> QED
  BY <1>1, InitTypeInv, NextTypeInv, PTL DEF Spec

-----------------------------------------------------------------------------
\* What ptvsd will know of a stop when it has read the messages on their way.

\* The exception of every stop that is over has been, or will be, forgotten.
Quiet ==
  /\ \A i \in DOMAIN events :
       events[i].kind = "trace" => \E j \in DOMAIN events : j > i /\ events[j].kind = "proceeded"
  /\ active # None => \E j \in DOMAIN events : events[j].kind = "proceeded"

\* The last two messages are those of the stop; those that have been read had effect.
StopTold ==
  LET n == Len(events)
  IN /\ n = 0 => active = exc /\ told = exc
     /\ n = 1 => active = exc
     /\ n >= 1 => events[n].kind = "suspend"
     /\ n >= 2 => events[n - 1] = Message("trace")

PostMortemTold ==
  LET n == Len(events)
  IN /\ n = 0 => told = Base
     /\ n >= 1 => events[n].kind = "suspend"

StopInv ==
  /\ at \in {"run", "raised", "hook", "uncaught", "postMortem"} => Quiet
  /\ at = "stopped" => StopTold /\ exc # None
  /\ at = "raised" => exc # None
  /\ at = "postMortem" => PostMortemTold

LEMMA InitStopInv == Init => StopInv
BY DEF Init, StopInv, Quiet

\* The steps of the manager and of the reader thread leave the thread and its messages alone.
LEMMA StopInvKept ==
  ASSUME StopInv, UNCHANGED <<at, exc, events, active, told>>
  PROVE  StopInv'
BY DEF StopInv, Quiet, StopTold, PostMortemTold, Message

\* A message that is read: what was so of the queue is so of its rest.
LEMMA ReceiveStopInv ==
  ASSUME TypeInv, StopInv, Receive
  PROVE  StopInv'
<1> DEFINE h == Head(events)
           q == Tail(events)
<1>1. /\ events # <<>> /\ events \in Seq(Msg) /\ events' = q
      /\ active' = CASE h.kind = "trace" -> h.name
                     [] h.kind = "proceeded" -> None
                     [] OTHER -> active
      /\ told' = CASE h.kind = "suspend" -> (IF active = None THEN Base ELSE active)
                   [] h.kind = "run" -> None
                   [] OTHER -> told
      /\ UNCHANGED <<at, exc>>
  BY DEF Receive, thread, TypeInv
<1>2. /\ h \in Msg /\ q \in Seq(Msg)
      /\ 1 \in DOMAIN events /\ events[1] = h
      /\ \A i \in DOMAIN q : i \in Nat /\ i + 1 \in DOMAIN events /\ i + 1 > 1 /\ q[i] = events[i + 1]
      /\ \A i, j \in DOMAIN q : i + 1 > j + 1 <=> i > j
      /\ \A i \in DOMAIN events : i # 1 => \E j \in DOMAIN q : i = j + 1
  BY <1>1, TailPositions
<1>3. /\ Len(events) \in Nat /\ Len(q) = Len(events) - 1 /\ Len(events) >= 1
      /\ Len(q) >= 1 => q[Len(q)] = events[Len(events)]
      /\ Len(q) >= 2 => q[Len(q) - 1] = events[Len(events) - 1]
      /\ h = events[1]
  BY <1>1, HeadTailProperties, LenProperties, EmptySeq
<1> HIDE DEF h, q
<1>4. ASSUME Quiet PROVE Quiet'
  <2>1. ASSUME NEW i \in DOMAIN q, q[i].kind = "trace"
        PROVE  \E j \in DOMAIN q : j > i /\ q[j].kind = "proceeded"
    <3>1. PICK k \in DOMAIN events : k > i + 1 /\ events[k].kind = "proceeded"
      BY <1>2, <1>4, <2>1 DEF Quiet
    <3>2. i \in Nat /\ i + 1 > 1 /\ DOMAIN events = 1..Len(events)
      BY <1>1, <1>2, LenProperties
    <3>3. k # 1
      BY <1>3, <3>1, <3>2
    <3>4. PICK j \in DOMAIN q : k = j + 1
      BY <1>2, <3>3
    <3> QED
      BY <1>2, <3>1, <3>4
  <2>2. ASSUME active' # None PROVE \E j \in DOMAIN q : q[j].kind = "proceeded"
    <3>1. PICK k \in DOMAIN events : events[k].kind = "proceeded" /\ k # 1
      <4>1. CASE h.kind = "trace"
        <5>1. PICK k \in DOMAIN events : k > 1 /\ events[k].kind = "proceeded"
          BY <1>2, <1>4, <4>1 DEF Quiet
        <5> QED
          BY <5>1
      <4>2. CASE h.kind # "trace"
        <5>1. h.kind # "proceeded" /\ active # None
          BY <1>1, <2>2, <4>2
        <5> QED
          BY <1>2, <1>4, <5>1 DEF Quiet
      <4> QED
        BY <4>1, <4>2
    <3>2. PICK j \in DOMAIN q : k = j + 1
      BY <1>2, <3>1
    <3> QED
      BY <1>2, <3>1, <3>2
  <2> QED
    BY <1>1, <2>1, <2>2 DEF Quiet
<1>5. ASSUME StopTold, exc # None PROVE StopTold'
  <2>1. CASE Len(events) = 1
    <3>1. h.kind = "suspend" /\ active = exc
      BY <1>3, <1>5, <2>1 DEF StopTold
    <3> QED
      BY <1>1, <1>3, <1>5, <2>1, <3>1 DEF StopTold
  <2>2. CASE Len(events) = 2
    <3>1. h = Message("trace") /\ events[2].kind = "suspend"
      BY <1>3, <1>5, <2>2 DEF StopTold
    <3>2. active' = exc
      BY <1>1, <3>1 DEF Message
    <3>3. Len(q) = 1 /\ q[1].kind = "suspend"
      BY <1>3, <2>2, <3>1
    <3> QED
      BY <1>1, <3>2, <3>3 DEF StopTold
  <2>3. CASE Len(events) > 2
    <3>1. Len(q) >= 2 /\ q[Len(q)].kind = "suspend" /\ q[Len(q) - 1] = Message("trace")
      BY <1>3, <1>5, <2>3 DEF StopTold
    <3> QED
      BY <1>1, <3>1 DEF StopTold, Message
  <2> QED
    BY <1>3, <2>1, <2>2, <2>3
<1>6. ASSUME Quiet, PostMortemTold PROVE PostMortemTold'
  <2>1. CASE Len(events) = 1
    <3>1. DOMAIN events = {1} /\ h.kind = "suspend"
      BY <1>1, <1>3, <1>6, <2>1, LenProperties DEF PostMortemTold
    <3>2. active = None
      BY <1>3, <1>6, <3>1 DEF Quiet
    <3> QED
      BY <1>1, <1>3, <2>1, <3>1, <3>2 DEF PostMortemTold
  <2>2. CASE Len(events) > 1
    <3>1. Len(q) >= 1 /\ q[Len(q)].kind = "suspend"
      BY <1>3, <1>6, <2>2 DEF PostMortemTold
    <3> QED
      BY <1>1, <3>1 DEF PostMortemTold
  <2> QED
    BY <1>3, <2>1, <2>2
<1> QED
  BY <1>1, <1>4, <1>5, <1>6 DEF StopInv

\* The queue of messages after one or two more were sent.
LEMMA SentPositions ==
  ASSUME TypeInv, NEW k \in {"suspend", "run", "proceeded"}
  PROVE  /\ LET q == events \o <<Message(k)>>
            IN /\ Len(q) = Len(events) + 1 /\ DOMAIN q = 1..(Len(events) + 1)
               /\ \A i \in 1..Len(events) : q[i] = events[i]
               /\ q[Len(events) + 1] = Message(k)
         /\ LET q == events \o <<Message("trace"), Message(k)>>
            IN /\ Len(q) = Len(events) + 2
               /\ q[Len(events) + 1] = Message("trace")
               /\ q[Len(events) + 2] = Message(k)
         /\ Len(events) \in Nat /\ DOMAIN events = 1..Len(events)
<1>1. events \in Seq(Msg) /\ Len(events) \in Nat /\ DOMAIN events = 1..Len(events)
  BY LenProperties DEF TypeInv
<1> DEFINE one == <<Message(k)>>
           two == <<Message("trace"), Message(k)>>
<1>2. /\ one \in Seq(Msg) /\ Len(one) = 1 /\ one[1] = Message(k)
      /\ two \in Seq(Msg) /\ Len(two) = 2 /\ two[1] = Message("trace") /\ two[2] = Message(k)
  BY SentType
<1> HIDE DEF one, two
<1>3. /\ events \o one \in Seq(Msg) /\ Len(events \o one) = Len(events) + Len(one)
      /\ \A i \in 1..(Len(events) + Len(one)) :
           (events \o one)[i] = IF i <= Len(events) THEN events[i] ELSE one[i - Len(events)]
  BY <1>1, <1>2, ConcatProperties
<1>4. /\ Len(events \o two) = Len(events) + Len(two)
      /\ \A i \in 1..(Len(events) + Len(two)) :
           (events \o two)[i] = IF i <= Len(events) THEN events[i] ELSE two[i - Len(events)]
  BY <1>1, <1>2, ConcatProperties
<1>5. Len(events \o one) = Len(events) + 1 /\ DOMAIN (events \o one) = 1..(Len(events) + 1)
  BY <1>2, <1>3, LenProperties
<1>6. /\ \A i \in 1..Len(events) : (events \o one)[i] = events[i]
      /\ (events \o one)[Len(events) + 1] = Message(k)
  BY <1>1, <1>2, <1>3
<1>7. Len(events \o two) = Len(events) + 2
  BY <1>2, <1>4
<1>8. /\ (events \o two)[Len(events) + 1] = Message("trace")
      /\ (events \o two)[Len(events) + 2] = Message(k)
  BY <1>1, <1>2, <1>4
<1> QED
  BY <1>1, <1>5, <1>6, <1>7, <1>8 DEF one, two

\* A message that is not a trace leaves a quiet queue quiet; "proceeded" makes it so.
LEMMA QuietSent ==
  ASSUME TypeInv, NEW k \in {"suspend", "run", "proceeded"}, Quiet \/ k = "proceeded",
         events' = events \o <<Message(k)>>, UNCHANGED active
  PROVE  Quiet'
<1>1. /\ DOMAIN events' = 1..(Len(events) + 1)
      /\ \A i \in 1..Len(events) : events'[i] = events[i]
      /\ events'[Len(events) + 1].kind = k
      /\ Len(events) \in Nat /\ DOMAIN events = 1..Len(events)
  BY SentPositions DEF Message
<1>2. CASE k = "proceeded"
  BY <1>1, <1>2 DEF Quiet
<1>3. CASE Quiet
  BY <1>1, <1>3 DEF Quiet
<1> QED
  BY <1>2, <1>3

\* The steps of the thread.
LEMMA ThreadStopInv ==
  ASSUME TypeInv, StopInv,
         \/ \E n \in Name : RaiseCaught(n) \/ RaiseUncaught(n)
         \/ Suspend \/ Resume \/ Proceed \/ CallOriginal
  PROVE  StopInv'
<1>1. UNCHANGED <<active, told>>
  BY DEF RaiseCaught, RaiseUncaught, Suspend, Resume, Proceed, CallOriginal, ptvsd
<1>2. CASE \E n \in Name : RaiseCaught(n) \/ RaiseUncaught(n)
  <2>1. UNCHANGED events /\ Quiet /\ exc' \in Name /\ at' \in {"raised", "hook", "ended"}
    BY <1>2 DEF RaiseCaught, RaiseUncaught, Go, StopInv
  <2>2. exc' # None
    BY <2>1, NamesAssumption DEF Name, Base, None
  <2> QED
    BY <1>1, <2>1, <2>2 DEF StopInv, Quiet
<1>3. CASE Suspend /\ at = "raised"
  <2>1. /\ at' = "stopped" /\ exc' = exc /\ exc # None
        /\ events' = events \o <<Message("trace"), Message("suspend")>>
    BY <1>3 DEF Suspend, Go, Send, StopInv
  <2>2. /\ Len(events') = Len(events) + 2 /\ Len(events) \in Nat
        /\ events'[Len(events) + 1] = Message("trace")
        /\ events'[Len(events) + 2].kind = "suspend"
    BY <2>1, SentPositions DEF Message
  <2> QED
    BY <2>1, <2>2 DEF StopInv, StopTold, Message
<1>4. CASE Suspend /\ at = "uncaught"
  <2>1. at' = "postMortem" /\ events' = events \o <<Message("suspend")>> /\ Quiet
    BY <1>4 DEF Suspend, Go, Send, StopInv
  <2>2. Quiet'
    BY <1>1, <2>1, QuietSent
  <2>3. /\ Len(events') = Len(events) + 1 /\ Len(events) \in Nat
        /\ events'[Len(events) + 1].kind = "suspend"
    BY <2>1, SentPositions DEF Message
  <2> QED
    BY <2>1, <2>2, <2>3 DEF StopInv, PostMortemTold
<1>5. CASE Resume
  BY <1>5 DEF Resume, Go, StopInv
<1>6. CASE Proceed
  <2>1. at' = "run" /\ events' = events \o <<Message("proceeded")>>
    BY <1>6 DEF Proceed, Go, Send
  <2>2. Quiet'
    BY <1>1, <2>1, QuietSent
  <2> QED
    BY <2>1, <2>2 DEF StopInv
<1>7. CASE CallOriginal
  BY <1>1, <1>7 DEF CallOriginal, Go, StopInv, Quiet
<1> QED
  BY <1>2, <1>3, <1>4, <1>5, <1>6, <1>7 DEF Suspend

LEMMA NextStopInv == TypeInv /\ StopInv /\ [Next]_vars => StopInv'
<1> SUFFICES ASSUME TypeInv, StopInv, [Next]_vars PROVE StopInv'
    OBVIOUS
<1>1. CASE UNCHANGED vars
  BY <1>1, StopInvKept DEF vars, thread, ptvsd
<1>2. ASSUME \/ \E r \in Request : SetExceptionBreakpoints(r)
             \/ \E n \in Name : RemoveBreak(n)
             \/ AddBreak
             \/ IgnoreMissing \/ ChangeUncaught \/ ChangeCaught \/ UpdateHook
      PROVE  StopInv'
  <2>1. UNCHANGED <<at, exc, events, active, told>>
    BY <1>2 DEF SetExceptionBreakpoints, RemoveBreak, AddBreak, IgnoreMissing, ChangeUncaught,
                ChangeCaught, UpdateHook, thread, ptvsd
  <2> QED
    BY <2>1, StopInvKept
<1> QED
  BY <1>1, <1>2, ThreadStopInv, ReceiveStopInv DEF Next

\* exceptionInfo never tells the exception of an earlier stop: when the messages of a
\* stop have been read, it tells the exception of this one, or BaseException for one
\* that nobody catches.
THEOREM StopIsToldRight == Spec => []InfoOfTheStop
<1>1. TypeInv /\ StopInv => InfoOfTheStop
  <2> SUFFICES ASSUME TypeInv, StopInv, events = <<>> PROVE InfoOfTheStop
    BY DEF InfoOfTheStop
  <2>1. Len(events) = 0 /\ DOMAIN events = {}
    OBVIOUS
  <2> QED
    BY <2>1 DEF StopInv, StopTold, PostMortemTold, Quiet, InfoOfTheStop
<1> QED
  BY <1>1, InitTypeInv, NextTypeInv, InitStopInv, NextStopInv, PTL DEF Spec

-----------------------------------------------------------------------------
\* What pydevd's tables will be when it has carried out the commands on their way.

Wants(o, what) == IF what = "caught" THEN o.raised ELSE o.uncaught
Removes(c, n) == c.op = "remove" /\ c.name = n
Adds(c, what, n) == c.op = "add" /\ c.name = n /\ n \notin Missing /\ Wants(c, what)

\* The exception n will be in the table once the commands in q have been carried out.
InEnd(table, q, what, n) ==
  \/ n \in table /\ \A j \in DOMAIN q : ~Removes(q[j], n)
  \/ \E i \in DOMAIN q : Adds(q[i], what, n) /\ \A j \in DOMAIN q : j > i => ~Removes(q[j], n)

\* The table already is as the command wants it.
Reflects(table, c, what) ==
  \A n \in Name : (Adds(c, what, n) => n \in table) /\ (Removes(c, n) => n \notin table)

\* The options that have been turned into commands are the first Done of the request.
Done == Len(request) - Len(adding)
Target(what, n) ==
  n \notin Missing /\ \E i \in 1..Done : request[i].name = n /\ Wants(request[i], what)

AddingIsRest ==
  /\ Len(adding) <= Len(request)
  /\ \A i \in 1..Len(adding) : adding[i] = request[Done + i]

\* While entries are being removed, what pydevd will have is among them; afterwards it
\* is what the request wanted so far.
EndInv(table, what) ==
  /\ removing # {} => Done = 0 /\ \A n \in Name : InEnd(table, pipe, what, n) => n \in removing
  /\ removing = {} => \A n \in Name : InEnd(table, pipe, what, n) <=> Target(what, n)

\* ExceptionsManager has an entry for each name so far, with the mode of the last option.
ManagerInv ==
  removing = {} =>
    /\ \A n \in Name : n \in Keys <=> \E i \in 1..Done : request[i].name = n
    /\ \A i \in 1..Done :
         (\A j \in 1..Done : j > i => request[j].name # request[i].name)
           => exceptions[request[i].name] = ModeOf(request[i])

TableInv ==
  /\ AddingIsRest
  /\ EndInv(caught, "caught")
  /\ EndInv(uncaught, "uncaught")
  /\ step # "uncaught" => Reflects(uncaught, Command, "uncaught")
  /\ step = "hook" => Reflects(caught, Command, "caught")
  /\ ManagerInv

\* A command more in the pipe.
LEMMA EndAppend ==
  ASSUME NEW q \in Seq(Cmd), NEW c \in Cmd, NEW table, NEW what, NEW n
  PROVE  InEnd(table, Append(q, c), what, n)
           <=> Adds(c, what, n) \/ (InEnd(table, q, what, n) /\ ~Removes(c, n))
<1> DEFINE a == Append(q, c)
           k == Len(q) + 1
<1>1. /\ \A i \in DOMAIN a : \/ i \in DOMAIN q /\ a[i] = q[i]
                             \/ i = k /\ a[i] = c
      /\ \A i \in DOMAIN q : i \in Nat /\ i < k /\ i \in DOMAIN a /\ a[i] = q[i]
      /\ k \in DOMAIN a /\ a[k] = c /\ k \in Nat
  BY AppendPositions, LenProperties
<1> HIDE DEF a, k
<1>2. (\A j \in DOMAIN a : ~Removes(a[j], n)) <=> (\A j \in DOMAIN q : ~Removes(q[j], n)) /\ ~Removes(c, n)
  BY <1>1
<1>3. ASSUME NEW i \in DOMAIN q
      PROVE  (\A j \in DOMAIN a : j > i => ~Removes(a[j], n))
               <=> (\A j \in DOMAIN q : j > i => ~Removes(q[j], n)) /\ ~Removes(c, n)
  BY <1>1
<1>4. \A j \in DOMAIN a : ~(j > k)
  BY <1>1
<1>5. Adds(c, what, n) => InEnd(table, a, what, n)
  BY <1>1, <1>4 DEF InEnd
<1>6. InEnd(table, q, what, n) /\ ~Removes(c, n) => InEnd(table, a, what, n)
  BY <1>1, <1>2, <1>3 DEF InEnd
<1>7. InEnd(table, a, what, n) => Adds(c, what, n) \/ (InEnd(table, q, what, n) /\ ~Removes(c, n))
  <2>1. CASE n \in table /\ \A j \in DOMAIN a : ~Removes(a[j], n)
    BY <1>2, <2>1 DEF InEnd
  <2>2. ASSUME NEW i \in DOMAIN a, Adds(a[i], what, n), \A j \in DOMAIN a : j > i => ~Removes(a[j], n)
        PROVE  Adds(c, what, n) \/ (InEnd(table, q, what, n) /\ ~Removes(c, n))
    <3>1. CASE i \in DOMAIN q /\ a[i] = q[i]
      BY <1>3, <2>2, <3>1 DEF InEnd
    <3>2. CASE a[i] = c
      BY <2>2, <3>2
    <3> QED
      BY <1>1, <3>1, <3>2
  <2> QED
    BY <2>1, <2>2 DEF InEnd
<1> QED
  BY <1>5, <1>6, <1>7 DEF a

\* The first command is carried out on the table.
LEMMA EndChange ==
  ASSUME NEW q \in Seq(Cmd), q # <<>>, NEW what, NEW n, NEW table, NEW after,
         n \in after <=> Adds(Head(q), what, n) \/ (n \in table /\ ~Removes(Head(q), n))
  PROVE  InEnd(after, q, what, n) <=> InEnd(table, q, what, n)
<1> DEFINE h == Head(q)
<1>1. 1 \in DOMAIN q /\ q[1] = h /\ \A i \in DOMAIN q : i # 1 => i > 1
  BY TailPositions, LenProperties
<1>2. ~(Adds(h, what, n) /\ Removes(h, n))
  BY DEF Adds, Removes
<1> HIDE DEF h
<1>3. CASE Adds(h, what, n)
  <2>1. n \in after
    BY <1>3 DEF h
  <2>2. (\A j \in DOMAIN q : ~Removes(q[j], n)) => InEnd(table, q, what, n)
    BY <1>1, <1>3 DEF InEnd
  <2>3. (\A j \in DOMAIN q : ~Removes(q[j], n)) => InEnd(after, q, what, n)
    BY <2>1 DEF InEnd
  <2> QED
    BY <2>2, <2>3 DEF InEnd
<1>4. CASE ~Adds(h, what, n)
  <2>1. (\A j \in DOMAIN q : ~Removes(q[j], n)) => (n \in after <=> n \in table)
    BY <1>1, <1>4 DEF h
  <2> QED
    BY <2>1 DEF InEnd
<1> QED
  BY <1>3, <1>4

\* The first command leaves the pipe when the table is as it wants it.
LEMMA EndTail ==
  ASSUME NEW q \in Seq(Cmd), q # <<>>, NEW what, NEW n, NEW table,
         Adds(Head(q), what, n) => n \in table, Removes(Head(q), n) => n \notin table
  PROVE  InEnd(table, Tail(q), what, n) <=> InEnd(table, q, what, n)
<1> DEFINE h == Head(q)
           t == Tail(q)
<1>1. /\ 1 \in DOMAIN q /\ q[1] = h
      /\ \A i \in DOMAIN t : i \in Nat /\ i + 1 \in DOMAIN q /\ i + 1 > 1 /\ t[i] = q[i + 1]
      /\ \A i, j \in DOMAIN t : i + 1 > j + 1 <=> i > j
      /\ \A i \in DOMAIN q : i # 1 => \E j \in DOMAIN t : i = j + 1
  BY TailPositions
<1>2. (Adds(h, what, n) => n \in table) /\ (Removes(h, n) => n \notin table)
  OBVIOUS
<1>3. \A i \in DOMAIN q : i # 1 => i > 1
  BY <1>1
<1> HIDE DEF h, t
<1>4. (\A j \in DOMAIN q : ~Removes(q[j], n)) <=> (\A j \in DOMAIN t : ~Removes(t[j], n)) /\ ~Removes(h, n)
  BY <1>1
<1>5. (\A j \in DOMAIN q : j > 1 => ~Removes(q[j], n)) <=> (\A j \in DOMAIN t : ~Removes(t[j], n))
  BY <1>1, <1>3
<1>6. ASSUME NEW i \in DOMAIN t
      PROVE  (\A j \in DOMAIN q : j > i + 1 => ~Removes(q[j], n))
               <=> (\A j \in DOMAIN t : j > i => ~Removes(t[j], n))
  <2>1. i \in Nat /\ ~(1 > i + 1)
    BY <1>1
  <2> QED
    BY <1>1, <2>1
<1>7. InEnd(table, t, what, n) => InEnd(table, q, what, n)
  <2>1. CASE n \in table /\ \A j \in DOMAIN t : ~Removes(t[j], n)
    BY <1>2, <1>4, <2>1 DEF InEnd
  <2>2. ASSUME NEW i \in DOMAIN t, Adds(t[i], what, n), \A j \in DOMAIN t : j > i => ~Removes(t[j], n)
        PROVE  InEnd(table, q, what, n)
    BY <1>1, <1>6, <2>2 DEF InEnd
  <2> QED
    BY <2>1, <2>2 DEF InEnd
<1>8. InEnd(table, q, what, n) => InEnd(table, t, what, n)
  <2>1. CASE n \in table /\ \A j \in DOMAIN q : ~Removes(q[j], n)
    BY <1>4, <2>1 DEF InEnd
  <2>2. ASSUME NEW i \in DOMAIN q, Adds(q[i], what, n), \A j \in DOMAIN q : j > i => ~Removes(q[j], n)
        PROVE  InEnd(table, t, what, n)
    <3>1. CASE i = 1
      BY <1>1, <1>2, <1>5, <2>2, <3>1 DEF InEnd
    <3>2. CASE i # 1
      <4>1. PICK j \in DOMAIN t : i = j + 1
        BY <1>1, <3>2
      <4> QED
        BY <1>1, <1>6, <2>2, <4>1 DEF InEnd
    <3> QED
      BY <3>1, <3>2
  <2> QED
    BY <2>1, <2>2 DEF InEnd
<1> QED
  BY <1>7, <1>8 DEF t

LEMMA InitTableInv == Init => TableInv
<1> SUFFICES ASSUME Init PROVE TableInv
    OBVIOUS
<1>1. Done = 0 /\ AddingIsRest
  BY DEF Init, Done, AddingIsRest
<1>2. EndInv(caught, "caught") /\ EndInv(uncaught, "uncaught")
  BY <1>1 DEF Init, EndInv, InEnd, Target
<1>3. ManagerInv
  BY <1>1 DEF Init, ManagerInv, Keys
<1> QED
  BY <1>1, <1>2, <1>3 DEF Init, TableInv

LEMMA TableInvKept ==
  ASSUME TableInv, UNCHANGED <<exceptions, removing, adding, pipe, step, caught, uncaught, request>>
  PROVE  TableInv'
<1>1. Done' = Done /\ Keys' = Keys
  BY DEF Done, Keys
<1>2. EndInv(caught, "caught")' /\ EndInv(uncaught, "uncaught")'
  BY <1>1 DEF TableInv, EndInv, Target
<1>3. AddingIsRest' /\ ManagerInv'
  BY <1>1 DEF TableInv, AddingIsRest, ManagerInv
<1> QED
  BY <1>2, <1>3 DEF TableInv, Command

\* A request: the table of the last one is in the keys, which are to be removed.
LEMMA SetTableInv ==
  ASSUME TypeInv, TableInv, NEW r \in Request, SetExceptionBreakpoints(r)
  PROVE  TableInv'
<1>1. /\ removing = {} /\ adding = <<>> /\ removing' = Keys /\ adding' = r /\ request' = r
      /\ UNCHANGED <<exceptions, pipe, step, caught, uncaught>>
  BY DEF SetExceptionBreakpoints, Idle, tables
<1>2. r \in Seq(Option) /\ Len(r) \in Nat
  BY RequestType, LenProperties
<1>3. Done' = 0 /\ AddingIsRest'
  BY <1>1, <1>2 DEF Done, AddingIsRest
<1>4. ASSUME NEW what, NEW table, EndInv(table, what)
      PROVE  EndInv(table, what)'
  <2>1. ASSUME NEW n \in Name, InEnd(table, pipe, what, n) PROVE n \in Keys
    BY <1>1, <1>4, <2>1 DEF EndInv, Target, TableInv, ManagerInv
  <2>2. \A n \in Name : ~Target(what, n)'
    BY <1>3 DEF Target
  <2> QED
    BY <1>1, <1>3, <1>4, <2>1, <2>2 DEF EndInv
<1>5. EndInv(caught, "caught")' /\ EndInv(uncaught, "uncaught")'
  BY <1>1, <1>4 DEF TableInv
<1>6. ManagerInv'
  BY <1>1, <1>3 DEF ManagerInv, Keys
<1> QED
  BY <1>1, <1>3, <1>5, <1>6 DEF TableInv, Command

\* A key is removed; with the last one everything of the earlier request is gone.
LEMMA RemoveTableInv ==
  ASSUME TypeInv, TableInv, NEW n \in Name, RemoveBreak(n)
  PROVE  TableInv'
<1> DEFINE c == [op |-> "remove", name |-> n]
<1>1. /\ n \in removing /\ removing' = removing \ {n} /\ pipe' = Append(pipe, c)
      /\ exceptions' = IF removing' = {} THEN [m \in Name |-> None] ELSE exceptions
      /\ UNCHANGED <<adding, request, step, caught, uncaught>>
      /\ pipe \in Seq(Cmd) /\ c \in Cmd
  BY DEF RemoveBreak, TypeInv, Cmd
<1>2. \A m : Removes(c, m) <=> m = n
  BY DEF Removes
<1>3. \A m, what : ~Adds(c, what, m)
  BY DEF Adds
<1>4. step # "uncaught" => Command' = Command
  BY <1>1, AppendPositions DEF TypeInv, CommandInv, Command
<1> HIDE DEF c
<1>5. Done' = Done /\ AddingIsRest'
  BY <1>1 DEF Done, AddingIsRest, TableInv
<1>6. ASSUME NEW what, NEW table, EndInv(table, what)
      PROVE  EndInv(table, what)'
  <2>1. ASSUME NEW m \in Name
        PROVE  InEnd(table, pipe', what, m) => m \in removing'
    BY <1>1, <1>2, <1>3, <1>6, EndAppend DEF EndInv
  <2>2. \A m \in Name : ~Target(what, m)'
    BY <1>1, <1>5, <1>6 DEF EndInv, Target
  <2> QED
    BY <1>1, <1>5, <1>6, <2>1, <2>2 DEF EndInv
<1>7. EndInv(caught, "caught")' /\ EndInv(uncaught, "uncaught")'
  BY <1>1, <1>6 DEF TableInv
<1>8. ManagerInv'
  <2>1. Done' = 0
    BY <1>1, <1>5 DEF TableInv, EndInv
  <2> QED
    BY <1>1, <2>1 DEF ManagerInv, Keys
<1> QED
  BY <1>1, <1>4, <1>5, <1>7, <1>8 DEF TableInv

\* The next option becomes an entry and a command.
LEMMA AddTableInv ==
  ASSUME TypeInv, TableInv, AddBreak
  PROVE  TableInv'
<1> DEFINE o == Head(adding)
           c == [op |-> "add", name |-> o.name, raised |-> o.raised, uncaught |-> o.uncaught]
           d == Done + 1
<1>1. /\ removing = {} /\ removing' = {} /\ adding # <<>> /\ adding' = Tail(adding)
      /\ pipe' = Append(pipe, c)
      /\ exceptions' = [exceptions EXCEPT ![o.name] = ModeOf(o)]
      /\ UNCHANGED <<request, step, caught, uncaught>>
      /\ pipe \in Seq(Cmd) /\ adding \in Seq(Option) /\ request \in Seq(Option)
      /\ exceptions \in [Name -> {None, "always", "unhandled", "never"}]
  BY DEF AddBreak, TypeInv, TypeOK
<1>2. /\ o \in Option /\ o = adding[1]
      /\ Len(adding') = Len(adding) - 1 /\ Len(adding) \in Nat \ {0} /\ Len(request) \in Nat
      /\ \A i \in 1..Len(adding') : adding'[i] = adding[i + 1]
  BY <1>1, HeadTailProperties, LenProperties, EmptySeq
<1>3. /\ Done \in Nat /\ d \in Nat /\ Done' = d /\ o = request[d]
      /\ 1..Done' = (1..Done) \cup {d} /\ \A i \in 1..Done : i < d
      /\ AddingIsRest'
  <2>1. Done \in Nat /\ Done' = d
    BY <1>1, <1>2 DEF Done, TableInv, AddingIsRest
  <2>2. o = request[d]
    BY <1>2, <2>1 DEF TableInv, AddingIsRest
  <2>3. Len(adding') <= Len(request')
    BY <1>1, <1>2 DEF TableInv, AddingIsRest
  <2>4. ASSUME NEW i \in 1..Len(adding') PROVE adding'[i] = request'[Done' + i]
    <3>1. i + 1 \in 1..Len(adding) /\ Done + (i + 1) = d + i
      BY <1>2, <2>1
    <3> QED
      BY <1>1, <1>2, <2>1, <3>1 DEF TableInv, AddingIsRest
  <2> QED
    BY <2>1, <2>2, <2>3, <2>4 DEF AddingIsRest
<1>4. c \in Cmd /\ \A m : ~Removes(c, m)
  BY <1>2 DEF Cmd, Option, Removes
<1>5. \A m : \A what \in {"caught", "uncaught"} :
        Adds(c, what, m) <=> m \notin Missing /\ o.name = m /\ Wants(o, what)
  BY DEF Adds, Wants
<1>6. step # "uncaught" => Command' = Command
  BY <1>1, <1>4, AppendPositions DEF TypeInv, CommandInv, Command
<1>7. o.name \in Name /\ ModeOf(o) # None /\ None \notin {"always", "unhandled", "never"}
  BY <1>2 DEF Option, ModeOf, None
<1> HIDE DEF o, c, d
<1>8. ASSUME NEW what \in {"caught", "uncaught"}, NEW table, EndInv(table, what)
      PROVE  EndInv(table, what)'
  <2>1. ASSUME NEW m \in Name
        PROVE  InEnd(table, pipe', what, m) <=> Target(what, m)'
    <3>1. InEnd(table, pipe', what, m) <=> Adds(c, what, m) \/ InEnd(table, pipe, what, m)
      BY <1>1, <1>4, EndAppend
    <3>2. InEnd(table, pipe, what, m) <=> Target(what, m)
      BY <1>1, <1>8 DEF EndInv
    <3>3. Target(what, m)' <=> Target(what, m) \/ (m \notin Missing /\ o.name = m /\ Wants(o, what))
      BY <1>1, <1>3 DEF Target
    <3> QED
      BY <1>5, <3>1, <3>2, <3>3
  <2> QED
    BY <1>1, <1>8, <2>1 DEF EndInv
<1>9. EndInv(caught, "caught")' /\ EndInv(uncaught, "uncaught")'
  BY <1>1, <1>8 DEF TableInv
<1>10. ManagerInv'
  <2>1. /\ \A n \in Name : n \in Keys <=> \E i \in 1..Done : request[i].name = n
        /\ \A i \in 1..Done :
             (\A j \in 1..Done : j > i => request[j].name # request[i].name)
               => exceptions[request[i].name] = ModeOf(request[i])
    BY <1>1 DEF TableInv, ManagerInv
  <2>2. Keys' = Keys \cup {o.name}
    BY <1>1, <1>7 DEF Keys
  <2>3. \A n \in Name : n \in Keys' <=> \E i \in 1..Done' : request'[i].name = n
    BY <1>1, <1>3, <2>1, <2>2
  <2>4. ASSUME NEW i \in 1..Done',
               \A j \in 1..Done' : j > i => request'[j].name # request'[i].name
        PROVE  exceptions'[request'[i].name] = ModeOf(request'[i])
    <3>1. CASE i = d
      BY <1>1, <1>3, <1>7, <3>1
    <3>2. CASE i # d
      <4>1. i \in 1..Done /\ d > i /\ d \in 1..Done'
        BY <1>3, <3>2
      <4>2. request[i].name # o.name
        BY <1>1, <1>3, <2>4, <4>1
      <4>3. exceptions[request[i].name] = ModeOf(request[i])
        BY <1>1, <1>3, <2>1, <2>4, <4>1
      <4>4. request[i].name \in Name
        <5>1. Done <= Len(request)
          BY <1>2, <1>3 DEF Done
        <5>2. i \in 1..Len(request)
          BY <1>2, <1>3, <4>1, <5>1
        <5>3. request[i] \in Option
          BY <1>1, <5>2, ElementOfSeq
        <5> QED
          BY <5>3 DEF Option
      <4> QED
        BY <1>1, <1>7, <4>2, <4>3, <4>4
    <3> QED
      BY <3>1, <3>2
  <2> QED
    BY <2>3, <2>4 DEF ManagerInv
<1> QED
  BY <1>1, <1>3, <1>6, <1>9, <1>10 DEF TableInv

\* The reader: what the tables will be does not change when they become it.
LEMMA ReaderTableInv ==
  ASSUME TypeInv, TableInv, IgnoreMissing \/ ChangeUncaught \/ ChangeCaught \/ UpdateHook
  PROVE  TableInv'
<1> DEFINE c == Command
<1>1. /\ UNCHANGED <<exceptions, removing, adding, request>>
      /\ pipe # <<>> /\ pipe \in Seq(Cmd) /\ c \in Cmd /\ c = Head(pipe)
  <2>1. pipe # <<>> /\ UNCHANGED <<exceptions, removing, adding, request>>
    BY DEF IgnoreMissing, ChangeUncaught, ChangeCaught, UpdateHook, At, manager
  <2>2. pipe \in Seq(Cmd)
    BY DEF TypeInv
  <2> QED
    BY <2>1, <2>2, HeadTailProperties DEF Command
<1>2. Done' = Done /\ AddingIsRest' /\ ManagerInv'
  <2>1. Done' = Done /\ Keys' = Keys
    BY <1>1 DEF Done, Keys
  <2> QED
    BY <1>1, <2>1 DEF TableInv, AddingIsRest, ManagerInv
<1> HIDE DEF c
<1>3. ASSUME NEW what, NEW table, NEW after, EndInv(table, what),
             \A n \in Name : InEnd(after, pipe', what, n) <=> InEnd(table, pipe, what, n)
      PROVE  EndInv(after, what)'
  <2>1. \A n \in Name : Target(what, n)' = Target(what, n)
    BY <1>1, <1>2 DEF Target
  <2> QED
    BY <1>1, <1>2, <1>3, <2>1 DEF EndInv
<1>4. ASSUME NEW what, NEW table, Reflects(table, c, what), NEW n \in Name
      PROVE  InEnd(table, Tail(pipe), what, n) <=> InEnd(table, pipe, what, n)
  BY <1>1, <1>4, EndTail DEF Reflects
<1>5. CASE IgnoreMissing
  <2>1. step = "uncaught" /\ UNCHANGED <<step, caught, uncaught>> /\ pipe' = Tail(pipe)
    BY <1>5 DEF IgnoreMissing, TypeInv, CommandInv
  <2>2. \A what, n : ~Adds(c, what, n) /\ ~Removes(c, n)
    BY <1>5 DEF IgnoreMissing, Imports, Adds, Removes, c
  <2>3. \A what, table : Reflects(table, c, what)
    BY <2>2 DEF Reflects
  <2>4. EndInv(caught, "caught")' /\ EndInv(uncaught, "uncaught")'
    BY <1>3, <1>4, <2>1, <2>3 DEF TableInv
  <2> QED
    BY <1>2, <2>1, <2>4 DEF TableInv
<1>6. ASSUME Imports(c), NEW what \in {"caught", "uncaught"}, NEW table, NEW after,
             after = Changed(table, c.op = "add" /\ Wants(c, what))
      PROVE  /\ \A n \in Name : InEnd(after, pipe, what, n) <=> InEnd(table, pipe, what, n)
             /\ Reflects(after, c, what)
  <2>1. ASSUME NEW n \in Name
        PROVE  n \in after <=> Adds(c, what, n) \/ (n \in table /\ ~Removes(c, n))
    BY <1>1, <1>6 DEF Changed, Adds, Removes, Imports, Cmd, c
  <2>2. ASSUME NEW n \in Name
        PROVE  InEnd(after, pipe, what, n) <=> InEnd(table, pipe, what, n)
    BY <1>1, <2>1, EndChange
  <2>3. \A n : ~(Adds(c, what, n) /\ Removes(c, n))
    BY DEF Adds, Removes
  <2> QED
    BY <2>1, <2>2, <2>3 DEF Reflects
<1>7. CASE ChangeUncaught
  <2>1. /\ Imports(c) /\ step' = "caught" /\ pipe' = pipe /\ caught' = caught
        /\ uncaught' = Changed(uncaught, c.op = "add" /\ c.uncaught)
    BY <1>7 DEF ChangeUncaught, At, c
  <2>2. /\ \A n \in Name : InEnd(uncaught', pipe, "uncaught", n) <=> InEnd(uncaught, pipe, "uncaught", n)
        /\ Reflects(uncaught', c, "uncaught")
    BY <1>6, <2>1 DEF Wants
  <2>3. EndInv(caught, "caught")' /\ EndInv(uncaught, "uncaught")'
    BY <1>3, <2>1, <2>2 DEF TableInv
  <2> QED
    BY <1>2, <2>1, <2>2, <2>3 DEF TableInv, Command, c
<1>8. CASE ChangeCaught
  <2>1. /\ Imports(c) /\ step = "caught" /\ step' = "hook" /\ pipe' = pipe /\ uncaught' = uncaught
        /\ caught' = Changed(caught, c.op = "add" /\ c.raised)
    BY <1>8 DEF ChangeCaught, At, c
  <2>2. /\ \A n \in Name : InEnd(caught', pipe, "caught", n) <=> InEnd(caught, pipe, "caught", n)
        /\ Reflects(caught', c, "caught")
    BY <1>6, <2>1 DEF Wants
  <2>3. EndInv(caught, "caught")' /\ EndInv(uncaught, "uncaught")'
    BY <1>3, <2>1, <2>2 DEF TableInv
  <2> QED
    BY <1>2, <2>1, <2>2, <2>3 DEF TableInv, Command, c
<1>9. CASE UpdateHook
  <2>1. /\ step = "hook" /\ step' = "uncaught" /\ pipe' = Tail(pipe)
        /\ UNCHANGED <<caught, uncaught>>
    BY <1>9 DEF UpdateHook, At
  <2>2. Reflects(caught, c, "caught") /\ Reflects(uncaught, c, "uncaught")
    BY <2>1 DEF TableInv, c
  <2>3. EndInv(caught, "caught")' /\ EndInv(uncaught, "uncaught")'
    BY <1>3, <1>4, <2>1, <2>2 DEF TableInv
  <2> QED
    BY <1>2, <2>1, <2>3 DEF TableInv
<1> QED
  BY <1>5, <1>7, <1>8, <1>9

LEMMA NextTableInv == TypeInv /\ TableInv /\ [Next]_vars => TableInv'
<1> SUFFICES ASSUME TypeInv, TableInv, [Next]_vars PROVE TableInv'
    OBVIOUS
<1>1. CASE \/ \E n \in Name : RaiseCaught(n) \/ RaiseUncaught(n)
           \/ Suspend \/ Resume \/ Proceed \/ CallOriginal \/ Receive
           \/ UNCHANGED vars
  <2>1. UNCHANGED <<manager, tables>>
    BY <1>1 DEF RaiseCaught, RaiseUncaught, Suspend, Resume, Proceed, CallOriginal, Receive, vars
  <2> QED
    BY <2>1, TableInvKept DEF manager, tables
<1> QED
  BY <1>1, SetTableInv, RemoveTableInv, AddTableInv, ReaderTableInv DEF Next

\* Once the commands of setExceptionBreakpoints have arrived, pydevd breaks on what the
\* last request names and on nothing else, and get_break_mode agrees with it.
THEOREM LastRequestRules == Spec => []TablesAsRequested
<1>1. TypeInv /\ TableInv => TablesAsRequested
  <2> SUFFICES ASSUME TypeInv, TableInv, removing = {}, adding = <<>>, pipe = <<>>
               PROVE  /\ caught = Named({o \in Options : o.raised})
                      /\ uncaught = Named({o \in Options : o.uncaught})
                      /\ NoneTwice => /\ \A n \in caught : BreakMode(n) = "always"
                                      /\ \A n \in uncaught \ caught : BreakMode(n) = "unhandled"
    BY DEF TablesAsRequested, Settled, Idle
  <2>1. /\ Len(request) \in Nat /\ DOMAIN request = 1..Len(request)
        /\ \A i \in 1..Len(request) : request[i] \in Option
        /\ caught \subseteq Name /\ uncaught \subseteq Name
    BY LenProperties, ElementOfSeq DEF TypeInv, TypeOK
  <2>2. Done = Len(request) /\ DOMAIN pipe = {}
    BY <2>1 DEF Done
  <2>3. \A what, table, n : InEnd(table, pipe, what, n) <=> n \in table
    BY <2>2 DEF InEnd
  <2>4. \A n \in Name : /\ n \in caught <=> Target("caught", n)
                        /\ n \in uncaught <=> Target("uncaught", n)
    BY <2>3 DEF TableInv, EndInv
  <2>5. caught = Named({o \in Options : o.raised})
    BY <2>1, <2>2, <2>4 DEF Target, Wants, Named, Options, Option
  <2>6. uncaught = Named({o \in Options : o.uncaught})
    BY <2>1, <2>2, <2>4 DEF Target, Wants, Named, Options, Option
  <2>7. ASSUME NoneTwice, NEW i \in 1..Len(request)
        PROVE  BreakMode(request[i].name) = ModeOf(request[i])
    <3>1. request[i].name \in Name /\ request[i].name \in Keys
      BY <2>1, <2>2 DEF TableInv, ManagerInv, Option
    <3>2. \A j \in 1..Len(request) : j > i => request[j].name # request[i].name
      BY <2>1, <2>7 DEF NoneTwice
    <3>3. exceptions[request[i].name] = ModeOf(request[i])
      BY <2>2, <3>2 DEF TableInv, ManagerInv
    <3> QED
      BY <3>1, <3>3 DEF BreakMode
  <2>8. ASSUME NoneTwice, NEW n \in caught PROVE BreakMode(n) = "always"
    <3>1. PICK i \in 1..Len(request) : request[i].name = n /\ request[i].raised
      BY <2>1, <2>2, <2>4 DEF Target, Wants
    <3> QED
      BY <2>7, <2>8, <3>1 DEF ModeOf
  <2>9. ASSUME NoneTwice, NEW n \in uncaught \ caught PROVE BreakMode(n) = "unhandled"
    <3>1. PICK i \in 1..Len(request) : request[i].name = n /\ request[i].uncaught
      BY <2>1, <2>2, <2>4 DEF Target, Wants
    <3>2. ~request[i].raised
      BY <2>1, <2>2, <2>4, <3>1 DEF Target, Wants
    <3> QED
      BY <2>7, <2>9, <3>1, <3>2 DEF ModeOf
  <2> QED
    BY <2>5, <2>6, <2>8, <2>9
<1> QED
  BY <1>1, InitTypeInv, NextTypeInv, InitTableInv, NextTableInv, PTL DEF Spec
=============================================================================
