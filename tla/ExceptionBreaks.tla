---------------------------- MODULE ExceptionBreaks ----------------------------
(***************************************************************************)
(* Exception breakpoints: ExceptionsManager of ptvsd/wrapper.py, which     *)
(* turns a setExceptionBreakpoints request into one command per exception, *)
(* pydevd's two tables (pydevd.py, pydevd_process_net_command.py) with the *)
(* excepthook (pydevd_breakpoints.py), and a thread that raises: the       *)
(* messages about its stop on their way to active_exceptions.              *)
(*                                                                         *)
(* An exception is raised by class; BaseException is the class of all of   *)
(* them, the other ones are not related.                                   *)
(***************************************************************************)
EXTENDS Naturals, Sequences, FiniteSets, SequencesExt

CONSTANTS
  Exceptions,     \* names of exceptions other than "BaseException"
  Missing,        \* those pydevd cannot import
  Modes,          \* break modes: "always", "unhandled", "never"
  MaxOptions,     \* bound: exceptions named in a request
  MaxRequests,    \* bound: requests
  MaxRaises       \* bound: exceptions raised by the thread and caught again

Base == "BaseException"
Name == Exceptions \cup {Base}
None == "none"

ASSUME NamesAssumption == Missing \subseteq Exceptions /\ {Base, None} \cap Exceptions = {}
ASSUME ModesAssumption == Modes \subseteq {"always", "unhandled", "never"}
ASSUME BoundsAssumption == {MaxOptions, MaxRequests, MaxRaises} \subseteq Nat

Option == [name : Name, raised : BOOLEAN, uncaught : BOOLEAN]
ByMode(n, mode) == [name |-> n, raised |-> mode = "always", uncaught |-> mode = "unhandled"]

\* A request names exceptions and their modes, or gives the filters "raised" and
\* "uncaught", one or both.
Request ==
  BoundedSeq({ByMode(n, mode) : n \in Name, mode \in Modes}, MaxOptions)
    \cup {<<o>> : o \in {p \in Option : p.name = Base /\ (p.raised \/ p.uncaught)}}

VARIABLES
  exceptions,    \* ExceptionsManager.exceptions; None: no entry
  removing,      \* keys remove_all_exception_breaks has still to send
  adding,        \* options still to be added
  pipe,          \* commands on their way to pydevd; the reader thread works on the first
  step,          \* and has still to change: "uncaught", "caught", "hook"
  caught,        \* PyDB.break_on_caught_exceptions
  uncaught,      \* PyDB.break_on_uncaught_exceptions
  hooked,        \* sys.excepthook is pydevd's, and there is an original one
  handled,       \* _handle_exceptions of the hook
  at,            \* where the thread is
  exc,           \* the exception it has raised
  events,        \* messages on their way to ptvsd
  active,        \* active_exceptions of the thread
  told,          \* what the last stopped event said
  request,       \* history: the last request
  requests,      \* history: how many
  raises         \* history: exceptions raised in code that catches them

manager == <<exceptions, removing, adding, request, requests>>
tables == <<pipe, step, caught, uncaught, hooked, handled>>
thread == <<at, exc, raises>>
ptvsd == <<active, told>>
vars == <<manager, tables, thread, events, ptvsd>>

Init ==
  /\ exceptions = [n \in Name |-> None]
  /\ removing = {} /\ adding = <<>>
  /\ pipe = <<>> /\ step = "uncaught"
  /\ caught = {} /\ uncaught = {} /\ hooked = FALSE /\ handled = {}
  /\ at = "run" /\ exc = None /\ raises = 0
  /\ events = <<>> /\ active = None /\ told = None
  /\ request = <<>> /\ requests = 0

-----------------------------------------------------------------------------
\* ExceptionsManager, on the server thread.

Keys == {n \in Name : exceptions[n] # None}
Idle == removing = {} /\ adding = <<>>

\* on_setExceptionBreakpoints, apply_exception_options.  The handler is through its
\* removals at once when there are none.
SetExceptionBreakpoints(r) ==
  /\ Idle /\ requests < MaxRequests
  /\ removing' = Keys /\ adding' = r
  /\ request' = r /\ requests' = requests + 1
  /\ UNCHANGED <<exceptions, tables, thread, events, ptvsd>>

\* remove_all_exception_breaks: one command per key, then the dictionary is emptied.
RemoveBreak(n) ==
  /\ n \in removing
  /\ pipe' = Append(pipe, [op |-> "remove", name |-> n])
  /\ removing' = removing \ {n}
  /\ exceptions' = IF removing' = {} THEN [m \in Name |-> None] ELSE exceptions
  /\ UNCHANGED <<adding, request, requests, step, caught, uncaught, hooked, handled,
                 thread, events, ptvsd>>

ModeOf(o) == IF o.raised THEN "always" ELSE IF o.uncaught THEN "unhandled" ELSE "never"

AddBreak ==
  /\ removing = {} /\ adding # <<>>
  /\ LET o == Head(adding)
     IN /\ pipe' = Append(pipe, [op |-> "add", name |-> o.name, raised |-> o.raised,
                                 uncaught |-> o.uncaught])
        /\ exceptions' = [exceptions EXCEPT ![o.name] = ModeOf(o)]
  /\ adding' = Tail(adding)
  /\ UNCHANGED <<removing, request, requests, step, caught, uncaught, hooked, handled,
                 thread, events, ptvsd>>

\* get_break_mode
BreakMode(n) ==
  LET key == IF n \in Keys THEN n ELSE Base
  IN IF key \in Keys THEN exceptions[key] ELSE "unhandled"

-----------------------------------------------------------------------------
\* pydevd's reader thread: a command changes the table of uncaught exceptions, the
\* other one, and then the hook.

Command == Head(pipe)
Imports(c) == c.op = "remove" \/ c.name \notin Missing

\* CMD_ADD_EXCEPTION_BREAK does nothing for a class that is not found.
IgnoreMissing ==
  /\ pipe # <<>> /\ ~Imports(Command)
  /\ pipe' = Tail(pipe)
  /\ UNCHANGED <<manager, step, caught, uncaught, hooked, handled, thread, events, ptvsd>>

At(label) == pipe # <<>> /\ Imports(Command) /\ step = label

\* What a command makes of a table that an addition is for or not.
Changed(table, wanted) ==
  IF Command.op = "remove" THEN table \ {Command.name}
  ELSE IF wanted THEN table \cup {Command.name} ELSE table

ChangeUncaught ==
  /\ At("uncaught")
  /\ uncaught' = Changed(uncaught, Command.op = "add" /\ Command.uncaught)
  /\ step' = "caught"
  /\ UNCHANGED <<manager, pipe, caught, hooked, handled, thread, events, ptvsd>>

\* mutant: an exception is taken out of one table only
ChangeCaughtAdd ==
  /\ At("caught")
  /\ caught' = IF Command.op = "add" /\ Command.raised THEN caught \cup {Command.name} ELSE caught
  /\ step' = "hook"
  /\ UNCHANGED <<manager, pipe, uncaught, hooked, handled, thread, events, ptvsd>>

ChangeCaught ==
  /\ At("caught")
  /\ caught' = Changed(caught, Command.op = "add" /\ Command.raised)
  /\ step' = "hook"
  /\ UNCHANGED <<manager, pipe, uncaught, hooked, handled, thread, events, ptvsd>>

\* mutant: the hook is not updated when an exception is removed
UpdateHookAdd ==
  /\ At("hook")
  /\ IF Command.op = "remove" \/ ~Command.uncaught
       THEN UNCHANGED <<hooked, handled>>
       ELSE hooked' = TRUE /\ handled' = uncaught
  /\ pipe' = Tail(pipe) /\ step' = "uncaught"
  /\ UNCHANGED <<manager, caught, uncaught, thread, events, ptvsd>>

\* update_exception_hook: pydevd's hook is there while its table is not empty.
UpdateHook ==
  /\ At("hook")
  /\ IF Command.op = "add" /\ ~Command.uncaught
       THEN UNCHANGED <<hooked, handled>>
       ELSE /\ hooked' = (uncaught # {})
            /\ handled' = IF uncaught # {} THEN uncaught ELSE handled
  /\ pipe' = Tail(pipe) /\ step' = "uncaught"
  /\ UNCHANGED <<manager, caught, uncaught, thread, events, ptvsd>>

-----------------------------------------------------------------------------
\* The thread.

Go(label) == at' = label
Send(messages) == events' = events \o messages
Message(kind) == [kind |-> kind, name |-> exc]

\* get_exception_breakpoint: the class itself or BaseException.
Breaks(n, table) == {n, Base} \cap table # {}

\* handle_exception: the trace of the exception is posted to the thread itself, which is
\* then suspended.
RaiseCaught(n) ==
  /\ at = "run" /\ raises < MaxRaises /\ raises' = raises + 1
  /\ Breaks(n, caught)
  /\ Go("raised") /\ exc' = n
  /\ UNCHANGED <<manager, tables, events, ptvsd>>

\* do_wait_suspend sends what was posted, and the stop; later it sends the resumption.
Suspend ==
  /\ at \in {"raised", "uncaught"}
  /\ Go(IF at = "raised" THEN "stopped" ELSE "postMortem")
  /\ Send(IF at = "raised" THEN <<Message("trace"), Message("suspend")>> ELSE <<Message("suspend")>>)
  /\ UNCHANGED <<manager, tables, exc, raises, ptvsd>>

Resume ==
  /\ at \in {"stopped", "postMortem"}
  /\ Go(IF at = "stopped" THEN "resumed" ELSE "ended")
  /\ Send(<<Message("run")>>)
  /\ UNCHANGED <<manager, tables, exc, raises, ptvsd>>

\* send_caught_exception_stack_proceeded
Proceed ==
  /\ at = "resumed"
  /\ Go("run") /\ exc' = None
  /\ Send(<<Message("proceeded")>>)
  /\ UNCHANGED <<manager, tables, raises, ptvsd>>

\* An exception nobody catches: sys.excepthook, which looks it up first.
RaiseUncaught(n) ==
  /\ at = "run" /\ exc' = n
  /\ Go(IF hooked /\ Breaks(n, handled) THEN "hook" ELSE "ended")
  /\ UNCHANGED <<manager, tables, raises, events, ptvsd>>

\* _excepthook calls the original hook, which _restore_pm_excepthook may just have taken
\* away, and stops the thread.
CallOriginal ==
  /\ at = "hook"
  /\ Go(IF hooked THEN "uncaught" ELSE "lost")
  /\ UNCHANGED <<manager, tables, exc, raises, events, ptvsd>>

-----------------------------------------------------------------------------
\* ptvsd's handlers of the messages, in order on pydevd's writer thread.

\* mutant: the exception is kept when the thread proceeds
ReceiveKeeping ==
  /\ events # <<>> /\ events' = Tail(events)
  /\ LET message == Head(events)
     IN /\ active' = IF message.kind = "trace" THEN message.name ELSE active
        /\ told' = CASE message.kind = "suspend" -> (IF active = None THEN Base ELSE active)
                     [] message.kind = "run" -> None
                     [] OTHER -> told
  /\ UNCHANGED <<manager, tables, thread>>

\* on_pydevd_send_curr_exception_trace, ..._trace_proceeded, on_pydevd_thread_suspend with
\* get_exceptionInfo, on_pydevd_thread_run.
Receive ==
  /\ events # <<>> /\ events' = Tail(events)
  /\ LET message == Head(events)
     IN /\ active' = CASE message.kind = "trace" -> message.name
                       [] message.kind = "proceeded" -> None
                       [] OTHER -> active
        /\ told' = CASE message.kind = "suspend" -> (IF active = None THEN Base ELSE active)
                     [] message.kind = "run" -> None
                     [] OTHER -> told
  /\ UNCHANGED <<manager, tables, thread>>

-----------------------------------------------------------------------------
Next ==
  \/ \E r \in Request : SetExceptionBreakpoints(r)
  \/ \E n \in Name : RemoveBreak(n) \/ RaiseCaught(n) \/ RaiseUncaught(n)
  \/ AddBreak
  \/ IgnoreMissing \/ ChangeUncaught \/ ChangeCaught \/ UpdateHook
  \/ Suspend \/ Resume \/ Proceed \/ CallOriginal
  \/ Receive

Spec == Init /\ [][Next]_vars

-----------------------------------------------------------------------------
\* Types, and the order of the two tables and the hook: between commands the hook works
\* with the table pydevd has.
TypeOK ==
  /\ exceptions \in [Name -> {None, "always", "unhandled", "never"}]
  /\ removing \subseteq Keys /\ adding \in Seq(Option)
  /\ step \in {"uncaught", "caught", "hook"}
  /\ caught \cup uncaught \cup handled \subseteq Name
  /\ at \in {"run", "raised", "stopped", "resumed", "hook", "uncaught", "postMortem", "ended", "lost"}
  /\ exc \in Name \cup {None} /\ active \in Name \cup {None} /\ told \in Name \cup {None}
  /\ step = "uncaught" => hooked = (uncaught # {}) /\ (hooked => handled = uncaught)

Settled == Idle /\ pipe = <<>>
Options == {request[i] : i \in DOMAIN request}
Named(options) == {o.name : o \in options} \ Missing
NoneTwice == \A i, j \in DOMAIN request : request[i].name = request[j].name => i = j

\* Once its commands have arrived, the tables are those of the last request: nothing of
\* an earlier one is left and nothing is missing.  An exception that a request names
\* twice is in the tables of both modes; if none is, ptvsd answers with the mode by
\* which pydevd breaks.
TablesAsRequested ==
  Settled =>
    /\ caught = Named({o \in Options : o.raised})
    /\ uncaught = Named({o \in Options : o.uncaught})
    /\ NoneTwice =>
         /\ \A n \in caught : BreakMode(n) = "always"
         /\ \A n \in uncaught \ caught : BreakMode(n) = "unhandled"

\* While a thread is stopped at an exception, and ptvsd has heard of it, the stop was
\* announced with this exception and exceptionInfo tells it; for one that nobody catches
\* both know no more than BaseException, and never an exception of an earlier stop.
InfoOfTheStop ==
  /\ at = "stopped" /\ events = <<>> => active = exc /\ told = exc
  /\ at = "postMortem" /\ events = <<>> => active = None /\ told = Base
=============================================================================
