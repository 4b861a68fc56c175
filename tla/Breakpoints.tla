----------------------------- MODULE Breakpoints -----------------------------
(***************************************************************************)
(* Line breakpoints: on_setBreakpoints of ptvsd/wrapper.py (thread         *)
(* ptvsd.Server), the pipe to pydevd, and CMD_SET_BREAK, CMD_REMOVE_BREAK  *)
(* and CMD_RUN of pydevd's process_net_command (thread pydevd.Reader).     *)
(*                                                                         *)
(* Every notification of the handler is a step, between which pydevd may   *)
(* process what is in the pipe.  A breakpoint is its line; its condition   *)
(* and the path's spelling are left out.                                   *)
(***************************************************************************)
EXTENDS Naturals, Sequences, FiniteSets, Functions

CONSTANTS
  Source,        \* file paths
  NoSource,
  Line,          \* line numbers
  MaxLines,      \* bound: breakpoints in one setBreakpoints request
  MaxRequests    \* bound: setBreakpoints requests

ASSUME NoSourceAssumption == NoSource \notin Source
ASSUME BoundAssumption == MaxLines \in Nat /\ MaxRequests \in Nat

VARIABLES
  bpMap,         \* bp_map: the live pairs, <<<<path, id>>, id>> as <<path, id>>
  nextId,        \* bp_map._next_id
  path,          \* source of the request being handled, or NoSource
  doomed,        \* pairs the handler has still to remove
  todo,          \* lines the handler has still to set
  pipe,          \* commands on their way to pydevd
  idToBreak,     \* file_to_id_to_line_breakpoint: Source -> (id -> line)
  breaks,        \* py_db.breakpoints: Source -> lines at which threads stop
  ready,         \* py_db.ready_to_run
  configured,    \* on_configurationDone was handled
  requested,     \* history: Source -> lines of the last request about it
  touched,       \* history: sources some request was about
  atRun,         \* history: Source -> lines requested before configurationDone,
                 \* until the source is asked for again
  requests       \* history: number of requests

handler == <<path, doomed, todo>>
pydevd == <<idToBreak, breaks, ready>>
history == <<requested, touched, atRun, requests>>
vars == <<bpMap, nextId, handler, pipe, pydevd, configured, history>>

Lines(s) == {s[i] : i \in DOMAIN s}
LineSeq == UNION {[1..n -> Line] : n \in 0..MaxLines}
\* bound: a client lists the lines of a source in ascending order
Requests == {s \in LineSeq : \A i, j \in DOMAIN s : i < j => s[i] <= s[j]}

MaxBpId == MaxRequests * MaxLines
BpId == 1..MaxBpId
SetBreak(f, id, l) == [cmd |-> "set", file |-> f, id |-> id, line |-> l]
RemoveBreak(f, id) == [cmd |-> "remove", file |-> f, id |-> id]
Run == [cmd |-> "run"]
Command ==
  [cmd : {"set"}, file : Source, id : BpId, line : Line]
  \cup [cmd : {"remove"}, file : Source, id : BpId] \cup {Run}

Init ==
  /\ bpMap = {}
  /\ nextId = 1
  /\ path = NoSource
  /\ doomed = {}
  /\ todo = <<>>
  /\ pipe = <<>>
  /\ idToBreak = [f \in Source |-> [id \in {} |-> 0]]
  /\ breaks = [f \in Source |-> {}]
  /\ ready = FALSE
  /\ configured = FALSE
  /\ requested = [f \in Source |-> {}]
  /\ touched = {}
  /\ atRun = [f \in Source |-> {}]
  /\ requests = 0

-----------------------------------------------------------------------------
\* ptvsd.Server: on_setBreakpoints.

\* The handler starts: bp_map.pairs() is read once.
Begin(f, lines) ==
  /\ path = NoSource
  /\ requests < MaxRequests
  /\ path' = f
  /\ doomed' = bpMap
  /\ todo' = lines
  /\ requested' = [requested EXCEPT ![f] = Lines(lines)]
  /\ atRun' = [atRun EXCEPT ![f] = {}]
  /\ touched' = touched \cup {f}
  /\ requests' = requests + 1
  /\ UNCHANGED <<bpMap, nextId, pipe, pydevd, configured>>

\* One round of the removing loop: the command names the path of the request,
\* also for a breakpoint of another source.
\* mutant: the breakpoint is removed in the source it is in
RemoveOneOwnPath(pair) ==
  /\ pair \in doomed
  /\ pipe' = Append(pipe, RemoveBreak(pair[1], pair[2]))
  /\ bpMap' = bpMap \ {pair}
  /\ doomed' = doomed \ {pair}
  /\ UNCHANGED <<nextId, path, todo, pydevd, configured, history>>

\* mutant: the first round clears the map
RemoveOneClears(pair) ==
  /\ pair \in doomed
  /\ pipe' = Append(pipe, RemoveBreak(path, pair[2]))
  /\ bpMap' = {}
  /\ doomed' = doomed \ {pair}
  /\ UNCHANGED <<nextId, path, todo, pydevd, configured, history>>

RemoveOne(pair) ==
  /\ pair \in doomed
  /\ pipe' = Append(pipe, RemoveBreak(path, pair[2]))
  /\ bpMap' = bpMap \ {pair}
  /\ doomed' = doomed \ {pair}
  /\ UNCHANGED <<nextId, path, todo, pydevd, configured, history>>

\* One round of the setting loop: bp_map.add with the callable that makes the
\* pydevd id from the new number.
SetOne ==
  /\ path # NoSource
  /\ doomed = {}
  /\ todo # <<>>
  /\ bpMap' = bpMap \cup {<<path, nextId>>}
  /\ pipe' = Append(pipe, SetBreak(path, nextId, Head(todo)))
  /\ nextId' = nextId + 1
  /\ todo' = Tail(todo)
  /\ UNCHANGED <<path, doomed, pydevd, configured, history>>

\* The response: every breakpoint is reported as verified.
Respond ==
  /\ path # NoSource
  /\ doomed = {}
  /\ todo = <<>>
  /\ path' = NoSource
  /\ UNCHANGED <<bpMap, nextId, doomed, todo, pipe, pydevd, configured, history>>

\* on_configurationDone sends CMD_RUN through the same pipe.
\* mutant: the program is released at once
ConfigurationDoneAtOnce ==
  /\ path = NoSource
  /\ ~configured
  /\ configured' = TRUE
  /\ ready' = TRUE
  /\ atRun' = requested
  /\ UNCHANGED <<bpMap, nextId, handler, pipe, idToBreak, breaks,
                 requested, touched, requests>>

ConfigurationDone ==
  /\ path = NoSource
  /\ ~configured
  /\ configured' = TRUE
  /\ pipe' = Append(pipe, Run)
  /\ atRun' = requested
  /\ UNCHANGED <<bpMap, nextId, handler, pydevd, requested, touched, requests>>

-----------------------------------------------------------------------------
\* pydevd.Reader: process_net_command, one command under _main_lock.

\* consolidate_breakpoints: the lines of a file's breakpoints by id.
Consolidate(f) == breaks' = [breaks EXCEPT ![f] = Range(idToBreak'[f])]

Takes(cmd) == pipe # <<>> /\ Head(pipe).cmd = cmd /\ pipe' = Tail(pipe)

PydevdSetBreak ==
  /\ Takes("set")
  /\ LET c == Head(pipe) IN
       /\ idToBreak' = [idToBreak EXCEPT ![c.file] =
                         [id \in DOMAIN @ \cup {c.id} |-> IF id = c.id THEN c.line ELSE @[id]]]
       /\ Consolidate(c.file)
  /\ UNCHANGED <<bpMap, nextId, handler, ready, configured, history>>

\* del id_to_pybreakpoint[id]: a KeyError is logged and nothing changes.
\* mutant: the table of lines is not rebuilt
PydevdRemoveBreakNoTable ==
  /\ Takes("remove")
  /\ LET c == Head(pipe) IN
       idToBreak' = [idToBreak EXCEPT ![c.file] = Restrict(@, DOMAIN @ \ {c.id})]
  /\ UNCHANGED <<bpMap, nextId, handler, breaks, ready, configured, history>>

PydevdRemoveBreak ==
  /\ Takes("remove")
  /\ LET c == Head(pipe) IN
       IF c.id \in DOMAIN idToBreak[c.file]
       THEN /\ idToBreak' = [idToBreak EXCEPT ![c.file] = Restrict(@, DOMAIN @ \ {c.id})]
            /\ Consolidate(c.file)
       ELSE UNCHANGED <<idToBreak, breaks>>
  /\ UNCHANGED <<bpMap, nextId, handler, ready, configured, history>>

PydevdRun ==
  /\ Takes("run")
  /\ ready' = TRUE
  /\ UNCHANGED <<bpMap, nextId, handler, idToBreak, breaks, configured, history>>

-----------------------------------------------------------------------------
ServerStep == (\E pair \in doomed : RemoveOne(pair)) \/ SetOne \/ Respond
PydevdStep == PydevdSetBreak \/ PydevdRemoveBreak \/ PydevdRun

Next ==
  \/ \E f \in Source, lines \in Requests : Begin(f, lines)
  \/ ConfigurationDone
  \/ ServerStep
  \/ PydevdStep

\* The handler does not wait for anything, and pydevd's reader keeps reading.
Fairness == WF_vars(ServerStep) /\ WF_vars(PydevdStep)

Spec == Init /\ [][Next]_vars /\ Fairness

-----------------------------------------------------------------------------
TypeOK ==
  /\ bpMap \in SUBSET (Source \X BpId)
  /\ nextId \in 1..(MaxBpId + 1)
  /\ path \in Source \cup {NoSource}
  /\ doomed \subseteq bpMap
  /\ todo \in LineSeq
  /\ pipe \in Seq(Command)
  /\ \A f \in Source : /\ DOMAIN idToBreak[f] \subseteq BpId
                       /\ Range(idToBreak[f]) \subseteq Line
  /\ breaks \in [Source -> SUBSET Line]
  /\ ready \in BOOLEAN
  /\ configured \in BOOLEAN
  /\ requested \in [Source -> SUBSET Line]
  /\ touched \in SUBSET Source
  /\ atRun \in [Source -> SUBSET Line]
  /\ requests \in 0..MaxRequests

\* Nothing is being handled and pydevd has caught up.
Quiet == path = NoSource /\ pipe = <<>>

\* Once pydevd has caught up, every breakpoint of the last answered request of
\* every source is in force: the commands about one source never take away a
\* breakpoint of another.
NoneLost == Quiet => \A f \in Source : requested[f] \subseteq breaks[f]

\* While only one source was ever asked for, the breakpoints in force are exactly
\* the requested ones once pydevd has caught up: the old ones are all gone.
OneSourceExact ==
  Quiet /\ Cardinality(touched) = 1 => \A f \in touched : breaks[f] = requested[f]

\* When the debuggee is released, the breakpoints answered before configurationDone
\* are in force (until their source is asked for again), although they were
\* reported as verified before pydevd had seen them.
BreakpointsBeforeRun == ready => \A f \in Source : atRun[f] \subseteq breaks[f]

\* The comment of on_setBreakpoints: "First, we must delete all existing
\* breakpoints in that source."  Once pydevd has caught up, no breakpoint of a
\* source is left over from before its last request.
OldOnesDeleted == Quiet => \A f \in Source : breaks[f] \subseteq requested[f]
=============================================================================
