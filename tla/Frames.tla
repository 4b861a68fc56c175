-------------------------------- MODULE Frames --------------------------------
(***************************************************************************)
(* What ptvsd keeps about a suspended thread: stack_traces, frame_map and  *)
(* var_map of ptvsd/wrapper.py.  Three threads work on them:               *)
(*   - the server thread starts the handlers of stackTrace, scopes,        *)
(*     variables, evaluate and setVariable, one request after the other;   *)
(*   - the event loop goes on with a handler that waits for pydevd;        *)
(*   - pydevd's writer thread runs the handlers of CMD_THREAD_SUSPEND,     *)
(*     which stores a stack, and CMD_THREAD_RUN, which clears everything.  *)
(*                                                                         *)
(* A stack has one frame.  A frame of the debuggee may still be there, with*)
(* the same id, at the next stop.  The threads are in thread_map all the   *)
(* time (see ThreadTracking), and a variable that was listed can be        *)
(* resolved as long as its frame is there.                                 *)
(*                                                                         *)
(* to_vscode looks a key up without a lock and adds it later.  Both the    *)
(* server thread and the event loop do so with var_map, in two steps each; *)
(* only the server thread does with frame_map, and nobody can come between.*)
(* The two assignments of add and the two of remove are one step: between  *)
(* them (see IDMap) a look-up finds what it found just before, and nobody  *)
(* has the id yet, or asks for it any more.                                *)
(***************************************************************************)
EXTENDS Naturals, Sequences, FiniteSets, Functions

CONSTANTS
  Tid, Frame, NoFrame,
  Asked,        \* bound: threads about which the client asks
  MaxStops,     \* bound: suspensions, of all threads
  StopsIn,      \* bound: number of a suspension -> <<thread, frame>> it may be of
  MaxRequests,  \* bound: requests of the client
  MaxWork       \* bound: suspensions and requests together

ASSUME FrameAssumption == NoFrame \notin Frame
ASSUME BoundAssumption ==
  Asked \subseteq Tid /\ MaxStops \in Nat /\ MaxRequests \in Nat /\ MaxWork \in Nat

VARIABLES
  phase,        \* Tid -> "run", or in do_wait_suspend: "enter" (nothing sent
                \* yet), "wait"
  at,           \* Tid -> the frame in which it stopped
  stops,        \* Tid -> its last suspension, numbered over all threads, or 0
  outgoing,     \* WriterThread.cmdQueue
  stackTraces,  \* self.stack_traces, NoFrame without an entry
  frameMap,     \* frame_map._vscode_to_pydevd
  varMap,       \* var_map._vscode_to_pydevd
  varIds,       \* var_map._pydevd_to_vscode
  nextId,       \* _next_id of frame_map and of var_map
  request,      \* the requests, in the order of their arrival
  status,       \* what has become of them, the key they are about, the child's id
  server,       \* what the server thread does: step, request, key, id
  resolved,     \* futures with a result: the loop's queue
  loop,         \* what the event loop does: step, request, key, id, is it a container
  writer,       \* what the writer thread does: step, thread, stop, ids to remove
  view,         \* client: Tid -> the stop it has been told of, 0 after "continued"
  held,         \* client: ids it was given since then
  late,         \* history: threads with an id made after its stack was deleted
  doubled       \* history: keys that two threads had missed when one added it

pydevd == <<phase, at, stops>>
maps == <<frameMap, varMap, varIds, nextId, late, doubled>>
client == <<view, held>>
vars == <<pydevd, outgoing, stackTraces, maps, request, status, server, resolved,
          loop, writer, client>>

Kind == {"stackTrace", "scopes", "variables", "evaluate", "setVariable"}
Req == 1..MaxRequests
Id == 1..MaxRequests
FrameKey == [tid : Tid, frame : Frame]
\* (tid, fid, 'FRAME'), (tid, fid, 'FRAME', name) and (tid, fid, 'EXPRESSION', expr)
VarKey == [tid : Tid, frame : Frame, path : {"locals", "child", "expr"}]
Variable(k, p) == [tid |-> k.tid, frame |-> k.frame, path |-> p]

NoKey == [tid |-> "none"]
Idle == [step |-> "idle", req |-> 0, key |-> NoKey, id |-> 0]
LoopIdle == [step |-> "idle", req |-> 0, key |-> NoKey, id |-> 0, container |-> FALSE]
WriterIdle == [step |-> "idle", tid |-> "none", stop |-> 0, doomed |-> {}]

Init ==
  /\ phase = [t \in Tid |-> "run"]
  /\ at = [t \in Tid |-> NoFrame]
  /\ stops = [t \in Tid |-> 0]
  /\ outgoing = <<>>
  /\ stackTraces = [t \in Tid |-> NoFrame]
  /\ frameMap = <<>> /\ varMap = <<>> /\ varIds = <<>>
  /\ nextId = [frame |-> 1, var |-> 1]
  /\ request = <<>>
  /\ status = <<>>
  /\ server = Idle
  /\ resolved = <<>>
  /\ loop = LoopIdle
  /\ writer = WriterIdle
  /\ view = [t \in Tid |-> 0]
  /\ held = {}
  /\ late = {} /\ doubled = {}

-----------------------------------------------------------------------------
\* pydevd.  Commands about a frame are posted to its thread, which executes them,
\* in no certain order, in process_internal_commands: while it waits, and once
\* before it announces that it has stopped.

Enter(t, f) ==
  /\ phase[t] = "run"
  /\ phase' = [phase EXCEPT ![t] = "enter"]
  /\ at' = [at EXCEPT ![t] = f]
  /\ \E n \in 1..MaxStops : /\ n - 1 \in Range(stops)
                            /\ \A u \in Tid : stops[u] < n
                            /\ <<t, f>> \in StopsIn[n]
                            /\ n + Len(request) <= MaxWork
                            /\ stops' = [stops EXCEPT ![t] = n]
  /\ UNCHANGED <<outgoing, stackTraces, maps, request, status, server, resolved,
                 loop, writer, client>>

Announce(t) ==
  /\ phase[t] = "enter"
  /\ phase' = [phase EXCEPT ![t] = "wait"]
  /\ outgoing' = Append(outgoing, [msg |-> "suspend", tid |-> t, frame |-> at[t],
                                   stop |-> stops[t]])
  /\ UNCHANGED <<at, stops, stackTraces, maps, request, status, server, resolved,
                 loop, writer, client>>

Resume(t) ==
  /\ phase[t] = "wait"
  /\ phase' = [phase EXCEPT ![t] = "run"]
  /\ at' = [at EXCEPT ![t] = NoFrame]
  /\ outgoing' = Append(outgoing, [msg |-> "run", tid |-> t])
  /\ UNCHANGED <<stops, stackTraces, maps, request, status, server, resolved,
                 loop, writer, client>>

\* find_frame fails: CMD_GET_FRAME is answered with CMD_ERROR, the other commands
\* with an empty result.  Otherwise the result may be a container or not.
Execute(r) ==
  LET key == status[r].key
      found == at[key.tid] = key.frame
      getFrame == request[r].kind = "variables" /\ key.path = "locals" IN
  /\ status[r].is = "posted"
  /\ phase[key.tid] # "run"
  /\ status' = [status EXCEPT ![r].is = "executed"]
  /\ \E container \in {FALSE, found} :
       outgoing' = Append(outgoing, [msg |-> "reply", req |-> r,
                                     ok |-> found \/ ~getFrame, container |-> container])
  /\ UNCHANGED <<pydevd, stackTraces, maps, request, server, resolved, loop, writer,
                 client>>

-----------------------------------------------------------------------------
\* The maps.

Keys(m) == Range(m)
IdOf(m, key) == CHOOSE i \in DOMAIN m : m[i] = key
Put(m, x, y) == [z \in DOMAIN m \cup {x} |-> IF z = x THEN y ELSE m[z]]
Without(m, x) == Restrict(m, DOMAIN m \ {x})

Late(t) == late' = IF stackTraces[t] = NoFrame THEN late \cup {t} ELSE late

\* frame_map.to_vscode(key, autogen=True) gives id
FrameId(key, id) ==
  /\ \/ /\ key \in Keys(frameMap)
        /\ id = IdOf(frameMap, key)
        /\ UNCHANGED <<frameMap, nextId, late>>
     \/ /\ key \notin Keys(frameMap)
        /\ id = nextId.frame
        /\ frameMap' = Put(frameMap, id, key)
        /\ nextId' = [nextId EXCEPT !.frame = @ + 1]
        /\ Late(key.tid)
  /\ UNCHANGED <<varMap, varIds, doubled>>

\* The look-up of var_map.to_vscode(key, autogen=True) fails.
\* mutant: it fails always
MissesAlways(key) == TRUE

Misses(key) == key \notin DOMAIN varIds

\* The add of var_map.to_vscode, after a look-up that failed: it does not look again.
\* other is what the other of the two threads does.
AddVar(key, id, other) ==
  /\ id = nextId.var
  /\ varMap' = Put(varMap, id, key)
  /\ varIds' = Put(varIds, key, id)
  /\ nextId' = [nextId EXCEPT !.var = @ + 1]
  /\ Late(key.tid)
  /\ doubled' = IF other.step = "add" /\ other.key = key THEN doubled \cup {key} ELSE doubled
  /\ UNCHANGED frameMap

-----------------------------------------------------------------------------
\* The client.  It asks about what it was given since the thread stopped, and
\* forgets that when it hears "continued".

Held(t, kind) == {h \in held : h.tid = t /\ h.kind = kind}

Send(kind, t, id) ==
  /\ Len(request) < MaxRequests
  /\ \A u \in Tid : stops[u] + Len(request) < MaxWork
  /\ request' = Append(request, [kind |-> kind, tid |-> t, id |-> id, view |-> view[t]])
  /\ status' = Append(status, [is |-> "sent", key |-> NoKey, id |-> 0])
  /\ UNCHANGED <<pydevd, outgoing, stackTraces, maps, server, resolved, loop, writer,
                 client>>

Ask(t) ==
  /\ view[t] # 0
  /\ \/ Send("stackTrace", t, 0)
     \/ \E h \in Held(t, "frame") : \E k \in {"scopes", "evaluate"} : Send(k, t, h.id)
     \/ \E h \in Held(t, "var") : \E k \in {"variables", "setVariable"} : Send(k, t, h.id)

\* A response that gives an id, or none (0).
Give(r, kind, id) ==
  LET t == request[r].tid IN
  held' = IF id # 0 /\ request[r].view = view[t]
          THEN held \cup {[tid |-> t, kind |-> kind, id |-> id]} ELSE held

Become(r, is) == status' = [status EXCEPT ![r].is = is]
Posts(r, key, id) == status' = [status EXCEPT ![r] = [is |-> "posted", key |-> key, id |-> id]]

-----------------------------------------------------------------------------
\* The server thread: on_request.  An exception of stackTrace or scopes reaches
\* on_request, which refuses the request; one of the other handlers, which are
\* generators, ends in the future of async_handler, which prints it.

Arrives(r, kind) ==
  /\ server.step = "idle"
  /\ status[r].is = "sent"
  /\ \A q \in 1..(r - 1) : status[q].is # "sent"
  /\ request[r].kind = kind

UnchangedByServer == <<pydevd, outgoing, stackTraces, request, resolved, loop, writer, view>>

\* on_stackTrace, under stack_traces_lock: without a stack it answers at once.
StackTrace(r) ==
  LET t == request[r].tid IN
  /\ Arrives(r, "stackTrace")
  /\ server' = [step |-> IF stackTraces[t] = NoFrame THEN "respond" ELSE "frame",
                req |-> r, key |-> [tid |-> t, frame |-> stackTraces[t]], id |-> 0]
  /\ Become(r, "handled")
  /\ UNCHANGED <<UnchangedByServer, maps, held>>

StackTraceFrame ==
  /\ server.step = "frame"
  /\ \E id \in Id :
       /\ FrameId(server.key, id)
       /\ server' = [server EXCEPT !.step = "respond", !.id = id]
  /\ UNCHANGED <<UnchangedByServer, status, held>>

\* on_scopes
Scopes(r) ==
  LET fid == request[r].id IN
  /\ Arrives(r, "scopes")
  /\ IF fid \in DOMAIN frameMap
     THEN /\ server' = [step |-> "var", req |-> r, key |-> Variable(frameMap[fid], "locals"), id |-> 0]
          /\ Become(r, "handled")
     ELSE Become(r, "refused") /\ UNCHANGED server
  /\ UNCHANGED <<UnchangedByServer, maps, held>>

Respond ==
  /\ server.step = "respond"
  /\ Become(server.req, "answered")
  /\ Give(server.req, IF request[server.req].kind = "scopes" THEN "var" ELSE "frame", server.id)
  /\ server' = Idle
  /\ UNCHANGED <<UnchangedByServer, maps>>

\* on_variables and on_evaluate, up to their yield
Variables(r) ==
  LET vid == request[r].id IN
  /\ Arrives(r, "variables")
  /\ IF vid \in DOMAIN varMap THEN Posts(r, varMap[vid], 0) ELSE Become(r, "dropped")
  /\ UNCHANGED <<UnchangedByServer, server, maps, held>>

\* mutant: the frame is looked up in var_map
EvaluateVarMap(r) ==
  LET fid == request[r].id IN
  /\ Arrives(r, "evaluate")
  /\ IF fid \in DOMAIN varMap THEN Posts(r, Variable(varMap[fid], "expr"), 0)
                              ELSE Become(r, "dropped")
  /\ UNCHANGED <<UnchangedByServer, server, maps, held>>

Evaluate(r) ==
  LET fid == request[r].id IN
  /\ Arrives(r, "evaluate")
  /\ IF fid \in DOMAIN frameMap THEN Posts(r, Variable(frameMap[fid], "expr"), 0)
                                ELSE Become(r, "dropped")
  /\ UNCHANGED <<UnchangedByServer, server, maps, held>>

\* on_setVariable, up to its yield: the id of the child is made first.
SetVariable(r) ==
  LET vid == request[r].id IN
  /\ Arrives(r, "setVariable")
  /\ IF vid \in DOMAIN varMap
     THEN /\ server' = [step |-> "var", req |-> r, key |-> Variable(varMap[vid], "child"), id |-> 0]
          /\ Become(r, "handled")
     ELSE Become(r, "dropped") /\ UNCHANGED server
  /\ UNCHANGED <<UnchangedByServer, maps, held>>

\* With the id, scopes responds and setVariable posts its command to pydevd.
ServerHas(id) ==
  IF request[server.req].kind = "scopes"
  THEN server' = [server EXCEPT !.step = "respond", !.id = id] /\ UNCHANGED status
  ELSE Posts(server.req, server.key, id) /\ server' = Idle

ServerLookUp ==
  /\ server.step = "var"
  /\ IF Misses(server.key)
     THEN server' = [server EXCEPT !.step = "add"] /\ UNCHANGED status
     ELSE ServerHas(varIds[server.key])
  /\ UNCHANGED <<UnchangedByServer, maps, held>>

ServerAdd ==
  /\ server.step = "add"
  /\ \E id \in Id : AddVar(server.key, id, loop) /\ ServerHas(id)
  /\ UNCHANGED <<UnchangedByServer, held>>

ServerStep ==
  \/ \E r \in DOMAIN request :
       StackTrace(r) \/ Scopes(r) \/ Variables(r) \/ Evaluate(r) \/ SetVariable(r)
  \/ StackTraceFrame \/ ServerLookUp \/ ServerAdd \/ Respond

-----------------------------------------------------------------------------
\* The event loop: the rest of variables, evaluate and setVariable.

UnchangedByLoop == <<pydevd, outgoing, stackTraces, request, server, writer, view>>

\* An error message is no XML: untangle.parse raises.  variables makes an id for a
\* child that is a container, evaluate always makes one, setVariable has one.
LoopTake ==
  /\ loop.step = "idle" /\ resolved # <<>>
  /\ LET m == Head(resolved)
         kind == request[m.req].kind
         s == status[m.req] IN
       IF ~m.ok THEN Become(m.req, "dropped") /\ UNCHANGED loop
       ELSE /\ loop' = [step |-> IF \/ kind = "variables" /\ m.container
                                 \/ kind = "evaluate" THEN "var" ELSE "respond",
                        req |-> m.req, id |-> s.id, container |-> m.container,
                        key |-> IF kind = "variables" THEN Variable(s.key, "child") ELSE s.key]
            /\ UNCHANGED status
  /\ resolved' = Tail(resolved)
  /\ UNCHANGED <<UnchangedByLoop, maps, held>>

LoopLookUp ==
  /\ loop.step = "var"
  /\ loop' = IF Misses(loop.key) THEN [loop EXCEPT !.step = "add"]
             ELSE [loop EXCEPT !.step = "respond", !.id = varIds[loop.key]]
  /\ UNCHANGED <<UnchangedByLoop, resolved, maps, status, held>>

LoopAdd ==
  /\ loop.step = "add"
  /\ \E id \in Id :
       /\ AddVar(loop.key, id, server)
       /\ loop' = [loop EXCEPT !.step = "respond", !.id = id]
  /\ UNCHANGED <<UnchangedByLoop, resolved, status, held>>

\* The response has the id of a result that is a container.
LoopRespond ==
  /\ loop.step = "respond"
  /\ Become(loop.req, "answered")
  /\ Give(loop.req, "var", IF loop.container THEN loop.id ELSE 0)
  /\ loop' = LoopIdle
  /\ UNCHANGED <<UnchangedByLoop, resolved, maps>>

LoopStep == LoopTake \/ LoopLookUp \/ LoopAdd \/ LoopRespond

-----------------------------------------------------------------------------
\* The writer thread.

UnchangedByWriter == <<pydevd, request, status, server, loop>>

Takes(m) ==
  /\ writer.step = "idle" /\ outgoing # <<>>
  /\ Head(outgoing).msg = m
  /\ outgoing' = Tail(outgoing)

\* on_pydevd_thread_suspend: the stack is stored, then "stopped" is sent.
TakeSuspend ==
  LET m == Head(outgoing) IN
  /\ Takes("suspend")
  /\ stackTraces' = [stackTraces EXCEPT ![m.tid] = m.frame]
  /\ writer' = [WriterIdle EXCEPT !.step = "stopped", !.tid = m.tid, !.stop = m.stop]
  /\ UNCHANGED <<UnchangedByWriter, maps, resolved, client>>

SendStopped ==
  /\ writer.step = "stopped"
  /\ view' = [view EXCEPT ![writer.tid] = writer.stop]
  /\ writer' = WriterIdle
  /\ UNCHANGED <<UnchangedByWriter, outgoing, stackTraces, maps, resolved, held>>

\* on_pydevd_thread_run: the stack ...
TakeRun ==
  LET t == Head(outgoing).tid IN
  /\ Takes("run")
  /\ stackTraces' = [stackTraces EXCEPT ![t] = NoFrame]
  /\ writer' = [WriterIdle EXCEPT !.step = "framePairs", !.tid = t]
  /\ late' = late \ {t}
  /\ UNCHANGED <<UnchangedByWriter, frameMap, varMap, varIds, nextId, doubled, resolved, client>>

\* ... the frames, then the variables, from a snapshot of the pairs ...
Owned(m, t) == {i \in DOMAIN m : m[i].tid = t}

\* mutant: the frames of every thread
FramePairsAll ==
  /\ writer.step = "framePairs"
  /\ writer' = [writer EXCEPT !.step = "frames", !.doomed = DOMAIN frameMap]
  /\ UNCHANGED <<UnchangedByWriter, outgoing, stackTraces, maps, resolved, client>>

FramePairs ==
  /\ writer.step = "framePairs"
  /\ writer' = [writer EXCEPT !.step = "frames", !.doomed = Owned(frameMap, writer.tid)]
  /\ UNCHANGED <<UnchangedByWriter, outgoing, stackTraces, maps, resolved, client>>

RemoveFrame(i) ==
  /\ writer.step = "frames" /\ i \in writer.doomed
  /\ frameMap' = Without(frameMap, i)
  /\ writer' = [writer EXCEPT !.doomed = @ \ {i}]
  /\ UNCHANGED <<UnchangedByWriter, outgoing, stackTraces, varMap, varIds, nextId, resolved,
                 client, late, doubled>>

\* mutant: the variables are kept
VarPairsNone ==
  /\ writer.step = "frames" /\ writer.doomed = {}
  /\ writer' = [writer EXCEPT !.step = "vars", !.doomed = {}]
  /\ UNCHANGED <<UnchangedByWriter, outgoing, stackTraces, maps, resolved, client>>

VarPairs ==
  /\ writer.step = "frames" /\ writer.doomed = {}
  /\ writer' = [writer EXCEPT !.step = "vars",
                             !.doomed = {i \in Range(varIds) : varMap[i].tid = writer.tid}]
  /\ UNCHANGED <<UnchangedByWriter, outgoing, stackTraces, maps, resolved, client>>

\* The id of the pair leaves the one dictionary and its key, whatever its id is by now,
\* the other.
RemoveVar(i) ==
  /\ writer.step = "vars" /\ i \in writer.doomed
  /\ varMap' = Without(varMap, i)
  /\ varIds' = Without(varIds, varMap[i])
  /\ writer' = [writer EXCEPT !.doomed = @ \ {i}]
  /\ UNCHANGED <<UnchangedByWriter, outgoing, stackTraces, frameMap, nextId, resolved,
                 client, late, doubled>>

\* ... and "continued" is sent.
SendContinued ==
  /\ writer.step = "vars" /\ writer.doomed = {}
  /\ view' = [view EXCEPT ![writer.tid] = 0]
  /\ held' = {h \in held : h.tid # writer.tid}
  /\ writer' = WriterIdle
  /\ UNCHANGED <<UnchangedByWriter, outgoing, stackTraces, maps, resolved>>

TakeReply ==
  /\ Takes("reply")
  /\ resolved' = Append(resolved, Head(outgoing))
  /\ UNCHANGED <<UnchangedByWriter, stackTraces, maps, writer, client>>

WriterStep ==
  \/ TakeSuspend \/ SendStopped \/ TakeRun \/ FramePairs \/ VarPairs
  \/ (\E i \in writer.doomed : RemoveFrame(i) \/ RemoveVar(i))
  \/ SendContinued \/ TakeReply

-----------------------------------------------------------------------------
Next ==
  \/ \E t \in Tid : (\E f \in Frame : Enter(t, f)) \/ Announce(t) \/ Resume(t)
  \/ \E t \in Asked : Ask(t)
  \/ \E r \in DOMAIN request : Execute(r)
  \/ ServerStep \/ LoopStep \/ WriterStep

\* ptvsd's threads, and a thread of the debuggee in do_wait_suspend, which polls; neither
\* the client nor the debuggee owes anything else.
Waits(t) == Announce(t) \/ \E r \in DOMAIN request : status[r].key.tid = t /\ Execute(r)
Fairness ==
  /\ WF_vars(ServerStep) /\ WF_vars(LoopStep) /\ WF_vars(WriterStep)
  /\ \A t \in Tid : WF_vars(Waits(t))

Spec == Init /\ [][Next]_vars /\ Fairness

-----------------------------------------------------------------------------
Stage == {"sent", "handled", "posted", "executed", "answered", "refused", "dropped"}

\* The two dictionaries of var_map agree, as far as they can: a key has one id, and
\* another that is left of the time when two threads were adding it.
VarMapOK ==
  /\ DOMAIN varMap \subseteq Id /\ Range(varMap) \subseteq VarKey
  /\ \A key \in DOMAIN varIds : varIds[key] \in DOMAIN varMap /\ varMap[varIds[key]] = key
  /\ \A i \in DOMAIN varMap : varMap[i] \in doubled \/ (varMap[i] \in DOMAIN varIds /\ varIds[varMap[i]] = i)

TypeOK ==
  /\ phase \in [Tid -> {"run", "enter", "wait"}]
  /\ at \in [Tid -> Frame \cup {NoFrame}]
  /\ stops \in [Tid -> 0..MaxStops]
  /\ stackTraces \in [Tid -> Frame \cup {NoFrame}]
  /\ DOMAIN frameMap \subseteq Id /\ Range(frameMap) \subseteq FrameKey
  /\ IsInjective(frameMap)
  /\ VarMapOK
  /\ nextId \in [frame : 1..(MaxRequests + 1), var : 1..(MaxRequests + 1)]
  /\ \A r \in DOMAIN request :
       /\ request[r] \in [kind : Kind, tid : Tid, id : 0..MaxRequests, view : 1..MaxStops]
       /\ status[r].is \in Stage
       /\ status[r].is \in {"posted", "executed"} => status[r].key \in VarKey
  /\ view \in [Tid -> 0..MaxStops]
  /\ held \subseteq [tid : Tid, kind : {"frame", "var"}, id : Id]
  /\ late \subseteq Tid /\ doubled \subseteq VarKey

\* t is at the stop of which the client was last told.
Shown(t) == view[t] # 0 /\ phase[t] # "run" /\ stops[t] = view[t]

\* What a client holds of the stop it was told of.  The stack is the one of that stop,
\* not none and not an earlier one (on_pydevd_thread_suspend stores it before it sends
\* the event); and the ids it was given since then stand for the frame in which the
\* thread is and its variables, whatever the other threads do.
HeldIdsResolve ==
  /\ \A t \in Tid : Shown(t) => stackTraces[t] = at[t]
  /\ \A h \in held : Shown(h.tid) =>
       LET m == IF h.kind = "frame" THEN frameMap ELSE varMap IN
         h.id \in DOMAIN m /\ m[h.id].tid = h.tid /\ m[h.id].frame = at[h.tid]

\* t has run since it stopped, and its run message has been handled.
Cleared(t) == stackTraces[t] = NoFrame /\ writer.tid # t

\* Nothing is kept of a thread that runs, with two exceptions: a handler was making an id
\* for it while the run message was handled; and a variable that the server thread and
\* the event loop added at the same time, whose first id nothing removes any more.
IdsCleared ==
  \A t \in Tid \ late : Cleared(t) =>
    Owned(frameMap, t) = {} /\ \A i \in Owned(varMap, t) : varMap[i] \in doubled

Is(r, stage) == r \in DOMAIN request /\ status[r].is = stage
Resumed(r) ==
  /\ r \in DOMAIN request
  /\ phase[request[r].tid] = "run" \/ stops[request[r].tid] # request[r].view

\* A request about a stopped thread is answered with success unless the thread
\* resumes in the meantime.
AnsweredUnlessResumed ==
  \A r \in Req : Is(r, "sent") ~> (Is(r, "answered") \/ Resumed(r))
=============================================================================
