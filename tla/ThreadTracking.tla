---------------------------- MODULE ThreadTracking ----------------------------
(***************************************************************************)
(* How the client of ptvsd learns which threads exist: the handlers of     *)
(* ptvsd/wrapper.py for CMD_THREAD_CREATE, _SUSPEND, _RUN and _KILL on     *)
(* pydevd's writer thread, and the rest of on_threads, after its yield, on *)
(* the event loop thread.  Both change thread_map and send events.         *)
(*                                                                         *)
(* A look-up, an add and a send are steps of their own.  The two           *)
(* assignments of add and the two of remove are one step: these handlers   *)
(* look threads up by their pydevd id only, in the dictionary that both    *)
(* change last.                                                            *)
(*                                                                         *)
(* pydevd is here what it does to its threads and to the order of its      *)
(* messages (process_internal_commands, do_wait_suspend,                   *)
(* make_list_threads_message).                                             *)
(***************************************************************************)
EXTENDS Naturals, Sequences, FiniteSets, Functions

CONSTANTS
  Tid,          \* pydevd thread ids
  Internal,     \* those whose names start with "pydevd." or "ptvsd."
  NoTid,
  MaxThreads,   \* bound: threads requests
  MaxStops,     \* bound: suspensions of a thread
  MaxId         \* bound: ids of thread_map

ASSUME InternalAssumption == Internal \subseteq Tid
ASSUME NoTidAssumption == NoTid \notin Tid
ASSUME BoundAssumption == MaxThreads \in Nat /\ MaxStops \in Nat /\ MaxId \in Nat

VARIABLES
  life,        \* Tid -> "unborn", "new" (runs, not noticed), "known" (in
               \* _running_thread_ids), "stopped" (in do_wait_suspend), "ended" (known,
               \* has ended), "dead" (its end noticed), "missed" (ended unnoticed)
  stops,       \* Tid -> suspensions so far
  listing,     \* CMD_LIST_THREADS requests pydevd has still to read
  outgoing,    \* WriterThread.cmdQueue
  toPydevd,    \* thread_map._vscode_to_pydevd
  toVscode,    \* thread_map._pydevd_to_vscode
  nextId,      \* thread_map._next_id
  writer,      \* what the writer thread is doing: step, thread, id
  replies,     \* replies whose future is resolved: the loop's queue
  loop,        \* what the loop thread is doing: step, threads to go, thread, id
  asked,       \* history: threads requests made
  answered,    \* history: threads requests answered
  failed,      \* history: those whose handler has raised instead
  shown,       \* ids the client shows: "started" and not "exited" since
  idsOf,       \* history: Tid -> ids sent as "started" for it
  crossed      \* history: threads whose create or kill was handled while a list
               \* naming them was on its way

pydevd == <<life, stops, listing>>
map == <<toPydevd, toVscode, nextId>>
client == <<asked, answered, failed, shown, idsOf>>
trackingVars == <<pydevd, outgoing, map, writer, replies, loop, client, crossed>>

Id == 1..MaxId
Idle == [at |-> "idle", tid |-> NoTid, id |-> 0]
LoopIdle == [at |-> "idle", todo |-> {}, tid |-> NoTid, id |-> 0]

\* The text of an error: no thread is in it.
NoList == {NoTid}
ListReply == (SUBSET Tid) \cup {NoList}

Event(m, t) == [msg |-> m, tid |-> t]
List(T) == [msg |-> "list", tids |-> T]
Message == [msg : {"create", "suspend", "run", "kill"}, tid : Tid]
           \cup [msg : {"list"}, tids : ListReply]

TrackingInit ==
  /\ life = [t \in Tid |-> "unborn"]
  /\ stops = [t \in Tid |-> 0]
  /\ listing = 0
  /\ outgoing = <<>>
  /\ toPydevd = [i \in {} |-> NoTid]
  /\ toVscode = [t \in {} |-> 0]
  /\ nextId = 1
  /\ writer = Idle
  /\ replies = <<>>
  /\ loop = LoopIdle
  /\ asked = 0
  /\ answered = 0
  /\ failed = 0
  /\ shown = {}
  /\ idsOf = [t \in Tid |-> {}]
  /\ crossed = {}

-----------------------------------------------------------------------------
\* pydevd and the debuggee.

Alive(t) == life[t] \in {"new", "known", "stopped"}

Become(t, stage) == life' = [life EXCEPT ![t] = stage]
Post(m) == outgoing' = Append(outgoing, m)

Start(t) ==
  /\ life[t] = "unborn"
  /\ Become(t, "new")
  /\ UNCHANGED <<stops, listing, outgoing, map, writer, replies, loop, client, crossed>>

\* process_internal_commands meets a thread for the first time.
Notice(t) ==
  /\ life[t] = "new"
  /\ Become(t, "known")
  /\ Post(Event("create", t))
  /\ UNCHANGED <<stops, listing, map, writer, replies, loop, client, crossed>>

\* The thread ends; nothing is sent for one that was never noticed.
End(t) ==
  /\ life[t] \in {"new", "known"}
  /\ Become(t, IF life[t] = "new" THEN "missed" ELSE "ended")
  /\ UNCHANGED <<stops, listing, outgoing, map, writer, replies, loop, client, crossed>>

\* _process_thread_not_alive
NoticeEnd(t) ==
  /\ life[t] = "ended"
  /\ Become(t, "dead")
  /\ Post(Event("kill", t))
  /\ UNCHANGED <<stops, listing, map, writer, replies, loop, client, crossed>>

\* do_wait_suspend: it has called process_internal_commands, so the thread is known;
\* the debugger's own threads are not traced.
Suspend(t) ==
  /\ t \notin Internal
  /\ life[t] = "known" /\ stops[t] < MaxStops
  /\ Become(t, "stopped")
  /\ stops' = [stops EXCEPT ![t] = @ + 1]
  /\ Post(Event("suspend", t))
  /\ UNCHANGED <<listing, map, writer, replies, loop, client, crossed>>

Resume(t) ==
  /\ life[t] = "stopped"
  /\ Become(t, "known")
  /\ Post(Event("run", t))
  /\ UNCHANGED <<stops, listing, map, writer, replies, loop, client, crossed>>

\* CMD_LIST_THREADS: all threads that are alive, noticed or not, or an error if listing
\* them has raised.
ListThreads ==
  /\ listing > 0
  /\ listing' = listing - 1
  /\ \E T \in {{t \in Tid : Alive(t)}, NoList} : Post(List(T))
  /\ UNCHANGED <<life, stops, map, writer, replies, loop, client, crossed>>

-----------------------------------------------------------------------------
\* thread_map, see IDMap.

Known(t) == t \in DOMAIN toVscode

\* mutant: the next id is advanced twice
AddThreadSkips(t) ==
  /\ nextId <= MaxId
  /\ nextId' = nextId + 2
  /\ toPydevd' = [i \in DOMAIN toPydevd \cup {nextId} |->
                    IF i = nextId THEN t ELSE toPydevd[i]]
  /\ toVscode' = [u \in DOMAIN toVscode \cup {t} |->
                    IF u = t THEN nextId ELSE toVscode[u]]

AddThread(t) ==
  /\ nextId <= MaxId
  /\ nextId' = nextId + 1
  /\ toPydevd' = [i \in DOMAIN toPydevd \cup {nextId} |->
                    IF i = nextId THEN t ELSE toPydevd[i]]
  /\ toVscode' = [u \in DOMAIN toVscode \cup {t} |->
                    IF u = t THEN nextId ELSE toVscode[u]]

RemoveThread(t, id) ==
  /\ toPydevd' = Restrict(toPydevd, DOMAIN toPydevd \ {id})
  /\ toVscode' = Restrict(toVscode, DOMAIN toVscode \ {t})
  /\ UNCHANGED nextId

SendStarted(t, id) ==
  /\ shown' = shown \cup {id}
  /\ idsOf' = [idsOf EXCEPT ![t] = @ \cup {id}]

\* A list that names t is in the queue, resolved, or being worked on.
Listed(t) ==
  \/ \E i \in DOMAIN outgoing : outgoing[i].msg = "list" /\ t \in outgoing[i].tids
  \/ \E i \in DOMAIN replies : t \in replies[i]
  \/ t \in loop.todo \cup {loop.tid}

Cross(t) == crossed' = IF Listed(t) THEN crossed \cup {t} ELSE crossed

-----------------------------------------------------------------------------
\* The writer thread: PydevdSocket.send and the event handlers.

Take(m) ==
  /\ writer.at = "idle"
  /\ outgoing # <<>>
  /\ Head(outgoing).msg = m
  /\ outgoing' = Tail(outgoing)

\* mutant: a thread seen for the first time is left to the next threads request
TakeCreateLate ==
  /\ Take("create")
  /\ writer' = LET t == Head(outgoing).tid IN
               IF Known(t) THEN [at |-> "started", tid |-> t, id |-> toVscode[t]] ELSE Idle
  /\ Cross(Head(outgoing).tid)
  /\ UNCHANGED <<pydevd, map, replies, loop, client>>

\* on_pydevd_thread_create: is_debugger_internal_thread, then the look-up.
TakeCreate ==
  /\ Take("create")
  /\ LET t == Head(outgoing).tid IN
       writer' = CASE t \in Internal -> Idle
                   [] t \notin Internal /\ Known(t) ->
                        [at |-> "started", tid |-> t, id |-> toVscode[t]]
                   [] OTHER -> [at |-> "add", tid |-> t, id |-> 0]
  /\ Cross(Head(outgoing).tid)
  /\ UNCHANGED <<pydevd, map, replies, loop, client>>

CreateAdd ==
  /\ writer.at = "add"
  /\ AddThread(writer.tid)
  /\ Cross(writer.tid)
  /\ writer' = [writer EXCEPT !.at = "started", !.id = nextId]
  /\ UNCHANGED <<pydevd, outgoing, replies, loop, client>>

CreateSend ==
  /\ writer.at = "started"
  /\ SendStarted(writer.tid, writer.id)
  /\ writer' = Idle
  /\ UNCHANGED <<pydevd, outgoing, map, replies, loop, asked, answered, failed, crossed>>

\* on_pydevd_thread_kill: a thread without an id is ignored.
TakeKill ==
  /\ Take("kill")
  /\ LET t == Head(outgoing).tid IN
       /\ writer' = IF Known(t) THEN [at |-> "remove", tid |-> t, id |-> toVscode[t]]
                    ELSE Idle
       /\ Cross(t)
  /\ UNCHANGED <<pydevd, map, replies, loop, client>>

\* mutant: the client is not told
KillRemoveSilent ==
  /\ writer.at = "remove"
  /\ RemoveThread(writer.tid, writer.id)
  /\ writer' = Idle
  /\ UNCHANGED <<pydevd, outgoing, replies, loop, client, crossed>>

KillRemove ==
  /\ writer.at = "remove"
  /\ RemoveThread(writer.tid, writer.id)
  /\ writer' = [writer EXCEPT !.at = "exited"]
  /\ UNCHANGED <<pydevd, outgoing, replies, loop, client, crossed>>

KillSend ==
  /\ writer.at = "exited"
  /\ shown' = shown \ {writer.id}
  /\ writer' = Idle
  /\ UNCHANGED <<pydevd, outgoing, map, replies, loop, asked, answered, failed, idsOf, crossed>>

\* on_pydevd_thread_suspend and _run: the look-up; nothing for an unknown thread.
TakeStopOrRun(m, at) ==
  /\ Take(m)
  /\ LET t == Head(outgoing).tid IN
       writer' = IF Known(t) THEN [at |-> at, tid |-> t, id |-> toVscode[t]] ELSE Idle
  /\ UNCHANGED <<pydevd, map, replies, loop, client, crossed>>

\* send_event('stopped', ...), send_event('continued', ...)
StopOrRunSend ==
  /\ writer.at \in {"stopped", "continued"}
  /\ writer' = Idle
  /\ UNCHANGED <<pydevd, outgoing, map, replies, loop, client, crossed>>

\* A reply, the text of an error too: loop.call_soon_threadsafe(fut.set_result, ...).
TakeList ==
  /\ Take("list")
  /\ replies' = Append(replies, Head(outgoing).tids)
  /\ UNCHANGED <<pydevd, map, writer, loop, client, crossed>>

WriterStep ==
  \/ TakeCreate \/ CreateAdd \/ CreateSend \/ TakeKill \/ KillRemove \/ KillSend
  \/ TakeStopOrRun("suspend", "stopped") \/ TakeStopOrRun("run", "continued")
  \/ StopOrRunSend \/ TakeList

-----------------------------------------------------------------------------
\* on_threads: the request, on the server thread ...
ThreadsRequest ==
  /\ asked < MaxThreads
  /\ asked' = asked + 1
  /\ listing' = listing + 1
  /\ UNCHANGED <<life, stops, outgoing, map, writer, replies, loop,
                 answered, failed, shown, idsOf, crossed>>

\* ... and the rest of the handler on the event loop, one thread of the list after
\* the other.
LoopTake ==
  /\ loop.at = "idle"
  /\ replies # <<>>
  /\ Head(replies) # NoList
  /\ loop' = [LoopIdle EXCEPT !.at = "next", !.todo = Head(replies) \ Internal]
  /\ replies' = Tail(replies)
  /\ UNCHANGED <<pydevd, outgoing, map, writer, client, crossed>>

\* untangle.parse raises on the text of an error: the generator ends, done() prints the
\* traceback and nobody answers the request.
LoopFail ==
  /\ loop.at = "idle"
  /\ replies # <<>>
  /\ Head(replies) = NoList
  /\ replies' = Tail(replies)
  /\ failed' = failed + 1
  /\ UNCHANGED <<pydevd, outgoing, map, writer, loop, asked, answered, shown, idsOf, crossed>>

\* The first look-up: a miss means "a previously unseen thread".
LoopLookup(t) ==
  /\ loop.at = "next"
  /\ t \in loop.todo
  /\ loop' = [loop EXCEPT !.todo = @ \ {t},
                          !.tid = IF Known(t) THEN NoTid ELSE t,
                          !.at = IF Known(t) THEN "next" ELSE "unseen"]
  /\ UNCHANGED <<pydevd, outgoing, map, writer, replies, client, crossed>>

\* The second look-up, of to_vscode(autogen=True).
LoopAgain ==
  /\ loop.at = "unseen"
  /\ loop' = IF Known(loop.tid)
             THEN [loop EXCEPT !.at = "started", !.id = toVscode[loop.tid]]
             ELSE [loop EXCEPT !.at = "add"]
  /\ UNCHANGED <<pydevd, outgoing, map, writer, replies, client, crossed>>

LoopAdd ==
  /\ loop.at = "add"
  /\ AddThread(loop.tid)
  /\ loop' = [loop EXCEPT !.at = "started", !.id = nextId]
  /\ UNCHANGED <<pydevd, outgoing, writer, replies, client, crossed>>

LoopSend ==
  /\ loop.at = "started"
  /\ SendStarted(loop.tid, loop.id)
  /\ loop' = [loop EXCEPT !.at = "next", !.tid = NoTid, !.id = 0]
  /\ UNCHANGED <<pydevd, outgoing, map, writer, replies, asked, answered, failed,
                 crossed>>

LoopRespond ==
  /\ loop.at = "next"
  /\ loop.todo = {}
  /\ loop' = LoopIdle
  /\ answered' = answered + 1
  /\ UNCHANGED <<pydevd, outgoing, map, writer, replies, asked, failed,
                 shown, idsOf, crossed>>

LoopStep ==
  \/ LoopTake \/ LoopFail \/ (\E t \in loop.todo : LoopLookup(t))
  \/ LoopAgain \/ LoopAdd \/ LoopSend \/ LoopRespond

-----------------------------------------------------------------------------
TrackingNext ==
  \/ \E t \in Tid :
       Start(t) \/ Notice(t) \/ End(t) \/ NoticeEnd(t) \/ Suspend(t) \/ Resume(t)
  \/ ListThreads
  \/ WriterStep
  \/ ThreadsRequest
  \/ LoopStep

\* pydevd's reader, its writer and the event loop are scheduled; its command thread
\* polls every half second.
TrackingFairness ==
  /\ WF_trackingVars(ListThreads) /\ WF_trackingVars(WriterStep) /\ WF_trackingVars(LoopStep)
  /\ \A t \in Tid : WF_trackingVars(Notice(t)) /\ WF_trackingVars(NoticeEnd(t))

TrackingSpec == TrackingInit /\ [][TrackingNext]_trackingVars /\ TrackingFairness

-----------------------------------------------------------------------------
TrackingTypeOK ==
  /\ life \in [Tid -> {"unborn", "new", "known", "stopped",
                     "ended", "dead", "missed"}]
  /\ stops \in [Tid -> 0..MaxStops]
  /\ listing \in 0..MaxThreads
  /\ outgoing \in Seq(Message)
  /\ DOMAIN toPydevd \subseteq Id /\ Range(toPydevd) \subseteq Tid
  /\ DOMAIN toVscode \subseteq Tid /\ Range(toVscode) \subseteq Id
  /\ nextId \in 1..(MaxId + 1)
  /\ writer \in [at : {"idle", "add", "started", "remove", "exited", "stopped", "continued"},
                 tid : Tid \cup {NoTid}, id : 0..MaxId]
  /\ replies \in Seq(ListReply)
  /\ loop \in [at : {"idle", "next", "unseen", "add", "started"},
               todo : SUBSET Tid, tid : Tid \cup {NoTid}, id : 0..MaxId]
  /\ asked \in 0..MaxThreads /\ answered \in 0..MaxThreads /\ failed \in 0..MaxThreads
  /\ shown \subseteq Id
  /\ idsOf \in [Tid -> SUBSET Id]
  /\ crossed \subseteq Tid

\* Every message has been handled.
Settled == outgoing = <<>> /\ writer = Idle /\ replies = <<>> /\ loop = LoopIdle

\* What the client knows of the threads.  A "stopped" or "continued" event names a thread
\* that it has been told of by a "started" event before, although any other handler may
\* interleave; and a thread that has ended is not shown any more once every message is
\* handled.  There are two exceptions: pydevd never noticed the thread, or its create
\* or kill message crossed a list of threads on the way to the event loop.
NoGhostThreads ==
  /\ writer.at \in {"stopped", "continued"} /\ writer.tid \notin crossed
       => writer.id \in shown
  /\ Settled => \A t \in Tid \ crossed :
                  life[t] = "dead" => idsOf[t] \cap shown = {}

\* Every thread of the debuggee that pydevd notices is announced to the client, also if
\* it was listed first; and every threads request is answered, except one for each list
\* that pydevd could not make: that request is never answered at all.
EveryThreadStarted ==
  /\ \A t \in Tid \ Internal : (life[t] = "known") ~> (idsOf[t] # {})
  /\ \A n \in 1..MaxThreads : (asked >= n) ~> (answered + failed >= n)
=============================================================================
