----------------------------- MODULE FramesProofs -----------------------------
(***************************************************************************)
(* Proofs about Frames for any threads and frames and all bounds: types,   *)
(* that what the client holds of the stop it was told of resolves to that  *)
(* stop, and that nothing is kept of a thread that runs.                   *)
(***************************************************************************)
EXTENDS Frames, SequenceTheorems, TLAPS

TableOf(A, S) == UNION {[D -> S] : D \in SUBSET A}
FrameTable == TableOf(Id, FrameKey)
VarTable == TableOf(Id, VarKey)
VarIdTable == TableOf(VarKey, Id)

Reply == [msg : {"reply"}, req : Req, ok : BOOLEAN, container : BOOLEAN]
Message == [msg : {"suspend"}, tid : Tid, frame : Frame, stop : 1..MaxStops]
           \cup [msg : {"run"}, tid : Tid] \cup Reply
Request == [kind : Kind, tid : Tid, id : 0..MaxRequests, view : 1..MaxStops]
Status == [is : Stage, key : VarKey \cup {NoKey}, id : 0..MaxRequests]

PydevdTypes ==
  /\ phase \in [Tid -> {"run", "enter", "wait"}]
  /\ at \in [Tid -> Frame \cup {NoFrame}]
  /\ stops \in [Tid -> 0..MaxStops]

ClientTypes ==
  /\ stackTraces \in [Tid -> Frame \cup {NoFrame}]
  /\ view \in [Tid -> 0..MaxStops]
  /\ held \subseteq [tid : Tid, kind : {"frame", "var"}, id : Id]
  /\ late \subseteq Tid

\* The two dictionaries of var_map agree about every key that was not doubled.
VarIdsAgree ==
  /\ varIds \in VarIdTable /\ doubled \subseteq VarKey
  /\ \A key \in DOMAIN varIds : varIds[key] \in DOMAIN varMap /\ varMap[varIds[key]] = key
  /\ \A i \in DOMAIN varMap :
       \/ varMap[i] \in doubled
       \/ varMap[i] \in DOMAIN varIds /\ varIds[varMap[i]] = i

\* The ids given out are below the next one.
MapTypes ==
  /\ frameMap \in FrameTable /\ varMap \in VarTable
  /\ IsInjective(frameMap) /\ VarIdsAgree
  /\ nextId \in [frame : 1..(MaxRequests + 1), var : 1..(MaxRequests + 1)]
  /\ \A i \in DOMAIN frameMap : i < nextId.frame
  /\ \A i \in DOMAIN varMap : i < nextId.var

RequestTypes ==
  /\ request \in Seq(Request) /\ status \in Seq(Status)
  /\ Len(request) <= MaxRequests /\ Len(status) = Len(request)
  /\ \A r \in DOMAIN request : status[r].is \in {"posted", "executed"} => status[r].key \in VarKey

\* A reply belongs to a request that was posted.
Replied(m) == m.req \in DOMAIN request /\ status[m.req].key \in VarKey

QueueTypes ==
  /\ outgoing \in Seq(Message) /\ resolved \in Seq(Reply)
  /\ \A i \in DOMAIN outgoing : outgoing[i].msg = "reply" => Replied(outgoing[i])
  /\ \A i \in DOMAIN resolved : Replied(resolved[i])

\* The key that on_stackTrace takes from a stack, or from none.
StackKey == [tid : Tid, frame : Frame \cup {NoFrame}]

ServerTypes ==
  /\ server \in [step : {"idle", "frame", "var", "add", "respond"}, req : 0..MaxRequests,
                 key : StackKey \cup VarKey \cup {NoKey}, id : 0..MaxRequests]
  /\ server.step # "idle" => server.req \in DOMAIN request
  /\ server.step = "frame" => server.key \in FrameKey /\ request[server.req].kind = "stackTrace"
  /\ server.step \in {"var", "add"} => server.key \in VarKey

LoopTypes ==
  /\ loop \in [step : {"idle", "var", "add", "respond"}, req : 0..MaxRequests,
               key : VarKey \cup {NoKey}, id : 0..MaxRequests, container : BOOLEAN]
  /\ loop.step # "idle" => loop.req \in DOMAIN request
  /\ loop.step \in {"var", "add"} => loop.key \in VarKey

Clearing == {"framePairs", "frames", "vars"}
WriterTypes ==
  /\ writer \in [step : {"idle", "stopped"} \cup Clearing, tid : Tid \cup {"none"},
                 stop : 0..MaxStops, doomed : SUBSET Id]
  /\ writer.step # "idle" => writer.tid \in Tid
  /\ writer.step = "stopped" => writer.stop \in 1..MaxStops

\* A key that a thread is about to add, and that has an id by now, is marked.
AddInv ==
  /\ server.step = "add" /\ server.key \in DOMAIN varIds => server.key \in doubled
  /\ loop.step = "add" /\ loop.key \in DOMAIN varIds => loop.key \in doubled

TypeInv ==
  /\ PydevdTypes /\ ClientTypes /\ MapTypes /\ RequestTypes /\ QueueTypes
  /\ ServerTypes /\ LoopTypes /\ WriterTypes

-----------------------------------------------------------------------------
\* The order of the messages about a thread.
IsSuspend(m, t) == m.msg = "suspend" /\ m.tid = t
IsRun(m, t) == m.msg = "run" /\ m.tid = t
Working(t) == writer.step # "idle" /\ writer.tid = t

\* Thread t has been at the stop n, which may still go on and which no request is about.
Reached(t, n) == n <= stops[t] /\ (phase[t] = "enter" => n < stops[t])
Untold(t, n) == \A r \in DOMAIN request : request[r].tid = t => request[r].view < n

\* No message about t is on its way.
Nothing(t) == \A i \in DOMAIN outgoing : ~IsSuspend(outgoing[i], t) /\ ~IsRun(outgoing[i], t)

\* Message i, about a stop of t, is in order.
Coming(i, t) ==
  LET m == outgoing[i] IN
  /\ Reached(t, m.stop) /\ Untold(t, m.stop) /\ view[t] < m.stop
  /\ writer.step = "stopped" /\ writer.tid = t => writer.stop < m.stop
  /\ \A j \in DOMAIN outgoing : IsSuspend(outgoing[j], t) /\ j < i => outgoing[j].stop < m.stop
  /\ phase[t] = "wait" /\ m.stop = stops[t] =>
       /\ m.frame = at[t]
       /\ \A j \in DOMAIN outgoing : i < j => ~IsSuspend(outgoing[j], t) /\ ~IsRun(outgoing[j], t)

\* What is known of the stops of a thread and of the messages about them, ...
ThreadStop(t) ==
  /\ Reached(t, view[t])
  /\ phase[t] = "run" <=> at[t] = NoFrame
  /\ phase[t] # "run" => stops[t] > 0
  /\ \A i \in DOMAIN outgoing : IsSuspend(outgoing[i], t) => Coming(i, t)
  /\ Shown(t) => stackTraces[t] = at[t] /\ Nothing(t) /\ ~Working(t)

\* ... of the stop that a request is about, ...
RequestStop(r) == Reached(request[r].tid, request[r].view)

\* ... and of the stop n of t, of which the writer is about to tell the client.
ToldNext(t, n) ==
  /\ Reached(t, n) /\ Untold(t, n) /\ view[t] = 0
  /\ stackTraces[t] # NoFrame
  /\ phase[t] = "wait" /\ n = stops[t] => stackTraces[t] = at[t] /\ Nothing(t)

StopInv ==
  /\ \A t \in Tid : ThreadStop(t)
  /\ \A r \in DOMAIN request : RequestStop(r)
  /\ writer.step = "stopped" => ToldNext(writer.tid, writer.stop)

\* A "run" is on its way between two stops of which the client is told.
Open(t) == (view[t] # 0 /\ ~(Working(t) /\ writer.step \in Clearing))
           \/ (Working(t) /\ writer.step = "stopped")
RunBetween(i, j, t) ==
  \E k \in DOMAIN outgoing : i < k /\ k < j /\ IsRun(outgoing[k], t)

ThreadOrder(t) ==
  /\ \A i \in DOMAIN outgoing : IsSuspend(outgoing[i], t) =>
       /\ Open(t) => RunBetween(0, i, t)
       /\ \A j \in DOMAIN outgoing : IsSuspend(outgoing[j], t) /\ i < j => RunBetween(i, j, t)
  /\ phase[t] # "wait" =>
       /\ Open(t) => \E k \in DOMAIN outgoing : IsRun(outgoing[k], t)
       /\ \A i \in DOMAIN outgoing : IsSuspend(outgoing[i], t) =>
            \E k \in DOMAIN outgoing : i < k /\ IsRun(outgoing[k], t)
  /\ view[t] = 0 => \A h \in held : h.tid # t

OrderInv == \A t \in Tid : ThreadOrder(t)

-----------------------------------------------------------------------------
\* Ids and keys of the stop that goes on.
OfStop(k, t) == k.tid = t /\ k.frame = at[t]
Stands(m, i, t) == i \in DOMAIN m /\ OfStop(m[i], t)
Live(r) == Shown(request[r].tid) /\ request[r].view = view[request[r].tid]

HeldInv == \A h \in held : Shown(h.tid) =>
             Stands(IF h.kind = "frame" THEN frameMap ELSE varMap, h.id, h.tid)

AskedInv ==
  \A r \in DOMAIN request : Live(r) =>
    LET t == request[r].tid IN
    /\ request[r].kind \in {"scopes", "evaluate"} => Stands(frameMap, request[r].id, t)
    /\ request[r].kind \in {"variables", "setVariable"} => Stands(varMap, request[r].id, t)
    /\ status[r].key \in VarKey => OfStop(status[r].key, t)
    /\ status[r].id # 0 => Stands(varMap, status[r].id, t)

ServerInv ==
  server.step # "idle" /\ Live(server.req) =>
    LET t == request[server.req].tid IN
    /\ server.step # "respond" => OfStop(server.key, t)
    /\ server.step = "respond" /\ server.id # 0 =>
         Stands(IF request[server.req].kind = "scopes" THEN varMap ELSE frameMap, server.id, t)

LoopInv ==
  loop.step # "idle" /\ Live(loop.req) =>
    LET t == request[loop.req].tid IN
    /\ loop.step \in {"var", "add"} => OfStop(loop.key, t)
    /\ loop.step = "respond" /\ loop.id # 0 => Stands(varMap, loop.id, t)

ResolveInv == HeldInv /\ AskedInv /\ ServerInv /\ LoopInv

\* The variables of t whose keys were not doubled.
Single(t) == {i \in Owned(varMap, t) : varMap[i] \notin doubled}

\* What the writer still has to remove of the thread it works on.
ClearInv ==
  /\ writer.step = "frames" => writer.doomed \subseteq Owned(frameMap, writer.tid)
  /\ writer.step = "vars" => writer.doomed \subseteq Owned(varMap, writer.tid)
  /\ writer.step \in Clearing => stackTraces[writer.tid] = NoFrame
  /\ \A t \in Tid \ late :
       /\ stackTraces[t] = NoFrame /\ ~Working(t) => Owned(frameMap, t) = {} /\ Single(t) = {}
       /\ Working(t) /\ writer.step = "frames" => Owned(frameMap, t) \subseteq writer.doomed
       /\ Working(t) /\ writer.step = "vars" =>
            Owned(frameMap, t) = {} /\ Single(t) \subseteq writer.doomed

IInv == TypeInv /\ AddInv /\ StopInv /\ OrderInv /\ ResolveInv /\ ClearInv

-----------------------------------------------------------------------------
\* Queues and maps.
LEMMA AppendPositions ==
  ASSUME NEW S, NEW q \in Seq(S), NEW e \in S
  PROVE  /\ Append(q, e) \in Seq(S) /\ Len(Append(q, e)) = Len(q) + 1 /\ Len(q) \in Nat
         /\ DOMAIN Append(q, e) = DOMAIN q \cup {Len(q) + 1}
         /\ \A i \in DOMAIN q : i \in Nat /\ 0 < i /\ i < Len(q) + 1 /\ Append(q, e)[i] = q[i]
         /\ Append(q, e)[Len(q) + 1] = e
<1>1. /\ Append(q, e) \in Seq(S) /\ Len(Append(q, e)) = Len(q) + 1
      /\ DOMAIN q = 1..Len(q) /\ Len(q) \in Nat
      /\ DOMAIN Append(q, e) = 1..(Len(q) + 1)
      /\ \A i \in 1..Len(q) : Append(q, e)[i] = q[i]
      /\ Append(q, e)[Len(q) + 1] = e
  BY AppendProperties, LenProperties
<1>2. 1..(Len(q) + 1) = 1..Len(q) \cup {Len(q) + 1}
  BY <1>1
<1> QED
  BY <1>1, <1>2

LEMMA TailPositions ==
  ASSUME NEW S, NEW q \in Seq(S), q # <<>>
  PROVE  /\ Head(q) \in S /\ Tail(q) \in Seq(S)
         /\ 1 \in DOMAIN q /\ q[1] = Head(q)
         /\ \A i \in DOMAIN q : i \in Nat /\ 0 < i
         /\ \A i \in DOMAIN Tail(q) : /\ i \in Nat /\ 0 < i /\ 1 < i + 1
                                      /\ i + 1 \in DOMAIN q /\ Tail(q)[i] = q[i + 1]
         /\ \A i \in DOMAIN q : 1 < i => \E j \in DOMAIN Tail(q) : i = j + 1
<1>1. /\ Head(q) \in S /\ Tail(q) \in Seq(S)
      /\ DOMAIN q = 1..Len(q) /\ Len(q) \in Nat \ {0}
      /\ DOMAIN Tail(q) = 1..(Len(q) - 1)
      /\ \A i \in 1..(Len(q) - 1) : Tail(q)[i] = q[i + 1]
      /\ Head(q) = q[1]
  BY HeadTailProperties, LenProperties, EmptySeq
<1>2. \A i \in DOMAIN Tail(q) : /\ i \in Nat /\ 0 < i /\ 1 < i + 1
                                /\ i + 1 \in DOMAIN q /\ Tail(q)[i] = q[i + 1]
  BY <1>1
<1>3. \A i \in DOMAIN q : 1 < i => \E j \in DOMAIN Tail(q) : i = j + 1
  <2> SUFFICES ASSUME NEW i \in DOMAIN q, 1 < i PROVE i - 1 \in DOMAIN Tail(q) /\ i = (i - 1) + 1
    OBVIOUS
  <2> QED BY <1>1
<1> QED
  BY <1>1, <1>2, <1>3

LEMMA PutTable ==
  ASSUME NEW A, NEW S, NEW m \in TableOf(A, S), NEW n \in A, NEW key \in S
  PROVE  Put(m, n, key) \in TableOf(A, S)
<1>1. PICK D \in SUBSET A : m \in [D -> S]
  BY DEF TableOf
<1>2. Put(m, n, key) \in [D \cup {n} -> S]
  BY <1>1 DEF Put
<1>3. D \cup {n} \in SUBSET A
  OBVIOUS
<1> QED
  BY <1>2, <1>3 DEF TableOf

LEMMA WithoutTable ==
  ASSUME NEW A, NEW S, NEW m \in TableOf(A, S), NEW n
  PROVE  Without(m, n) \in TableOf(A, S)
<1>1. PICK D \in SUBSET A : m \in [D -> S]
  BY DEF TableOf
<1>2. Without(m, n) \in [D \ {n} -> S]
  BY <1>1 DEF Without, Restrict
<1>3. D \ {n} \in SUBSET A
  OBVIOUS
<1> QED
  BY <1>2, <1>3 DEF TableOf

\* An id that is taken is below the next one.
LEMMA NextIdIsNew ==
  ASSUME NEW m, DOMAIN m \subseteq Id, NEW n \in Id, \A i \in DOMAIN m : i < n
  PROVE  n \notin DOMAIN m /\ \A i \in DOMAIN m \cup {n} : i < n + 1
BY DEF Id

\* The id of a key that is in the map.
LEMMA IdOfKey ==
  ASSUME NEW m, NEW key \in Keys(m)
  PROVE  IdOf(m, key) \in DOMAIN m /\ m[IdOf(m, key)] = key
<1>1. \E i \in DOMAIN m : m[i] = key
  BY DEF Keys, Range
<1> QED
  BY <1>1 DEF IdOf

\* to_vscode keeps every id there is, gives one for the key, and marks the thread when
\* there is no stack of it.
LEMMA FrameIdEffect ==
  ASSUME MapTypes, ClientTypes, NEW key \in FrameKey, NEW id \in Id, FrameId(key, id)
  PROVE  /\ MapTypes' /\ UNCHANGED <<varMap, varIds, doubled>> /\ late' \subseteq Tid /\ late \subseteq late'
         /\ DOMAIN frameMap \subseteq DOMAIN frameMap'
         /\ id \in DOMAIN frameMap' /\ frameMap'[id] = key
         /\ \A i \in DOMAIN frameMap : frameMap'[i] = frameMap[i]
         /\ \A i \in DOMAIN frameMap' :
              i \in DOMAIN frameMap \/ (stackTraces[frameMap'[i].tid] = NoFrame => frameMap'[i].tid \in late')
<1>1. key.tid \in Tid /\ UNCHANGED <<varMap, varIds, doubled>>
  BY DEF FrameId, FrameKey
<1>2. CASE key \in Keys(frameMap)
  <2>1. id = IdOf(frameMap, key) /\ UNCHANGED <<frameMap, nextId, late>>
    BY <1>2 DEF FrameId
  <2>2. id \in DOMAIN frameMap /\ frameMap[id] = key
    BY <1>2, <2>1, IdOfKey
  <2> QED
    BY <1>1, <2>1, <2>2 DEF MapTypes, VarIdsAgree, ClientTypes
<1>3. CASE key \notin Keys(frameMap)
  <2>1. /\ id = nextId.frame /\ frameMap' = Put(frameMap, id, key)
        /\ nextId' = [nextId EXCEPT !.frame = nextId.frame + 1]
        /\ late' = IF stackTraces[key.tid] = NoFrame THEN late \cup {key.tid} ELSE late
    BY <1>3 DEF FrameId, Late
  <2>2. frameMap \in TableOf(Id, FrameKey) /\ DOMAIN frameMap \subseteq Id
    BY DEF MapTypes, FrameTable, TableOf
  <2>3. id \notin DOMAIN frameMap /\ \A i \in DOMAIN frameMap \cup {id} : i < id + 1
    BY <2>1, <2>2, NextIdIsNew DEF MapTypes
  <2>4. /\ frameMap' \in FrameTable /\ DOMAIN frameMap' = DOMAIN frameMap \cup {id}
        /\ frameMap'[id] = key /\ \A i \in DOMAIN frameMap : frameMap'[i] = frameMap[i]
    <3>1. Put(frameMap, id, key) \in TableOf(Id, FrameKey)
      BY <2>2, PutTable
    <3>2. /\ DOMAIN Put(frameMap, id, key) = DOMAIN frameMap \cup {id} /\ Put(frameMap, id, key)[id] = key
          /\ \A i \in DOMAIN frameMap : i # id => Put(frameMap, id, key)[i] = frameMap[i]
      BY DEF Put
    <3> QED
      BY <2>1, <2>3, <3>1, <3>2 DEF FrameTable
  <2>5. IsInjective(frameMap')
    <3>1. \A i \in DOMAIN frameMap : frameMap[i] # key
      BY <1>3 DEF Keys, Range
    <3> QED
      BY <2>4, <3>1 DEF MapTypes, IsInjective
  <2>6. /\ nextId' \in [frame : 1..(MaxRequests + 1), var : 1..(MaxRequests + 1)]
        /\ nextId'.frame = id + 1 /\ nextId'.var = nextId.var
    BY <2>1, BoundAssumption DEF MapTypes, Id
  <2>7. MapTypes'
    BY <1>1, <2>3, <2>4, <2>5, <2>6 DEF MapTypes, VarIdsAgree, IsInjective
  <2> QED
    BY <1>1, <2>1, <2>4, <2>7 DEF ClientTypes
<1> QED
  BY <1>2, <1>3

\* The look-up of var_map finds an id of the key.
LEMMA LookUpEffect ==
  ASSUME MapTypes, NEW key, ~Misses(key)
  PROVE  varIds[key] \in Id /\ varIds[key] \in DOMAIN varMap /\ varMap[varIds[key]] = key
BY DEF MapTypes, VarIdsAgree, VarTable, TableOf, Misses

\* The add of var_map does the same, and marks the key when another thread adds it too.
LEMMA AddVarEffect ==
  ASSUME MapTypes, ClientTypes, NEW key \in VarKey, NEW id \in Id, NEW other, AddVar(key, id, other),
         key \in DOMAIN varIds => key \in doubled
  PROVE  /\ MapTypes' /\ frameMap' = frameMap /\ late' \subseteq Tid /\ late \subseteq late'
         /\ DOMAIN varMap \subseteq DOMAIN varMap'
         /\ id \in DOMAIN varMap' /\ varMap'[id] = key
         /\ \A i \in DOMAIN varMap : varMap'[i] = varMap[i]
         /\ \A i \in DOMAIN varMap' :
              i \in DOMAIN varMap \/ (stackTraces[varMap'[i].tid] = NoFrame => varMap'[i].tid \in late')
         /\ DOMAIN varIds' = DOMAIN varIds \cup {key} /\ doubled \subseteq doubled'
         /\ other.step = "add" /\ other.key = key => key \in doubled'
<1>1. /\ id = nextId.var /\ varMap' = Put(varMap, id, key) /\ varIds' = Put(varIds, key, id)
      /\ nextId' = [nextId EXCEPT !.var = nextId.var + 1] /\ frameMap' = frameMap
      /\ late' = IF stackTraces[key.tid] = NoFrame THEN late \cup {key.tid} ELSE late
      /\ doubled' = IF other.step = "add" /\ other.key = key THEN doubled \cup {key} ELSE doubled
  BY DEF AddVar, Late
<1>2. varMap \in TableOf(Id, VarKey) /\ DOMAIN varMap \subseteq Id /\ varIds \in TableOf(VarKey, Id)
  BY DEF MapTypes, VarTable, VarIdsAgree, VarIdTable, TableOf
<1>3. id \notin DOMAIN varMap /\ \A i \in DOMAIN varMap \cup {id} : i < id + 1
  BY <1>1, <1>2, NextIdIsNew DEF MapTypes
<1>4. /\ varMap' \in VarTable /\ DOMAIN varMap' = DOMAIN varMap \cup {id}
      /\ varMap'[id] = key /\ \A i \in DOMAIN varMap : varMap'[i] = varMap[i]
  <2>1. Put(varMap, id, key) \in TableOf(Id, VarKey)
    BY <1>2, PutTable
  <2>2. /\ DOMAIN Put(varMap, id, key) = DOMAIN varMap \cup {id} /\ Put(varMap, id, key)[id] = key
        /\ \A i \in DOMAIN varMap : i # id => Put(varMap, id, key)[i] = varMap[i]
    BY DEF Put
  <2> QED
    BY <1>1, <1>3, <2>1, <2>2 DEF VarTable
<1>5. /\ varIds' \in VarIdTable /\ DOMAIN varIds' = DOMAIN varIds \cup {key}
      /\ varIds'[key] = id /\ \A k \in DOMAIN varIds : k # key => varIds'[k] = varIds[k]
  <2>1. Put(varIds, key, id) \in TableOf(VarKey, Id)
    BY <1>2, PutTable
  <2>2. /\ DOMAIN Put(varIds, key, id) = DOMAIN varIds \cup {key} /\ Put(varIds, key, id)[key] = id
        /\ \A k \in DOMAIN varIds : k # key => Put(varIds, key, id)[k] = varIds[k]
    BY DEF Put
  <2> QED
    BY <1>1, <2>1, <2>2 DEF VarIdTable
<1>6. /\ nextId' \in [frame : 1..(MaxRequests + 1), var : 1..(MaxRequests + 1)]
      /\ nextId'.var = id + 1 /\ nextId'.frame = nextId.frame
  BY <1>1, BoundAssumption DEF MapTypes, Id
<1>7. VarIdsAgree'
  <2>1. doubled' \subseteq VarKey /\ doubled \subseteq doubled'
    BY <1>1 DEF MapTypes, VarIdsAgree
  <2>2. ASSUME NEW k \in DOMAIN varIds' PROVE varIds'[k] \in DOMAIN varMap' /\ varMap'[varIds'[k]] = k
    BY <1>4, <1>5, <2>2 DEF MapTypes, VarIdsAgree
  <2>3. ASSUME NEW i \in DOMAIN varMap', varMap'[i] \notin doubled'
        PROVE  varMap'[i] \in DOMAIN varIds' /\ varIds'[varMap'[i]] = i
    <3>1. CASE i = id
      BY <1>4, <1>5, <3>1
    <3>2. CASE i \in DOMAIN varMap
      <4>1. /\ varMap'[i] = varMap[i] /\ varMap[i] \notin doubled
            /\ varMap[i] \in DOMAIN varIds /\ varIds[varMap[i]] = i
        BY <1>4, <2>1, <2>3, <3>2 DEF MapTypes, VarIdsAgree
      <4>2. varMap[i] # key
        BY <4>1
      <4> QED
        BY <1>5, <4>1, <4>2
    <3> QED
      BY <1>4, <3>1, <3>2
  <2> QED
    BY <1>5, <2>1, <2>2, <2>3 DEF VarIdsAgree
<1>8. MapTypes'
  BY <1>1, <1>3, <1>4, <1>6, <1>7 DEF MapTypes, IsInjective
<1>9. key.tid \in Tid
  BY DEF VarKey
<1> QED
  BY <1>1, <1>4, <1>5, <1>8, <1>9 DEF ClientTypes

-----------------------------------------------------------------------------
\* What handlers of the server thread and of the event loop may change: the maps grow,
\* a key that a request is given belongs to the stop it is about, and so does an id
\* that the client is given.
GrowStep ==
  /\ \A i \in DOMAIN frameMap : i \in DOMAIN frameMap' /\ frameMap'[i] = frameMap[i]
  /\ \A i \in DOMAIN varMap : i \in DOMAIN varMap' /\ varMap'[i] = varMap[i]
  /\ late \subseteq late' /\ doubled \subseteq doubled'
  /\ \A i \in DOMAIN frameMap' : stackTraces[frameMap'[i].tid] = NoFrame =>
       i \in DOMAIN frameMap \/ frameMap'[i].tid \in late'
  /\ \A i \in DOMAIN varMap' : stackTraces[varMap'[i].tid] = NoFrame =>
       i \in DOMAIN varMap \/ varMap'[i].tid \in late'

KeyStep ==
  \A r \in DOMAIN request :
    \/ status'[r].key = status[r].key /\ status'[r].id = status[r].id
    \/ LET t == request[r].tid IN
       /\ status'[r].key \in VarKey
       /\ Live(r) => OfStop(status'[r].key, t)
       /\ Live(r) /\ status'[r].id # 0 => Stands(varMap', status'[r].id, t)

HeldStep ==
  \A h \in held' :
    \/ h \in held
    \/ /\ view[h.tid] # 0
       /\ Shown(h.tid) => Stands(IF h.kind = "frame" THEN frameMap ELSE varMap, h.id, h.tid)

LEMMA SameGrows ==
  ASSUME UNCHANGED <<frameMap, varMap, late, doubled>> PROVE GrowStep
BY DEF GrowStep

LEMMA IdGrows ==
  ASSUME MapTypes, ClientTypes, NEW id \in Id,
         \/ \E key \in FrameKey : FrameId(key, id)
         \/ \E key \in VarKey, other \in {server, loop} :
              AddVar(key, id, other) /\ (key \in DOMAIN varIds => key \in doubled)
  PROVE  /\ GrowStep /\ MapTypes' /\ late' \subseteq Tid
<1>1. ASSUME NEW key \in FrameKey, FrameId(key, id) PROVE GrowStep /\ MapTypes' /\ late' \subseteq Tid
  BY <1>1, FrameIdEffect DEF GrowStep
<1>2. ASSUME NEW key \in VarKey, NEW other, AddVar(key, id, other), key \in DOMAIN varIds => key \in doubled
      PROVE  GrowStep /\ MapTypes' /\ late' \subseteq Tid
  BY <1>2, AddVarEffect DEF GrowStep
<1> QED
  BY <1>1, <1>2

LEMMA BecomeEffect ==
  ASSUME RequestTypes, NEW r \in DOMAIN request, NEW is \in Stage, Become(r, is), UNCHANGED request,
         is \in {"posted", "executed"} => status[r].key \in VarKey
  PROVE  /\ RequestTypes' /\ KeyStep
         /\ \A q \in DOMAIN request : status'[q].key = status[q].key /\ status'[q].id = status[q].id
<1>1. /\ request \in Seq(Request) /\ status \in Seq(Status) /\ Len(status) = Len(request)
      /\ DOMAIN request = DOMAIN status
      /\ status' = [status EXCEPT ![r] = [status[r] EXCEPT !.is = is]]
  BY LenProperties DEF RequestTypes, Become
<1>2. status[r] \in Status
  BY <1>1, ElementOfSeq, LenProperties
<1>3. /\ [status[r] EXCEPT !.is = is] \in Status /\ [status[r] EXCEPT !.is = is].key = status[r].key
      /\ [status[r] EXCEPT !.is = is].id = status[r].id /\ [status[r] EXCEPT !.is = is].is = is
  BY <1>2 DEF Status
<1>4. status' \in Seq(Status) /\ Len(status') = Len(status)
  BY <1>1, <1>3, ExceptSeq
<1>5. \A q \in DOMAIN request : /\ status'[q].key = status[q].key /\ status'[q].id = status[q].id
                                /\ q # r => status'[q] = status[q]
                                /\ q = r => status'[q].is = is
  BY <1>1, <1>3
<1> QED
  BY <1>1, <1>4, <1>5 DEF RequestTypes, KeyStep

LEMMA ReqNumbers ==
  ASSUME RequestTypes PROVE 0 \in 0..MaxRequests /\ DOMAIN request \subseteq Req /\ Req \subseteq 0..MaxRequests
BY LenProperties, BoundAssumption DEF RequestTypes, Req

LEMMA PostsEffect ==
  ASSUME RequestTypes, NEW r \in DOMAIN request, NEW key \in VarKey, NEW id \in 0..MaxRequests,
         Posts(r, key, id), UNCHANGED request
  PROVE  /\ RequestTypes'
         /\ \A q \in DOMAIN request : /\ status'[q].key = IF q = r THEN key ELSE status[q].key
                                      /\ status'[q].id = IF q = r THEN id ELSE status[q].id
<1> DEFINE e == [is |-> "posted", key |-> key, id |-> id]
<1>1. /\ request \in Seq(Request) /\ status \in Seq(Status) /\ Len(status) = Len(request)
      /\ DOMAIN request = DOMAIN status
      /\ status' = [status EXCEPT ![r] = e]
  BY LenProperties DEF RequestTypes, Posts
<1>2. e \in Status /\ e.key = key /\ e.id = id
  BY DEF Status, Stage
<1> HIDE DEF e
<1>3. status' \in Seq(Status) /\ Len(status') = Len(status)
  BY <1>1, <1>2, ExceptSeq
<1>4. \A q \in DOMAIN request : /\ status'[q].key = IF q = r THEN key ELSE status[q].key
                                /\ status'[q].id = IF q = r THEN id ELSE status[q].id
                                /\ q # r => status'[q] = status[q]
  BY <1>1, <1>2
<1>5. \A q \in DOMAIN request : status'[q].is \in {"posted", "executed"} => status'[q].key \in VarKey
  <2> SUFFICES ASSUME NEW q \in DOMAIN request, status'[q].is \in {"posted", "executed"}
               PROVE  status'[q].key \in VarKey
    OBVIOUS
  <2>1. CASE q = r
    BY <1>4, <2>1
  <2>2. CASE q # r
    BY <1>4, <2>2 DEF RequestTypes
  <2> QED
    BY <2>1, <2>2
<1> QED
  BY <1>1, <1>3, <1>4, <1>5 DEF RequestTypes

LEMMA GiveEffect ==
  ASSUME TypeInv, NEW r \in DOMAIN request, NEW kind \in {"frame", "var"}, NEW id \in 0..MaxRequests,
         Give(r, kind, id),
         Live(r) /\ id # 0 => Stands(IF kind = "frame" THEN frameMap ELSE varMap, id, request[r].tid)
  PROVE  HeldStep /\ held' \subseteq [tid : Tid, kind : {"frame", "var"}, id : Id]
<1> DEFINE t == request[r].tid
           h == [tid |-> t, kind |-> kind, id |-> id]
<1>1. request[r] \in Request
  BY ElementOfSeq, LenProperties DEF TypeInv, RequestTypes
<1>2. t \in Tid /\ request[r].view \in 1..MaxStops /\ (id # 0 => id \in Id)
  BY <1>1, BoundAssumption DEF Request, Id
<1>3. CASE id # 0 /\ request[r].view = view[t]
  <2>1. held' = held \cup {h} /\ h.tid = t /\ h.kind = kind /\ h.id = id
        /\ h \in [tid : Tid, kind : {"frame", "var"}, id : Id]
    BY <1>2, <1>3 DEF Give
  <2>2. view[t] # 0
    BY <1>2, <1>3
  <2>3. Shown(t) => Stands(IF kind = "frame" THEN frameMap ELSE varMap, id, t)
    BY <1>3 DEF Live
  <2> HIDE DEF h, t
  <2> QED
    BY <2>1, <2>2, <2>3 DEF HeldStep, TypeInv, ClientTypes
<1>4. CASE ~(id # 0 /\ request[r].view = view[t])
  BY <1>4 DEF Give, HeldStep, TypeInv, ClientTypes
<1> QED
  BY <1>3, <1>4

\* Steps that leave pydevd, its messages and the writer alone keep the invariant.
LEMMA HandlerStep ==
  ASSUME IInv,
         UNCHANGED <<phase, at, stops, outgoing, stackTraces, request, writer, view>>,
         RequestTypes', MapTypes', resolved' \in Seq(Reply),
         \A i \in DOMAIN resolved' : \E j \in DOMAIN resolved : resolved'[i] = resolved[j],
         late' \subseteq Tid, held' \subseteq [tid : Tid, kind : {"frame", "var"}, id : Id],
         ServerTypes', LoopTypes', AddInv', ServerInv', LoopInv', GrowStep, KeyStep, HeldStep
  PROVE  IInv'
<1>1. TypeInv'
  <2>1. \A r \in DOMAIN request : status[r].key \in VarKey => status'[r].key \in VarKey
    BY DEF KeyStep
  <2>2. QueueTypes'
    BY <2>1 DEF IInv, TypeInv, QueueTypes, Replied
  <2> QED
    BY <2>2 DEF IInv, TypeInv, PydevdTypes, ClientTypes, WriterTypes, Clearing
<1>2. StopInv'
  BY DEF IInv, StopInv, ThreadStop, RequestStop, ToldNext, Reached, Untold, Coming, Nothing, IsSuspend,
         IsRun, Working, Shown
<1>3. OrderInv'
  BY DEF IInv, OrderInv, ThreadOrder, RunBetween, Open, Working, Clearing, IsSuspend, IsRun, HeldStep
<1>4. /\ \A t \in Tid : Shown(t)' <=> Shown(t)
      /\ \A r \in DOMAIN request : Live(r)' <=> Live(r)
      /\ \A k, t : OfStop(k, t)' <=> OfStop(k, t)
      /\ \A i, t : Stands(frameMap, i, t) => Stands(frameMap, i, t)'
      /\ \A i, t : Stands(varMap, i, t) => Stands(varMap, i, t)'
      /\ \A i, t : Stands(varMap', i, t) => Stands(varMap, i, t)'
  BY DEF Shown, Live, OfStop, Stands, GrowStep
<1>5. HeldInv'
  BY <1>1, <1>4 DEF IInv, ResolveInv, HeldInv, HeldStep, TypeInv, ClientTypes
<1>6. AskedInv'
  BY <1>4 DEF IInv, ResolveInv, AskedInv, KeyStep
<1>7. ClearInv'
  <2>1. \A t \in Tid \ late' : stackTraces[t] = NoFrame =>
          /\ Owned(frameMap, t)' \subseteq Owned(frameMap, t)
          /\ Single(t)' \subseteq Single(t)
    BY DEF Owned, Single, GrowStep
  <2>2. \A t : /\ Owned(frameMap, t) \subseteq Owned(frameMap, t)'
               /\ Owned(varMap, t) \subseteq Owned(varMap, t)'
    BY DEF Owned, GrowStep
  <2>3. late \subseteq late'
    BY DEF GrowStep
  <2> QED
    BY <2>1, <2>2, <2>3 DEF IInv, ClearInv, Working, Clearing
<1> QED
  BY <1>1, <1>2, <1>3, <1>5, <1>6, <1>7 DEF IInv, ResolveInv

-----------------------------------------------------------------------------
\* The server thread.
LEMMA ServerLeaves ==
  ASSUME ServerStep
  PROVE  UNCHANGED <<phase, at, stops, outgoing, stackTraces, request, resolved, loop, writer, view>>
BY DEF ServerStep, StackTrace, Scopes, Variables, Evaluate, SetVariable, StackTraceFrame, ServerLookUp,
       ServerAdd, Respond, UnchangedByServer, pydevd

\* What is left to show of a step of the server thread.
LEMMA ServerCommon ==
  ASSUME IInv, ServerStep, RequestTypes', MapTypes', AddInv', late' \subseteq Tid,
         held' \subseteq [tid : Tid, kind : {"frame", "var"}, id : Id],
         ServerTypes', ServerInv', GrowStep, KeyStep, HeldStep
  PROVE  IInv'
<1>1. UNCHANGED <<phase, at, stops, outgoing, stackTraces, request, resolved, loop, writer, view>>
  BY ServerLeaves
<1>2. LoopTypes'
  BY <1>1 DEF IInv, TypeInv, LoopTypes
<1>3. LoopInv'
  BY <1>1 DEF IInv, ResolveInv, LoopInv, Live, Shown, OfStop, Stands, GrowStep
<1>4. resolved' \in Seq(Reply) /\ \A i \in DOMAIN resolved' : \E j \in DOMAIN resolved : resolved'[i] = resolved[j]
  BY <1>1 DEF IInv, TypeInv, QueueTypes
<1> QED
  BY <1>1, <1>2, <1>3, <1>4, HandlerStep

\* A request that has arrived: what it asks about, and the stop if that still goes on.
LEMMA ArrivedRequest ==
  ASSUME IInv, NEW r \in DOMAIN request
  PROVE  /\ request[r] \in Request /\ request[r].tid \in Tid
         /\ frameMap \in FrameTable /\ varMap \in VarTable
         /\ \A i \in DOMAIN frameMap : frameMap[i] \in FrameKey
         /\ \A i \in DOMAIN varMap : varMap[i] \in VarKey
<1>1. request[r] \in Request
  BY ElementOfSeq, LenProperties DEF IInv, TypeInv, RequestTypes
<1>2. frameMap \in FrameTable /\ varMap \in VarTable
  BY DEF IInv, TypeInv, MapTypes
<1> QED
  BY <1>1, <1>2 DEF FrameTable, VarTable, TableOf, Request

\* A step of the server thread that leaves the maps and the client alone.
LEMMA ServerQuiet ==
  ASSUME IInv, ServerStep, UNCHANGED <<maps, held>>, RequestTypes', KeyStep,
         server'.step = "add" => server'.key \notin DOMAIN varIds, ServerTypes', ServerInv'
  PROVE  IInv'
<1>1. MapTypes' /\ GrowStep
  BY SameGrows DEF IInv, TypeInv, MapTypes, VarIdsAgree, maps
<1>2. HeldStep /\ held' \subseteq [tid : Tid, kind : {"frame", "var"}, id : Id] /\ late' \subseteq Tid
  BY DEF HeldStep, IInv, TypeInv, ClientTypes, maps
<1>3. AddInv'
  BY ServerLeaves DEF IInv, AddInv, maps
<1> QED
  BY <1>1, <1>2, <1>3, ServerCommon

\* While it is idle there is nothing to show of it.
LEMMA ServerIdle ==
  ASSUME IInv, server'.step = "idle", server' = server \/ server' = Idle
  PROVE  ServerTypes' /\ ServerInv' /\ server'.step # "add"
<1>1. ServerInv'
  BY DEF ServerInv
<1>2. server' \in [step : {"idle", "frame", "var", "add", "respond"}, req : 0..MaxRequests,
                  key : StackKey \cup VarKey \cup {NoKey}, id : 0..MaxRequests]
  BY ReqNumbers DEF IInv, TypeInv, ServerTypes, Idle
<1> QED
  BY <1>1, <1>2 DEF ServerTypes

LEMMA StackTraceKeeps ==
  ASSUME IInv, NEW r \in DOMAIN request, StackTrace(r)
  PROVE  IInv'
<1> DEFINE t == request[r].tid
<1>1. /\ request[r].kind = "stackTrace" /\ Become(r, "handled")
      /\ server' = [step |-> IF stackTraces[t] = NoFrame THEN "respond" ELSE "frame",
                    req |-> r, key |-> [tid |-> t, frame |-> stackTraces[t]], id |-> 0]
      /\ UNCHANGED <<maps, held, request, view, phase, at, stops, stackTraces>>
      /\ server'.step # "add"
  BY DEF StackTrace, Arrives, UnchangedByServer, pydevd
<1>2. t \in Tid /\ stackTraces[t] \in Frame \cup {NoFrame}
  BY ArrivedRequest DEF IInv, TypeInv, ClientTypes
<1>3. RequestTypes' /\ KeyStep
  BY <1>1, BecomeEffect DEF Stage, IInv, TypeInv
<1>4. ServerStep
  BY DEF ServerStep
<1>6. ServerTypes'
  <2>1. stackTraces[t] # NoFrame => [tid |-> t, frame |-> stackTraces[t]] \in FrameKey
    BY <1>2 DEF FrameKey
  <2> QED
    BY <1>1, <1>2, <2>1, ReqNumbers DEF ServerTypes, StackKey, IInv, TypeInv
<1>7. ServerInv'
  <2>1. Live(r) => OfStop([tid |-> t, frame |-> stackTraces[t]], t)
    BY <1>2 DEF Live, OfStop, IInv, StopInv, ThreadStop
  <2> QED
    BY <1>1, <2>1 DEF ServerInv, Live, Shown, OfStop
<1> QED
  BY <1>1, <1>3, <1>4, <1>6, <1>7, ServerQuiet

LEMMA StackTraceFrameKeeps ==
  ASSUME IInv, StackTraceFrame
  PROVE  IInv'
<1> DEFINE r == server.req
           t == request[r].tid
<1>1. PICK id \in Id : FrameId(server.key, id) /\ server' = [server EXCEPT !.step = "respond", !.id = id]
  BY DEF StackTraceFrame
<1>2. /\ server.step = "frame"
      /\ UNCHANGED <<status, held, request, view, phase, at, stops, stackTraces>>
  BY DEF StackTraceFrame, UnchangedByServer, pydevd
<1>3. server.key \in FrameKey /\ r \in DOMAIN request /\ request[r].kind = "stackTrace"
  BY <1>2 DEF IInv, TypeInv, ServerTypes
<1>4. RequestTypes' /\ KeyStep
  BY <1>2 DEF IInv, TypeInv, RequestTypes, KeyStep
<1>5. GrowStep /\ MapTypes' /\ late' \subseteq Tid
  BY <1>1, <1>3, IdGrows DEF IInv, TypeInv
<1>6. HeldStep /\ held' \subseteq [tid : Tid, kind : {"frame", "var"}, id : Id]
  BY <1>2 DEF HeldStep, IInv, TypeInv, ClientTypes
<1>7. server'.step = "respond" /\ server'.req = r /\ server'.id = id
  BY <1>1 DEF IInv, TypeInv, ServerTypes
<1>8. ServerTypes'
  <2>1. id \in 0..MaxRequests
    BY BoundAssumption DEF Id
  <2> QED
    BY <1>1, <1>2, <1>3, <1>7, <2>1 DEF ServerTypes, IInv, TypeInv
<1>10. AddInv'
  <2>1. UNCHANGED <<varIds, doubled, loop>>
    BY <1>1, <1>3, FrameIdEffect, ServerLeaves DEF IInv, TypeInv, ServerStep
  <2> QED
    BY <1>7, <2>1 DEF IInv, AddInv
<1>9. ServerInv'
  <2>1. id \in DOMAIN frameMap' /\ frameMap'[id] = server.key
    BY <1>1, <1>3, FrameIdEffect DEF IInv, TypeInv
  <2>2. Live(r) => OfStop(server.key, t)
    BY <1>2 DEF IInv, ResolveInv, ServerInv
  <2> QED
    BY <1>2, <1>3, <1>7, <2>1, <2>2 DEF ServerInv, Live, Shown, OfStop, Stands
<1> QED
  BY <1>4, <1>5, <1>6, <1>8, <1>9, <1>10, ServerCommon DEF ServerStep

LEMMA ScopesKeeps ==
  ASSUME IInv, NEW r \in DOMAIN request, Scopes(r)
  PROVE  IInv'
<1> DEFINE t == request[r].tid
           fid == request[r].id
           key == Variable(frameMap[fid], "locals")
<1>1. /\ request[r].kind = "scopes" /\ server.step = "idle"
      /\ UNCHANGED <<maps, held>>
      /\ UNCHANGED <<frameMap, request, view, phase, at, stops>>
  BY DEF Scopes, Arrives, UnchangedByServer, maps, pydevd
<1>2. ServerStep
  BY DEF ServerStep
<1>3. CASE fid \in DOMAIN frameMap
  <2>1. /\ server' = [step |-> "var", req |-> r, key |-> key, id |-> 0]
        /\ Become(r, "handled")
    BY <1>3 DEF Scopes
  <2>2. RequestTypes' /\ KeyStep
    BY <1>1, <2>1, BecomeEffect DEF Stage, IInv, TypeInv
  <2>3. key \in VarKey
    BY <1>3, ArrivedRequest DEF Variable, VarKey, FrameKey
  <2>5. Live(r) => OfStop(key, t)
    BY <1>1 DEF IInv, ResolveInv, AskedInv, Stands, OfStop, Variable
  <2> HIDE DEF key
  <2>4. ServerTypes'
    BY <1>1, <2>1, <2>3, ReqNumbers DEF ServerTypes, IInv, TypeInv
  <2>6. ServerInv'
    BY <1>1, <2>1, <2>5 DEF ServerInv, Live, Shown, OfStop
  <2> QED
    BY <1>1, <1>2, <2>1, <2>2, <2>4, <2>6, ServerQuiet
<1>4. CASE fid \notin DOMAIN frameMap
  <2>1. Become(r, "refused") /\ server' = server
    BY <1>4 DEF Scopes
  <2>2. RequestTypes' /\ KeyStep
    BY <1>1, <2>1, BecomeEffect DEF Stage, IInv, TypeInv
  <2> QED
    BY <1>1, <1>2, <2>1, <2>2, ServerIdle, ServerQuiet
<1> QED
  BY <1>3, <1>4

LEMMA RespondKeeps ==
  ASSUME IInv, Respond
  PROVE  IInv'
<1> DEFINE r == server.req
           kind == IF request[r].kind = "scopes" THEN "var" ELSE "frame"
<1>1. /\ server.step = "respond" /\ Become(r, "answered") /\ Give(r, kind, server.id)
      /\ server' = Idle /\ UNCHANGED <<maps, request>>
  BY DEF Respond, UnchangedByServer
<1>2. r \in DOMAIN request /\ kind \in {"frame", "var"} /\ server.id \in 0..MaxRequests
  BY <1>1 DEF IInv, TypeInv, ServerTypes
<1>3. Live(r) /\ server.id # 0 =>
        Stands(IF kind = "frame" THEN frameMap ELSE varMap, server.id, request[r].tid)
  BY <1>1 DEF IInv, ResolveInv, ServerInv
<1> HIDE DEF kind
<1>4. HeldStep /\ held' \subseteq [tid : Tid, kind : {"frame", "var"}, id : Id]
  BY <1>1, <1>2, <1>3, GiveEffect DEF IInv
<1>5. RequestTypes' /\ KeyStep
  BY <1>1, <1>2, BecomeEffect DEF Stage, IInv, TypeInv
<1>6. ServerTypes' /\ ServerInv' /\ server'.step # "add"
  BY <1>1, ServerIdle DEF Idle
<1>7. MapTypes' /\ GrowStep /\ late' \subseteq Tid
  BY <1>1, SameGrows DEF IInv, TypeInv, MapTypes, VarIdsAgree, ClientTypes, maps
<1>8. ServerStep /\ AddInv'
  BY <1>1, <1>6, ServerLeaves DEF IInv, AddInv, ServerStep, maps
<1> QED
  BY <1>4, <1>5, <1>6, <1>7, <1>8, ServerCommon

\* A request that is posted with a key of the stop it is about.
LEMMA PostsKey ==
  ASSUME RequestTypes, NEW r \in DOMAIN request, NEW key \in VarKey, NEW id \in 0..MaxRequests,
         Posts(r, key, id), UNCHANGED request, Live(r) => OfStop(key, request[r].tid),
         Live(r) /\ id # 0 => Stands(varMap', id, request[r].tid)
  PROVE  RequestTypes' /\ KeyStep
BY PostsEffect DEF KeyStep

LEMMA VariablesKeeps ==
  ASSUME IInv, NEW r \in DOMAIN request, Variables(r)
  PROVE  IInv'
<1> DEFINE vid == request[r].id
<1>1. /\ request[r].kind = "variables" /\ server.step = "idle"
      /\ UNCHANGED <<maps, held, request, server>>
  BY DEF Variables, Arrives, UnchangedByServer
<1>2. CASE vid \in DOMAIN varMap
  <2>1. Posts(r, varMap[vid], 0) /\ varMap[vid] \in VarKey
    BY <1>2, ArrivedRequest DEF Variables
  <2>2. Live(r) => OfStop(varMap[vid], request[r].tid)
    BY <1>1 DEF IInv, ResolveInv, AskedInv, Stands
  <2>3. RequestTypes' /\ KeyStep
    BY <1>1, <2>1, <2>2, PostsKey, ReqNumbers DEF IInv, TypeInv
  <2> QED
    BY <1>1, <2>3, ServerIdle, ServerQuiet DEF ServerStep
<1>3. CASE vid \notin DOMAIN varMap
  <2>1. Become(r, "dropped")
    BY <1>3 DEF Variables
  <2>2. RequestTypes' /\ KeyStep
    BY <1>1, <2>1, BecomeEffect DEF Stage, IInv, TypeInv
  <2> QED
    BY <1>1, <2>2, ServerIdle, ServerQuiet DEF ServerStep
<1> QED
  BY <1>2, <1>3

LEMMA EvaluateKeeps ==
  ASSUME IInv, NEW r \in DOMAIN request, Evaluate(r)
  PROVE  IInv'
<1> DEFINE fid == request[r].id
           key == Variable(frameMap[fid], "expr")
<1>1. /\ request[r].kind = "evaluate" /\ server.step = "idle"
      /\ UNCHANGED <<maps, held, request, server>>
  BY DEF Evaluate, Arrives, UnchangedByServer
<1>2. CASE fid \in DOMAIN frameMap
  <2>1. Posts(r, key, 0) /\ frameMap[fid] \in FrameKey
    BY <1>2, ArrivedRequest DEF Evaluate
  <2>2. key \in VarKey
    BY <2>1 DEF Variable, VarKey, FrameKey
  <2>3. Live(r) => OfStop(key, request[r].tid)
    BY <1>1 DEF IInv, ResolveInv, AskedInv, Stands, OfStop, Variable
  <2> HIDE DEF key
  <2>4. RequestTypes' /\ KeyStep
    BY <1>1, <2>1, <2>2, <2>3, PostsKey, ReqNumbers DEF IInv, TypeInv
  <2> QED
    BY <1>1, <2>4, ServerIdle, ServerQuiet DEF ServerStep
<1>3. CASE fid \notin DOMAIN frameMap
  <2>1. Become(r, "dropped")
    BY <1>3 DEF Evaluate
  <2>2. RequestTypes' /\ KeyStep
    BY <1>1, <2>1, BecomeEffect DEF Stage, IInv, TypeInv
  <2> QED
    BY <1>1, <2>2, ServerIdle, ServerQuiet DEF ServerStep
<1> QED
  BY <1>2, <1>3

LEMMA SetVariableKeeps ==
  ASSUME IInv, NEW r \in DOMAIN request, SetVariable(r)
  PROVE  IInv'
<1> DEFINE t == request[r].tid
           vid == request[r].id
           key == Variable(varMap[vid], "child")
<1>1. /\ request[r].kind = "setVariable" /\ server.step = "idle"
      /\ UNCHANGED <<maps, held>>
      /\ UNCHANGED <<varMap, request, view, phase, at, stops>>
  BY DEF SetVariable, Arrives, UnchangedByServer, maps, pydevd
<1>2. ServerStep
  BY DEF ServerStep
<1>3. CASE vid \in DOMAIN varMap
  <2>1. /\ server' = [step |-> "var", req |-> r, key |-> key, id |-> 0]
        /\ Become(r, "handled")
    BY <1>3 DEF SetVariable
  <2>2. RequestTypes' /\ KeyStep
    BY <1>1, <2>1, BecomeEffect DEF Stage, IInv, TypeInv
  <2>3. key \in VarKey
    BY <1>3, ArrivedRequest DEF Variable, VarKey
  <2>4. Live(r) => OfStop(key, t)
    BY <1>1 DEF IInv, ResolveInv, AskedInv, Stands, OfStop, Variable
  <2> HIDE DEF key
  <2>5. ServerTypes'
    BY <1>1, <2>1, <2>3, ReqNumbers DEF ServerTypes, IInv, TypeInv
  <2>6. ServerInv'
    BY <1>1, <2>1, <2>4 DEF ServerInv, Live, Shown, OfStop
  <2> QED
    BY <1>1, <1>2, <2>1, <2>2, <2>5, <2>6, ServerQuiet
<1>4. CASE vid \notin DOMAIN varMap
  <2>1. Become(r, "dropped") /\ server' = server
    BY <1>4 DEF SetVariable
  <2>2. RequestTypes' /\ KeyStep
    BY <1>1, <2>1, BecomeEffect DEF Stage, IInv, TypeInv
  <2> QED
    BY <1>1, <1>2, <2>1, <2>2, ServerIdle, ServerQuiet
<1> QED
  BY <1>3, <1>4

\* What follows from the id of the key.
LEMMA ServerHasEffect ==
  ASSUME IInv, server.step \in {"var", "add"}, NEW id \in Id, ServerHas(id),
         id \in DOMAIN varMap', varMap'[id] = server.key,
         UNCHANGED <<phase, at, stops, request, view>>
  PROVE  RequestTypes' /\ KeyStep /\ ServerTypes' /\ ServerInv' /\ server'.step # "add"
<1> DEFINE r == server.req
           t == request[r].tid
<1>1. server.key \in VarKey /\ r \in DOMAIN request /\ id \in 0..MaxRequests
  BY BoundAssumption DEF IInv, TypeInv, ServerTypes, Id
<1>2. Live(r) => OfStop(server.key, t)
  BY DEF IInv, ResolveInv, ServerInv
<1>3. Live(r) => Stands(varMap', id, t)
  BY <1>2 DEF Stands
<1>4. CASE request[r].kind = "scopes"
  <2>1. server' = [server EXCEPT !.step = "respond", !.id = id] /\ status' = status
    BY <1>4 DEF ServerHas
  <2>2. /\ server'.step = "respond" /\ server'.req = r /\ server'.id = id
        /\ server' \in [step : {"idle", "frame", "var", "add", "respond"}, req : 0..MaxRequests,
                       key : StackKey \cup VarKey \cup {NoKey}, id : 0..MaxRequests]
    BY <1>1, <2>1 DEF IInv, TypeInv, ServerTypes
  <2>3. RequestTypes' /\ KeyStep
    BY <2>1 DEF IInv, TypeInv, RequestTypes, KeyStep
  <2>4. ServerTypes'
    BY <1>1, <2>2 DEF ServerTypes
  <2>5. ServerInv'
    BY <1>3, <1>4, <2>2 DEF ServerInv, Live, Shown, OfStop, Stands
  <2> QED
    BY <2>2, <2>3, <2>4, <2>5
<1>5. CASE request[r].kind # "scopes"
  <2>1. Posts(r, server.key, id) /\ server' = Idle
    BY <1>5 DEF ServerHas
  <2>2. RequestTypes' /\ KeyStep
    BY <1>1, <1>2, <1>3, <2>1, PostsKey DEF IInv, TypeInv
  <2> QED
    BY <2>1, <2>2, ServerIdle DEF Idle
<1> QED
  BY <1>4, <1>5

LEMMA ServerLookUpKeeps ==
  ASSUME IInv, ServerLookUp
  PROVE  IInv'
<1>1. /\ server.step = "var" /\ ServerStep
      /\ UNCHANGED <<maps, varMap, held, request, view, phase, at, stops>>
  BY DEF ServerLookUp, UnchangedByServer, pydevd, maps, ServerStep
<1>2. CASE Misses(server.key)
  <2>1. server' = [server EXCEPT !.step = "add"] /\ status' = status
    BY <1>2 DEF ServerLookUp
  <2>2. /\ server'.step = "add" /\ server'.req = server.req /\ server'.key = server.key
        /\ server' \in [step : {"idle", "frame", "var", "add", "respond"}, req : 0..MaxRequests,
                       key : StackKey \cup VarKey \cup {NoKey}, id : 0..MaxRequests]
    BY <2>1 DEF IInv, TypeInv, ServerTypes
  <2>3. RequestTypes' /\ KeyStep
    BY <1>1, <2>1 DEF IInv, TypeInv, RequestTypes, KeyStep
  <2>4. ServerTypes'
    BY <1>1, <2>2 DEF IInv, TypeInv, ServerTypes
  <2>5. ServerInv'
    BY <1>1, <2>2 DEF IInv, ResolveInv, ServerInv, Live, Shown, OfStop
  <2> QED
    BY <1>1, <1>2, <2>2, <2>3, <2>4, <2>5, ServerQuiet DEF Misses
<1>3. CASE ~Misses(server.key)
  <2>1. ServerHas(varIds[server.key])
    BY <1>3 DEF ServerLookUp
  <2>2. /\ varIds[server.key] \in Id /\ varIds[server.key] \in DOMAIN varMap
        /\ varMap[varIds[server.key]] = server.key
    BY <1>3, LookUpEffect DEF IInv, TypeInv
  <2>3. RequestTypes' /\ KeyStep /\ ServerTypes' /\ ServerInv' /\ server'.step # "add"
    BY <1>1, <2>1, <2>2, ServerHasEffect
  <2> QED
    BY <1>1, <2>3, ServerQuiet
<1> QED
  BY <1>2, <1>3

LEMMA ServerAddKeeps ==
  ASSUME IInv, ServerAdd
  PROVE  IInv'
<1>1. /\ server.step = "add" /\ ServerStep /\ UNCHANGED <<held, request, view, phase, at, stops, loop>>
  BY DEF ServerAdd, UnchangedByServer, pydevd, ServerStep
<1>2. PICK id \in Id : AddVar(server.key, id, loop) /\ ServerHas(id)
  BY DEF ServerAdd
<1>3. server.key \in VarKey /\ (server.key \in DOMAIN varIds => server.key \in doubled)
  BY <1>1 DEF IInv, TypeInv, ServerTypes, AddInv
<1>4. /\ id \in DOMAIN varMap' /\ varMap'[id] = server.key
      /\ DOMAIN varIds' = DOMAIN varIds \cup {server.key} /\ doubled \subseteq doubled'
      /\ loop.step = "add" /\ loop.key = server.key => server.key \in doubled'
  BY <1>2, <1>3, AddVarEffect DEF IInv, TypeInv
<1>5. GrowStep /\ MapTypes' /\ late' \subseteq Tid
  BY <1>2, <1>3, IdGrows DEF IInv, TypeInv
<1>6. RequestTypes' /\ KeyStep /\ ServerTypes' /\ ServerInv' /\ server'.step # "add"
  BY <1>1, <1>2, <1>4, ServerHasEffect
<1>7. AddInv'
  BY <1>1, <1>4, <1>6 DEF IInv, AddInv
<1>8. HeldStep /\ held' \subseteq [tid : Tid, kind : {"frame", "var"}, id : Id]
  BY <1>1 DEF HeldStep, IInv, TypeInv, ClientTypes
<1> QED
  BY <1>1, <1>5, <1>6, <1>7, <1>8, ServerCommon

LEMMA ServerKeeps ==
  ASSUME IInv, ServerStep
  PROVE  IInv'
BY StackTraceKeeps, StackTraceFrameKeeps, ScopesKeeps, RespondKeeps, VariablesKeeps, EvaluateKeeps,
   SetVariableKeeps, ServerLookUpKeeps, ServerAddKeeps DEF ServerStep

-----------------------------------------------------------------------------
\* The event loop.
LEMMA LoopLeaves ==
  ASSUME LoopStep
  PROVE  UNCHANGED <<phase, at, stops, outgoing, stackTraces, request, server, writer, view>>
BY DEF LoopStep, LoopTake, LoopLookUp, LoopAdd, LoopRespond, UnchangedByLoop, pydevd

\* What is left to show of a step of the event loop.
LEMMA LoopCommon ==
  ASSUME IInv, LoopStep, RequestTypes', MapTypes', AddInv', late' \subseteq Tid,
         held' \subseteq [tid : Tid, kind : {"frame", "var"}, id : Id],
         resolved' \in Seq(Reply),
         \A i \in DOMAIN resolved' : \E j \in DOMAIN resolved : resolved'[i] = resolved[j],
         LoopTypes', LoopInv', GrowStep, KeyStep, HeldStep
  PROVE  IInv'
<1>1. UNCHANGED <<phase, at, stops, outgoing, stackTraces, request, server, writer, view>>
  BY LoopLeaves
<1>2. ServerTypes'
  BY <1>1 DEF IInv, TypeInv, ServerTypes
<1>3. ServerInv'
  BY <1>1 DEF IInv, ResolveInv, ServerInv, Live, Shown, OfStop, Stands, GrowStep
<1> QED
  BY <1>1, <1>2, <1>3, HandlerStep

\* A step of the event loop that leaves the maps alone.
LEMMA LoopQuiet ==
  ASSUME IInv, LoopStep, UNCHANGED maps, RequestTypes', KeyStep, HeldStep,
         held' \subseteq [tid : Tid, kind : {"frame", "var"}, id : Id],
         resolved' \in Seq(Reply),
         \A i \in DOMAIN resolved' : \E j \in DOMAIN resolved : resolved'[i] = resolved[j],
         loop'.step = "add" => loop'.key \notin DOMAIN varIds, LoopTypes', LoopInv'
  PROVE  IInv'
<1>1. MapTypes' /\ GrowStep /\ late' \subseteq Tid
  BY SameGrows DEF IInv, TypeInv, MapTypes, VarIdsAgree, ClientTypes, maps
<1>2. AddInv'
  BY LoopLeaves DEF IInv, AddInv, maps
<1> QED
  BY <1>1, <1>2, LoopCommon

LEMMA LoopTakeKeeps ==
  ASSUME IInv, LoopTake
  PROVE  IInv'
<1> DEFINE m == Head(resolved)
           r == m.req
           t == request[r].tid
           kind == request[r].kind
           key == IF kind = "variables" THEN Variable(status[r].key, "child") ELSE status[r].key
<1>1. /\ loop.step = "idle" /\ resolved # <<>> /\ resolved' = Tail(resolved) /\ LoopStep
      /\ UNCHANGED <<maps, held, frameMap, varMap>>
      /\ UNCHANGED <<request, view, phase, at, stops>>
  BY DEF LoopTake, UnchangedByLoop, maps, pydevd, LoopStep
<1>2. resolved \in Seq(Reply)
  BY DEF IInv, TypeInv, QueueTypes
<1>3. /\ resolved' \in Seq(Reply) /\ 1 \in DOMAIN resolved /\ resolved[1] = m /\ m \in Reply
      /\ \A i \in DOMAIN resolved' : \E j \in DOMAIN resolved : resolved'[i] = resolved[j]
  BY <1>1, <1>2, TailPositions
<1>4. r \in DOMAIN request /\ status[r].key \in VarKey /\ status[r].id \in 0..MaxRequests
      /\ m.container \in BOOLEAN
  <2>1. r \in DOMAIN request /\ status[r].key \in VarKey
    BY <1>3 DEF IInv, TypeInv, QueueTypes, Replied
  <2>2. status[r] \in Status
    BY <2>1, ElementOfSeq, LenProperties DEF IInv, TypeInv, RequestTypes
  <2> QED
    BY <1>3, <2>1, <2>2 DEF Status, Reply
<1>5. HeldStep /\ held' \subseteq [tid : Tid, kind : {"frame", "var"}, id : Id]
  BY <1>1 DEF HeldStep, IInv, TypeInv, ClientTypes
<1>6. CASE ~m.ok
  <2>1. Become(r, "dropped") /\ loop' = loop
    BY <1>6 DEF LoopTake
  <2>2. RequestTypes' /\ KeyStep
    BY <1>1, <1>4, <2>1, BecomeEffect DEF Stage, IInv, TypeInv
  <2>3. LoopTypes' /\ LoopInv' /\ loop'.step # "add"
    BY <1>1, <2>1 DEF LoopTypes, LoopInv, IInv, TypeInv
  <2> QED
    BY <1>1, <1>3, <1>5, <2>2, <2>3, LoopQuiet
<1>7. CASE m.ok
  <2> DEFINE step == IF (kind = "variables" /\ m.container) \/ kind = "evaluate" THEN "var" ELSE "respond"
  <2>1. /\ status' = status
        /\ loop' = [step |-> step, req |-> r, id |-> status[r].id, container |-> m.container, key |-> key]
    BY <1>7 DEF LoopTake
  <2>2. key \in VarKey
    BY <1>4 DEF Variable, VarKey
  <2>3. Live(r) => OfStop(key, t) /\ (status[r].id # 0 => Stands(varMap, status[r].id, t))
    BY <1>4 DEF IInv, ResolveInv, AskedInv, OfStop, Variable
  <2>4. step \in {"var", "respond"}
    OBVIOUS
  <2> HIDE DEF key, step
  <2>5. RequestTypes' /\ KeyStep
    BY <1>1, <2>1 DEF IInv, TypeInv, RequestTypes, KeyStep
  <2>6. LoopTypes' /\ loop'.step # "add"
    BY <1>1, <1>4, <2>1, <2>2, <2>4, ReqNumbers DEF LoopTypes, IInv, TypeInv
  <2>7. LoopInv'
    BY <1>1, <2>1, <2>3, <2>4 DEF LoopInv, Live, Shown, OfStop, Stands
  <2> QED
    BY <1>1, <1>3, <1>5, <2>5, <2>6, <2>7, LoopQuiet
<1> QED
  BY <1>6, <1>7

\* The id of the key goes into the response.
LEMMA LoopHasEffect ==
  ASSUME IInv, loop.step \in {"var", "add"}, NEW id \in Id,
         loop' = [loop EXCEPT !.step = "respond", !.id = id],
         id \in DOMAIN varMap', varMap'[id] = loop.key,
         UNCHANGED <<phase, at, stops, request, view>>
  PROVE  LoopTypes' /\ LoopInv' /\ loop'.step = "respond"
<1>0. id \in 0..MaxRequests /\ LoopTypes
  BY BoundAssumption DEF IInv, TypeInv, Id
<1>1. /\ loop'.step = "respond" /\ loop'.req = loop.req /\ loop'.id = id
      /\ loop' \in [step : {"idle", "var", "add", "respond"}, req : 0..MaxRequests,
                    key : VarKey \cup {NoKey}, id : 0..MaxRequests, container : BOOLEAN]
      /\ loop.req \in DOMAIN request
  BY <1>0 DEF LoopTypes
<1>2. Live(loop.req) => OfStop(loop.key, request[loop.req].tid)
  BY DEF IInv, ResolveInv, LoopInv
<1>3. LoopTypes'
  BY <1>1 DEF LoopTypes
<1>4. LoopInv'
  BY <1>1, <1>2 DEF LoopInv, Live, Shown, OfStop, Stands
<1> QED
  BY <1>1, <1>3, <1>4

LEMMA LoopLookUpKeeps ==
  ASSUME IInv, LoopLookUp
  PROVE  IInv'
<1>1. /\ loop.step = "var" /\ LoopStep
      /\ UNCHANGED <<maps, varMap, resolved, status, held, request, view, phase, at, stops>>
  BY DEF LoopLookUp, UnchangedByLoop, pydevd, maps, LoopStep
<1>2. LoopTypes' /\ LoopInv' /\ (loop'.step = "add" => loop'.key \notin DOMAIN varIds)
  <2>1. CASE Misses(loop.key)
    <3>1. loop' = [loop EXCEPT !.step = "add"]
      BY <2>1 DEF LoopLookUp
    <3>2. loop'.step = "add" /\ loop'.req = loop.req /\ loop'.key = loop.key
      BY <3>1 DEF IInv, TypeInv, LoopTypes
    <3>3. LoopTypes'
      BY <1>1, <3>1, <3>2 DEF IInv, TypeInv, LoopTypes
    <3>4. LoopInv'
      BY <1>1, <3>2 DEF IInv, ResolveInv, LoopInv, Live, Shown, OfStop
    <3> QED
      BY <2>1, <3>2, <3>3, <3>4 DEF Misses
  <2>2. CASE ~Misses(loop.key)
    <3>1. loop' = [loop EXCEPT !.step = "respond", !.id = varIds[loop.key]]
      BY <2>2 DEF LoopLookUp
    <3>2. /\ varIds[loop.key] \in Id /\ varIds[loop.key] \in DOMAIN varMap
          /\ varMap[varIds[loop.key]] = loop.key
      BY <2>2, LookUpEffect DEF IInv, TypeInv
    <3> QED
      BY <1>1, <3>1, <3>2, LoopHasEffect
  <2> QED
    BY <2>1, <2>2
<1>3. RequestTypes' /\ KeyStep /\ HeldStep
  BY <1>1 DEF IInv, TypeInv, RequestTypes, KeyStep, HeldStep
<1>4. /\ resolved' \in Seq(Reply) /\ \A i \in DOMAIN resolved' : \E j \in DOMAIN resolved : resolved'[i] = resolved[j]
      /\ held' \subseteq [tid : Tid, kind : {"frame", "var"}, id : Id]
  BY <1>1 DEF IInv, TypeInv, QueueTypes, ClientTypes
<1> QED
  BY <1>1, <1>2, <1>3, <1>4, LoopQuiet

LEMMA LoopAddKeeps ==
  ASSUME IInv, LoopAdd
  PROVE  IInv'
<1>1. /\ loop.step = "add" /\ LoopStep
      /\ UNCHANGED <<resolved, status, held, request, view, phase, at, stops, server>>
  BY DEF LoopAdd, UnchangedByLoop, pydevd, LoopStep
<1>2. PICK id \in Id : AddVar(loop.key, id, server) /\ loop' = [loop EXCEPT !.step = "respond", !.id = id]
  BY DEF LoopAdd
<1>3. loop.key \in VarKey /\ (loop.key \in DOMAIN varIds => loop.key \in doubled)
  BY <1>1 DEF IInv, TypeInv, LoopTypes, AddInv
<1>4. /\ id \in DOMAIN varMap' /\ varMap'[id] = loop.key
      /\ DOMAIN varIds' = DOMAIN varIds \cup {loop.key} /\ doubled \subseteq doubled'
      /\ server.step = "add" /\ server.key = loop.key => loop.key \in doubled'
  BY <1>2, <1>3, AddVarEffect DEF IInv, TypeInv
<1>5. GrowStep /\ MapTypes' /\ late' \subseteq Tid
  BY <1>2, <1>3, IdGrows DEF IInv, TypeInv
<1>6. LoopTypes' /\ LoopInv' /\ loop'.step # "add"
  BY <1>1, <1>2, <1>4, LoopHasEffect
<1>7. AddInv'
  BY <1>1, <1>4, <1>6 DEF IInv, AddInv
<1>8. RequestTypes' /\ KeyStep /\ HeldStep
  BY <1>1 DEF IInv, TypeInv, RequestTypes, KeyStep, HeldStep
<1>9. /\ resolved' \in Seq(Reply) /\ \A i \in DOMAIN resolved' : \E j \in DOMAIN resolved : resolved'[i] = resolved[j]
      /\ held' \subseteq [tid : Tid, kind : {"frame", "var"}, id : Id]
  BY <1>1 DEF IInv, TypeInv, QueueTypes, ClientTypes
<1> QED
  BY <1>1, <1>5, <1>6, <1>7, <1>8, <1>9, LoopCommon

LEMMA LoopRespondKeeps ==
  ASSUME IInv, LoopRespond
  PROVE  IInv'
<1> DEFINE r == loop.req
           id == IF loop.container THEN loop.id ELSE 0
<1>1. /\ loop.step = "respond" /\ Become(r, "answered") /\ Give(r, "var", id) /\ LoopStep
      /\ loop' = LoopIdle /\ UNCHANGED <<resolved, maps, request>>
  BY DEF LoopRespond, UnchangedByLoop, LoopStep
<1>2. r \in DOMAIN request /\ id \in 0..MaxRequests
  BY <1>1, ReqNumbers DEF IInv, TypeInv, LoopTypes
<1>3. Live(r) /\ id # 0 => Stands(varMap, id, request[r].tid)
  BY <1>1 DEF IInv, ResolveInv, LoopInv
<1> HIDE DEF id
<1>4. HeldStep /\ held' \subseteq [tid : Tid, kind : {"frame", "var"}, id : Id]
  BY <1>1, <1>2, <1>3, GiveEffect DEF IInv
<1>5. RequestTypes' /\ KeyStep
  BY <1>1, <1>2, BecomeEffect DEF Stage, IInv, TypeInv
<1>6. LoopTypes' /\ LoopInv' /\ loop'.step # "add"
  BY <1>1, ReqNumbers DEF LoopIdle, LoopTypes, LoopInv, IInv, TypeInv
<1>7. resolved' \in Seq(Reply) /\ \A i \in DOMAIN resolved' : \E j \in DOMAIN resolved : resolved'[i] = resolved[j]
  BY <1>1 DEF IInv, TypeInv, QueueTypes
<1> QED
  BY <1>1, <1>4, <1>5, <1>6, <1>7, LoopQuiet

LEMMA LoopKeeps ==
  ASSUME IInv, LoopStep
  PROVE  IInv'
BY LoopTakeKeeps, LoopLookUpKeeps, LoopAddKeeps, LoopRespondKeeps DEF LoopStep

-----------------------------------------------------------------------------
\* A step that makes no stop known and keeps what stands for the one that is.
LEMMA ResolveStep ==
  ASSUME IInv, UNCHANGED <<request, server, loop>>,
         \A r \in DOMAIN request : status'[r].key = status[r].key /\ status'[r].id = status[r].id,
         \A r \in DOMAIN request : Live(r)' => Live(r),
         \A h \in held' : h \in held /\ (Shown(h.tid)' => Shown(h.tid)),
         \A t \in Tid : Shown(t)' =>
           /\ at'[t] = at[t]
           /\ \A i : Stands(frameMap, i, t) => i \in DOMAIN frameMap' /\ frameMap'[i] = frameMap[i]
           /\ \A i : Stands(varMap, i, t) => i \in DOMAIN varMap' /\ varMap'[i] = varMap[i]
  PROVE  ResolveInv'
<1>1. \A r \in DOMAIN request : request[r].tid \in Tid
  BY ArrivedRequest
<1>2. /\ \A t \in Tid : Shown(t)' =>
           /\ \A i : Stands(frameMap, i, t) => Stands(frameMap, i, t)'
           /\ \A i : Stands(varMap, i, t) => Stands(varMap, i, t)'
           /\ \A k : OfStop(k, t) => OfStop(k, t)'
      /\ \A r \in DOMAIN request : Live(r)' => Shown(request[r].tid)'
  BY DEF Stands, OfStop, Live
<1>3. HeldInv'
  BY <1>2 DEF IInv, TypeInv, ClientTypes, ResolveInv, HeldInv
<1>4. AskedInv'
  BY <1>1, <1>2 DEF IInv, ResolveInv, AskedInv
<1>5. ServerInv'
  BY <1>1, <1>2 DEF IInv, TypeInv, ServerTypes, ResolveInv, ServerInv
<1>6. LoopInv'
  BY <1>1, <1>2 DEF IInv, TypeInv, LoopTypes, ResolveInv, LoopInv
<1> QED
  BY <1>3, <1>4, <1>5, <1>6 DEF ResolveInv

\* So does a step of pydevd, which leaves the maps and the client alone.
LEMMA PydevdStep ==
  ASSUME IInv, UNCHANGED <<stackTraces, maps, request, server, loop, writer, view, held>>,
         \A r \in DOMAIN request : status'[r].key = status[r].key /\ status'[r].id = status[r].id,
         \A t \in Tid : Shown(t)' => Shown(t) /\ at'[t] = at[t]
  PROVE  MapTypes' /\ AddInv' /\ ResolveInv' /\ ClearInv'
<1>0. UNCHANGED <<frameMap, varMap, varIds, nextId, late, doubled>>
  BY DEF maps
<1>1. \A r \in DOMAIN request : Live(r)' => Live(r)
  BY ArrivedRequest DEF Live
<1>2. \A h \in held' : h \in held /\ (Shown(h.tid)' => Shown(h.tid))
  BY DEF IInv, TypeInv, ClientTypes
<1>3. \A t \in Tid : Shown(t)' =>
        /\ at'[t] = at[t]
        /\ \A i : Stands(frameMap, i, t) => i \in DOMAIN frameMap' /\ frameMap'[i] = frameMap[i]
        /\ \A i : Stands(varMap, i, t) => i \in DOMAIN varMap' /\ varMap'[i] = varMap[i]
  BY <1>0 DEF Stands
<1>4. ResolveInv'
  BY <1>1, <1>2, <1>3, ResolveStep
<1>5. ClearInv'
  BY <1>0 DEF IInv, ClearInv, Owned, Single, Working, Clearing
<1>6. MapTypes' /\ AddInv'
  BY <1>0 DEF IInv, TypeInv, MapTypes, VarIdsAgree, AddInv
<1> QED
  BY <1>4, <1>5, <1>6

-----------------------------------------------------------------------------
\* pydevd.
LEMMA StopTypes ==
  ASSUME IInv
  PROVE  /\ \A t \in Tid : stops[t] \in Nat /\ view[t] \in Nat
         /\ \A r \in DOMAIN request : request[r].view \in Nat
         /\ \A i \in DOMAIN outgoing : outgoing[i] \in Message
         /\ \A i \in DOMAIN outgoing : outgoing[i].msg = "suspend" =>
              /\ outgoing[i].stop \in Nat /\ 0 < outgoing[i].stop
              /\ outgoing[i].stop \in 1..MaxStops /\ outgoing[i].tid \in Tid /\ outgoing[i].frame \in Frame
         /\ \A i \in DOMAIN outgoing : outgoing[i].msg = "run" => outgoing[i].tid \in Tid
         /\ \A i \in DOMAIN outgoing : outgoing[i].msg = "reply" => outgoing[i] \in Reply
         /\ writer.step = "stopped" => writer.stop \in Nat /\ 0 < writer.stop
         /\ outgoing \in Seq(Message)
<1>1. \A r \in DOMAIN request : request[r].view \in Nat
  BY ArrivedRequest DEF Request
<1>2. outgoing \in Seq(Message) /\ \A i \in DOMAIN outgoing : outgoing[i] \in Message
  BY ElementOfSeq, LenProperties DEF IInv, TypeInv, QueueTypes
<1>3. \A m \in Message :
        /\ m.msg = "suspend" => /\ m.stop \in Nat /\ 0 < m.stop
                                /\ m.stop \in 1..MaxStops /\ m.tid \in Tid /\ m.frame \in Frame
        /\ m.msg = "run" => m.tid \in Tid
        /\ m.msg = "reply" => m \in Reply
  BY BoundAssumption DEF Message, Reply
<1>4. \A t \in Tid : stops[t] \in Nat /\ view[t] \in Nat
  BY BoundAssumption DEF IInv, TypeInv, PydevdTypes, ClientTypes
<1>5. writer.step = "stopped" => writer.stop \in Nat /\ 0 < writer.stop
  BY BoundAssumption DEF IInv, TypeInv, WriterTypes
<1> QED
  BY <1>1, <1>2, <1>3, <1>4, <1>5

LEMMA EnterKeeps ==
  ASSUME IInv, NEW t \in Tid, NEW f \in Frame, Enter(t, f)
  PROVE  IInv'
<1>1. PICK n \in 1..MaxStops : (\A u \in Tid : stops[u] < n) /\ stops' = [stops EXCEPT ![t] = n]
  BY DEF Enter
<1>2. /\ phase[t] = "run" /\ phase' = [phase EXCEPT ![t] = "enter"] /\ at' = [at EXCEPT ![t] = f]
      /\ UNCHANGED <<outgoing, stackTraces, maps, request, status, server, resolved, loop, writer, view, held>>
  BY DEF Enter, client
<1>3. /\ phase'[t] = "enter" /\ at'[t] = f /\ stops'[t] = n /\ stops[t] < n /\ f # NoFrame
      /\ \A u \in Tid \ {t} : phase'[u] = phase[u] /\ at'[u] = at[u] /\ stops'[u] = stops[u]
  BY <1>1, <1>2, FrameAssumption DEF IInv, TypeInv, PydevdTypes
<1>4. n \in Nat /\ 0 < n
  BY <1>1, BoundAssumption
<1>5. TypeInv'
  <2>1. PydevdTypes'
    BY <1>1, <1>2, BoundAssumption DEF IInv, TypeInv, PydevdTypes
  <2>2. ClientTypes' /\ MapTypes' /\ RequestTypes' /\ ServerTypes' /\ LoopTypes' /\ WriterTypes'
    BY <1>2 DEF IInv, TypeInv, ClientTypes, MapTypes, VarIdsAgree, maps, RequestTypes, ServerTypes, LoopTypes, WriterTypes
  <2>3. QueueTypes'
    BY <1>2 DEF IInv, TypeInv, QueueTypes, Replied
  <2> QED
    BY <2>1, <2>2, <2>3 DEF TypeInv
<1>6. /\ \A k \in Nat : Reached(t, k) => Reached(t, k)' /\ k < n
      /\ \A u \in Tid \ {t}, k \in Nat : Reached(u, k) <=> Reached(u, k)'
  BY <1>2, <1>3, <1>4, StopTypes DEF Reached
<1>7. ~Shown(t)' /\ \A u \in Tid \ {t} : Shown(u)' <=> Shown(u)
  <2>1. view[t] < n
    BY <1>6, StopTypes DEF IInv, StopInv, ThreadStop
  <2>2. view[t] # n
    BY <1>4, <2>1, StopTypes
  <2> QED
    BY <1>2, <1>3, <2>2 DEF Shown
<1>8. StopInv'
  <2>1. ASSUME NEW u \in Tid PROVE ThreadStop(u)'
    <3>1. Reached(u, view[u])'
      BY <1>2, <1>6, StopTypes DEF IInv, StopInv, ThreadStop
    <3>2. (phase[u] = "run" <=> at[u] = NoFrame)' /\ (phase[u] # "run" => stops[u] > 0)'
      BY <1>3, <1>4 DEF IInv, StopInv, ThreadStop
    <3>3. \A i \in DOMAIN outgoing : IsSuspend(outgoing[i], u) => Coming(i, u)'
      <4> SUFFICES ASSUME NEW i \in DOMAIN outgoing, IsSuspend(outgoing[i], u) PROVE Coming(i, u)'
        OBVIOUS
      <4>1. Coming(i, u) /\ outgoing[i].stop \in Nat
        BY StopTypes DEF IInv, StopInv, ThreadStop, IsSuspend
      <4>2. Reached(u, outgoing[i].stop)'
        BY <1>2, <1>6, <4>1 DEF Coming
      <4> QED
        BY <1>2, <1>3, <4>1, <4>2 DEF Coming, Untold, IsSuspend, IsRun
    <3>4. (Shown(u) => stackTraces[u] = at[u] /\ Nothing(u) /\ ~Working(u))'
      BY <1>2, <1>3, <1>7 DEF IInv, StopInv, ThreadStop, Nothing, Working, IsSuspend, IsRun
    <3> QED
      BY <1>2, <3>1, <3>2, <3>3, <3>4 DEF ThreadStop, IsSuspend
  <2>2. \A r \in DOMAIN request : RequestStop(r)'
    <3>1. \A r \in DOMAIN request : request[r].tid \in Tid
      BY ArrivedRequest
    <3> QED
      BY <1>2, <1>6, <3>1, StopTypes DEF IInv, StopInv, RequestStop
  <2>3. writer.step = "stopped" => ToldNext(writer.tid, writer.stop)'
    <3> SUFFICES ASSUME writer.step = "stopped" PROVE ToldNext(writer.tid, writer.stop)'
      OBVIOUS
    <3>1. writer.tid \in Tid /\ writer.stop \in Nat /\ Reached(writer.tid, writer.stop)
      BY StopTypes DEF IInv, TypeInv, WriterTypes, StopInv, ToldNext
    <3>2. Reached(writer.tid, writer.stop)'
      BY <1>2, <1>6, <3>1
    <3> QED
      BY <1>2, <1>3, <3>1, <3>2 DEF IInv, StopInv, ToldNext, Untold, Nothing, IsSuspend, IsRun
  <2> QED
    BY <1>2, <2>1, <2>2, <2>3 DEF StopInv
<1>9. OrderInv'
  BY <1>2, <1>3 DEF IInv, OrderInv, ThreadOrder, RunBetween, Open, Working, IsSuspend, IsRun
<1>10. AddInv' /\ ResolveInv' /\ ClearInv'
  <2>1. \A u \in Tid : Shown(u)' => Shown(u) /\ at'[u] = at[u]
    BY <1>3, <1>7
  <2> QED
    BY <1>2, <2>1, PydevdStep
<1> QED
  BY <1>5, <1>8, <1>9, <1>10 DEF IInv

\* pydevd sends the message e.
LEMMA Appended ==
  ASSUME IInv, NEW e \in Message, outgoing' = Append(outgoing, e), UNCHANGED <<resolved, request>>,
         \A r \in DOMAIN request : status'[r].key = status[r].key,
         e.msg = "reply" => Replied(e)
  PROVE  /\ QueueTypes' /\ Len(outgoing) \in Nat
         /\ DOMAIN outgoing' = DOMAIN outgoing \cup {Len(outgoing) + 1}
         /\ \A i \in DOMAIN outgoing : i \in Nat /\ 0 < i /\ i < Len(outgoing) + 1 /\ outgoing'[i] = outgoing[i]
         /\ outgoing'[Len(outgoing) + 1] = e
         /\ \A i, j, t : RunBetween(i, j, t) => RunBetween(i, j, t)'
<1>1. outgoing \in Seq(Message)
  BY StopTypes
<1>2. /\ outgoing' \in Seq(Message) /\ Len(outgoing) \in Nat
      /\ DOMAIN outgoing' = DOMAIN outgoing \cup {Len(outgoing) + 1}
      /\ \A i \in DOMAIN outgoing : i \in Nat /\ 0 < i /\ i < Len(outgoing) + 1 /\ outgoing'[i] = outgoing[i]
      /\ outgoing'[Len(outgoing) + 1] = e
  BY <1>1, AppendPositions
<1>3. QueueTypes'
  <2>1. \A m : Replied(m) => Replied(m)'
    BY DEF Replied
  <2>2. QueueTypes
    BY DEF IInv, TypeInv
  <2>3. \A i \in DOMAIN outgoing' : outgoing'[i].msg = "reply" => Replied(outgoing'[i])
    BY <1>2, <2>2 DEF QueueTypes
  <2> QED
    BY <1>2, <2>1, <2>2, <2>3 DEF QueueTypes
<1>4. \A i, j, t : RunBetween(i, j, t) => RunBetween(i, j, t)'
  BY <1>2 DEF RunBetween
<1> QED
  BY <1>2, <1>3, <1>4

LEMMA AnnounceKeeps ==
  ASSUME IInv, NEW t \in Tid, Announce(t)
  PROVE  IInv'
<1> DEFINE e == [msg |-> "suspend", tid |-> t, frame |-> at[t], stop |-> stops[t]]
<1>1. /\ phase[t] = "enter" /\ phase' = [phase EXCEPT ![t] = "wait"]
      /\ outgoing' = Append(outgoing, e)
      /\ UNCHANGED <<at, stops, stackTraces, maps, request, status, server, resolved, loop, writer, view, held>>
  BY DEF Announce, client
<1>2. phase'[t] = "wait" /\ \A u \in Tid \ {t} : phase'[u] = phase[u]
  BY <1>1 DEF IInv, TypeInv, PydevdTypes
<1>3. stops[t] \in 1..MaxStops /\ stops[t] \in Nat /\ at[t] \in Frame
  BY <1>1, BoundAssumption DEF IInv, StopInv, ThreadStop, TypeInv, PydevdTypes
<1>4. /\ e \in Message /\ e.msg = "suspend" /\ e.tid = t /\ e.frame = at[t] /\ e.stop = stops[t]
  BY <1>3 DEF Message
<1> HIDE DEF e
<1>5. PICK n \in Nat :
        /\ QueueTypes' /\ DOMAIN outgoing' = DOMAIN outgoing \cup {n}
        /\ \A i \in DOMAIN outgoing : i \in Nat /\ 0 < i /\ i < n /\ outgoing'[i] = outgoing[i]
        /\ outgoing'[n] = e
        /\ \A i, j, u : RunBetween(i, j, u) => RunBetween(i, j, u)'
  BY <1>1, <1>4, Appended
<1>6. TypeInv'
  <2>1. PydevdTypes'
    BY <1>1 DEF IInv, TypeInv, PydevdTypes
  <2>2. ClientTypes' /\ MapTypes' /\ RequestTypes' /\ ServerTypes' /\ LoopTypes' /\ WriterTypes'
    BY <1>1 DEF IInv, TypeInv, ClientTypes, MapTypes, VarIdsAgree, maps, RequestTypes, ServerTypes, LoopTypes, WriterTypes
  <2> QED
    BY <1>5, <2>1, <2>2 DEF TypeInv
\* Every stop that is known of t is an earlier one.
<1>7. /\ \A k \in Nat : Reached(t, k) => Reached(t, k)' /\ k < stops[t]
      /\ \A u \in Tid \ {t}, k \in Nat : Reached(u, k) <=> Reached(u, k)'
  BY <1>1, <1>2, <1>3 DEF Reached
<1>8. ~Shown(t)' /\ \A u \in Tid \ {t} : Shown(u)' <=> Shown(u)
  <2>1. view[t] < stops[t] /\ view[t] # stops[t]
    BY <1>3, <1>7, StopTypes DEF IInv, StopInv, ThreadStop
  <2> QED
    BY <1>1, <1>2, <2>1 DEF Shown
<1>9. \A u \in Tid \ {t} : Nothing(u) => Nothing(u)'
  BY <1>4, <1>5 DEF Nothing, IsSuspend, IsRun
<1>10. StopInv'
  <2>1. ASSUME NEW u \in Tid PROVE ThreadStop(u)'
    <3>1. Reached(u, view[u])'
      BY <1>1, <1>7, StopTypes DEF IInv, StopInv, ThreadStop
    <3>2. (phase[u] = "run" <=> at[u] = NoFrame)' /\ (phase[u] # "run" => stops[u] > 0)'
      BY <1>1, <1>2 DEF IInv, StopInv, ThreadStop
    <3>3. \A i \in DOMAIN outgoing : IsSuspend(outgoing[i], u) => Coming(i, u)'
      <4> SUFFICES ASSUME NEW i \in DOMAIN outgoing, IsSuspend(outgoing[i], u) PROVE Coming(i, u)'
        OBVIOUS
      <4>1. Coming(i, u) /\ outgoing[i].stop \in Nat /\ outgoing'[i] = outgoing[i]
        BY <1>5, StopTypes DEF IInv, StopInv, ThreadStop, IsSuspend
      <4>2. Reached(u, outgoing[i].stop)' /\ (u = t => outgoing[i].stop # stops[t])
        BY <1>1, <1>3, <1>7, <4>1 DEF Coming
      <4>3. \A j \in DOMAIN outgoing' : (IsSuspend(outgoing'[j], u) /\ j < i) => outgoing'[j].stop < outgoing[i].stop
        BY <1>5, <4>1 DEF Coming
      <4>4. (phase'[u] = "wait" /\ outgoing[i].stop = stops[u]) =>
              /\ outgoing[i].frame = at[u]
              /\ \A j \in DOMAIN outgoing' : i < j => ~IsSuspend(outgoing'[j], u) /\ ~IsRun(outgoing'[j], u)
        BY <1>2, <1>4, <1>5, <4>1, <4>2 DEF Coming, IsSuspend, IsRun
      <4> QED
        BY <1>1, <4>1, <4>2, <4>3, <4>4 DEF Coming, Untold
    <3>4. Coming(n, t)'
      <4>1. Reached(t, stops[t])' /\ Untold(t, stops[t])' /\ view[t] < stops[t]
        <5>1. \A r \in DOMAIN request : request[r].tid = t => request[r].view < stops[t]
          BY <1>7, StopTypes DEF IInv, StopInv, RequestStop
        <5> QED
          BY <1>1, <1>2, <1>3, <1>7, <5>1, StopTypes DEF IInv, StopInv, ThreadStop, Reached, Untold
      <4>2. writer.step = "stopped" /\ writer.tid = t => writer.stop < stops[t]
        BY <1>7, StopTypes DEF IInv, StopInv, ToldNext
      <4>3. \A j \in DOMAIN outgoing' : (IsSuspend(outgoing'[j], t) /\ j < n) => outgoing'[j].stop < stops[t]
        <5> SUFFICES ASSUME NEW j \in DOMAIN outgoing, IsSuspend(outgoing[j], t) PROVE outgoing[j].stop < stops[t]
          BY <1>5
        <5> QED
          BY <1>7, StopTypes DEF IInv, StopInv, ThreadStop, Coming, IsSuspend
      <4>4. \A j \in DOMAIN outgoing' : ~(n < j)
        BY <1>5
      <4>5. outgoing'[n].stop = stops[t] /\ outgoing'[n].frame = at[t]
        BY <1>4, <1>5
      <4> QED
        BY <1>1, <4>1, <4>2, <4>3, <4>4, <4>5 DEF Coming
    <3>5. (Shown(u) => stackTraces[u] = at[u] /\ Nothing(u) /\ ~Working(u))'
      BY <1>1, <1>8, <1>9 DEF IInv, StopInv, ThreadStop, Working
    <3>6. \A i \in DOMAIN outgoing' : IsSuspend(outgoing'[i], u) => Coming(i, u)'
      <4> SUFFICES ASSUME NEW i \in DOMAIN outgoing', IsSuspend(outgoing'[i], u) PROVE Coming(i, u)'
        OBVIOUS
      <4>1. CASE i \in DOMAIN outgoing
        BY <1>5, <3>3, <4>1
      <4>2. CASE i = n
        BY <1>4, <1>5, <3>4, <4>2 DEF IsSuspend
      <4> QED
        BY <1>5, <4>1, <4>2
    <3> QED
      BY <3>1, <3>2, <3>5, <3>6 DEF ThreadStop
  <2>2. \A r \in DOMAIN request : RequestStop(r)'
    BY <1>1, <1>7, ArrivedRequest, StopTypes DEF IInv, StopInv, RequestStop
  <2>3. writer.step = "stopped" => ToldNext(writer.tid, writer.stop)'
    <3> SUFFICES ASSUME writer.step = "stopped" PROVE ToldNext(writer.tid, writer.stop)'
      OBVIOUS
    <3>1. /\ writer.tid \in Tid /\ writer.stop \in Nat /\ ToldNext(writer.tid, writer.stop)
          /\ Reached(writer.tid, writer.stop)
      BY StopTypes DEF IInv, TypeInv, WriterTypes, StopInv, ToldNext
    <3>2. Reached(writer.tid, writer.stop)' /\ (writer.tid = t => writer.stop # stops[t])
      BY <1>1, <1>3, <1>7, <3>1
    <3> QED
      BY <1>1, <1>2, <1>9, <3>1, <3>2 DEF ToldNext, Untold
  <2> QED
    BY <1>1, <2>1, <2>2, <2>3 DEF StopInv
<1>11. OrderInv'
  <2> SUFFICES ASSUME NEW u \in Tid PROVE ThreadOrder(u)'
    BY DEF OrderInv
  <2>1. ThreadOrder(u) /\ (Open(u)' <=> Open(u))
    BY <1>1 DEF IInv, OrderInv, Open, Working
  <2>2. ASSUME NEW k \in DOMAIN outgoing, IsRun(outgoing[k], t), NEW i \in Nat, i < k
        PROVE  RunBetween(i, n, t)'
    <3>1. k \in DOMAIN outgoing' /\ k < n /\ IsRun(outgoing'[k], t)
      BY <1>5, <2>2
    <3> QED
      BY <2>2, <3>1 DEF RunBetween
  <2>3. (u = t /\ Open(t)) => RunBetween(0, n, t)'
    BY <1>1, <1>5, <2>1, <2>2 DEF ThreadOrder
  <2>4. u = t => (\A i \in DOMAIN outgoing : IsSuspend(outgoing[i], t) => RunBetween(i, n, t)')
    BY <1>1, <1>5, <2>1, <2>2 DEF ThreadOrder
  <2>5. \A i \in DOMAIN outgoing' : IsSuspend(outgoing'[i], u) => i \in DOMAIN outgoing \/ (u = t /\ i = n)
    BY <1>4, <1>5 DEF IsSuspend
  <2>6. \A i \in DOMAIN outgoing : ~(n < i)
    BY <1>5
  <2>7. \A i \in DOMAIN outgoing' : IsSuspend(outgoing'[i], u) =>
          /\ Open(u)' => RunBetween(0, i, u)'
          /\ \A j \in DOMAIN outgoing' : (IsSuspend(outgoing'[j], u) /\ i < j) => RunBetween(i, j, u)'
    <3> SUFFICES ASSUME NEW i \in DOMAIN outgoing', IsSuspend(outgoing'[i], u)
                 PROVE  /\ Open(u)' => RunBetween(0, i, u)'
                        /\ \A j \in DOMAIN outgoing' : (IsSuspend(outgoing'[j], u) /\ i < j) => RunBetween(i, j, u)'
      OBVIOUS
    <3>1. Open(u)' => RunBetween(0, i, u)'
      <4>1. CASE i \in DOMAIN outgoing
        <5>1. IsSuspend(outgoing[i], u)
          BY <1>5, <4>1
        <5> QED
          BY <1>5, <2>1, <4>1, <5>1 DEF ThreadOrder
      <4> QED
        BY <2>1, <2>3, <2>5, <4>1
    <3>2. ASSUME NEW j \in DOMAIN outgoing', IsSuspend(outgoing'[j], u), i < j PROVE RunBetween(i, j, u)'
      <4>1. i \in DOMAIN outgoing
        BY <1>5, <2>5, <2>6, <3>2
      <4>2. IsSuspend(outgoing[i], u)
        BY <1>5, <4>1
      <4>3. CASE j \in DOMAIN outgoing
        <5>1. IsSuspend(outgoing[j], u)
          BY <1>5, <3>2, <4>3
        <5> QED
          BY <1>5, <2>1, <3>2, <4>1, <4>2, <4>3, <5>1 DEF ThreadOrder
      <4> QED
        BY <2>4, <2>5, <3>2, <4>1, <4>2, <4>3
    <3> QED
      BY <3>1, <3>2
  <2>8. phase'[u] # "wait" => u # t /\ phase[u] # "wait"
    BY <1>2
  <2> QED
    BY <1>1, <1>5, <2>1, <2>5, <2>7, <2>8 DEF ThreadOrder
<1>12. AddInv' /\ ResolveInv' /\ ClearInv'
  <2>1. \A u \in Tid : Shown(u)' => Shown(u) /\ at'[u] = at[u]
    BY <1>1, <1>8
  <2> QED
    BY <1>1, <2>1, PydevdStep
<1> QED
  BY <1>6, <1>10, <1>11, <1>12 DEF IInv

LEMMA ResumeKeeps ==
  ASSUME IInv, NEW t \in Tid, Resume(t)
  PROVE  IInv'
<1> DEFINE e == [msg |-> "run", tid |-> t]
<1>1. /\ phase[t] = "wait" /\ phase' = [phase EXCEPT ![t] = "run"] /\ at' = [at EXCEPT ![t] = NoFrame]
      /\ outgoing' = Append(outgoing, e)
      /\ UNCHANGED <<stops, stackTraces, maps, request, status, server, resolved, loop, writer, view, held>>
  BY DEF Resume, client
<1>2. /\ phase'[t] = "run" /\ at'[t] = NoFrame
      /\ \A u \in Tid \ {t} : phase'[u] = phase[u] /\ at'[u] = at[u]
  BY <1>1 DEF IInv, TypeInv, PydevdTypes
<1>3. e \in Message /\ e.msg = "run" /\ e.tid = t
  BY DEF Message
<1> HIDE DEF e
<1>4. PICK n \in Nat :
        /\ QueueTypes' /\ DOMAIN outgoing' = DOMAIN outgoing \cup {n}
        /\ \A i \in DOMAIN outgoing : i \in Nat /\ 0 < i /\ i < n /\ outgoing'[i] = outgoing[i]
        /\ outgoing'[n] = e
        /\ \A i, j, u : RunBetween(i, j, u) => RunBetween(i, j, u)'
  BY <1>1, <1>3, Appended
<1>5. /\ \A u, i : i \in DOMAIN outgoing' /\ IsSuspend(outgoing'[i], u) =>
           i \in DOMAIN outgoing /\ IsSuspend(outgoing[i], u) /\ outgoing'[i] = outgoing[i]
      /\ \A u \in Tid \ {t}, i \in DOMAIN outgoing' : IsRun(outgoing'[i], u) =>
           i \in DOMAIN outgoing /\ IsRun(outgoing[i], u)
      /\ IsRun(outgoing'[n], t)
  BY <1>3, <1>4 DEF IsSuspend, IsRun
<1>6. TypeInv'
  <2>1. PydevdTypes'
    BY <1>1 DEF IInv, TypeInv, PydevdTypes
  <2>2. ClientTypes' /\ MapTypes' /\ RequestTypes' /\ ServerTypes' /\ LoopTypes' /\ WriterTypes'
    BY <1>1 DEF IInv, TypeInv, ClientTypes, MapTypes, VarIdsAgree, maps, RequestTypes, ServerTypes, LoopTypes, WriterTypes
  <2> QED
    BY <1>4, <2>1, <2>2 DEF TypeInv
<1>7. \A u \in Tid : \A k : Reached(u, k) => Reached(u, k)'
  BY <1>1, <1>2 DEF Reached
<1>8. ~Shown(t)' /\ \A u \in Tid \ {t} : Shown(u)' <=> Shown(u)
  BY <1>1, <1>2 DEF Shown
<1>9. \A u \in Tid \ {t} : Nothing(u) => Nothing(u)'
  BY <1>4, <1>5 DEF Nothing
<1>10. StopInv'
  <2>1. ASSUME NEW u \in Tid PROVE ThreadStop(u)'
    <3>1. Reached(u, view[u])'
      BY <1>1, <1>7 DEF IInv, StopInv, ThreadStop
    <3>2. (phase[u] = "run" <=> at[u] = NoFrame)' /\ (phase[u] # "run" => stops[u] > 0)'
      BY <1>1, <1>2 DEF IInv, StopInv, ThreadStop
    <3>3. \A i \in DOMAIN outgoing' : IsSuspend(outgoing'[i], u) => Coming(i, u)'
      <4> SUFFICES ASSUME NEW i \in DOMAIN outgoing', IsSuspend(outgoing'[i], u) PROVE Coming(i, u)'
        OBVIOUS
      <4>1. /\ i \in DOMAIN outgoing /\ IsSuspend(outgoing[i], u) /\ outgoing'[i] = outgoing[i]
            /\ Coming(i, u)
        BY <1>5 DEF IInv, StopInv, ThreadStop
      <4>2. Reached(u, outgoing[i].stop)'
        BY <1>1, <1>7, <4>1 DEF Coming
      <4>3. \A j \in DOMAIN outgoing' : (IsSuspend(outgoing'[j], u) /\ j < i) => outgoing'[j].stop < outgoing[i].stop
        BY <1>5, <4>1 DEF Coming
      <4>4. (phase'[u] = "wait" /\ outgoing[i].stop = stops[u]) =>
              /\ outgoing[i].frame = at'[u]
              /\ \A j \in DOMAIN outgoing' : i < j => ~IsSuspend(outgoing'[j], u) /\ ~IsRun(outgoing'[j], u)
        BY <1>2, <1>5, <4>1 DEF Coming
      <4> QED
        BY <1>1, <4>1, <4>2, <4>3, <4>4 DEF Coming, Untold
    <3>4. (Shown(u) => stackTraces[u] = at[u] /\ Nothing(u) /\ ~Working(u))'
      BY <1>1, <1>2, <1>8, <1>9 DEF IInv, StopInv, ThreadStop, Working
    <3> QED
      BY <3>1, <3>2, <3>3, <3>4 DEF ThreadStop
  <2>2. \A r \in DOMAIN request : RequestStop(r)'
    BY <1>1, <1>7, ArrivedRequest DEF IInv, StopInv, RequestStop
  <2>3. writer.step = "stopped" => ToldNext(writer.tid, writer.stop)'
    <3> SUFFICES ASSUME writer.step = "stopped" PROVE ToldNext(writer.tid, writer.stop)'
      OBVIOUS
    <3>1. writer.tid \in Tid /\ ToldNext(writer.tid, writer.stop)
      BY DEF IInv, TypeInv, WriterTypes, StopInv
    <3>2. Reached(writer.tid, writer.stop)'
      BY <1>1, <1>7, <3>1 DEF ToldNext
    <3> QED
      BY <1>1, <1>2, <1>9, <3>1, <3>2 DEF ToldNext, Untold
  <2> QED
    BY <1>1, <2>1, <2>2, <2>3 DEF StopInv
<1>11. OrderInv'
  <2> SUFFICES ASSUME NEW u \in Tid PROVE ThreadOrder(u)'
    BY DEF OrderInv
  <2>1. ThreadOrder(u) /\ (Open(u)' <=> Open(u))
    BY <1>1 DEF IInv, OrderInv, Open, Working
  <2>2. \A i \in DOMAIN outgoing' : IsSuspend(outgoing'[i], u) =>
          /\ Open(u)' => RunBetween(0, i, u)'
          /\ \A j \in DOMAIN outgoing' : (IsSuspend(outgoing'[j], u) /\ i < j) => RunBetween(i, j, u)'
    BY <1>4, <1>5, <2>1 DEF ThreadOrder
  <2>3. phase'[u] # "wait" =>
          /\ Open(u)' => \E k \in DOMAIN outgoing' : IsRun(outgoing'[k], u)
          /\ \A i \in DOMAIN outgoing' : IsSuspend(outgoing'[i], u) =>
               \E k \in DOMAIN outgoing' : i < k /\ IsRun(outgoing'[k], u)
    <3>1. CASE u = t
      <4>1. n \in DOMAIN outgoing' /\ IsRun(outgoing'[n], u)
        BY <1>4, <1>5, <3>1
      <4>2. \A i \in DOMAIN outgoing : i < n
        BY <1>4
      <4> QED
        BY <1>5, <4>1, <4>2
    <3>2. CASE u # t
      BY <1>2, <1>4, <1>5, <2>1, <3>2 DEF ThreadOrder
    <3> QED
      BY <3>1, <3>2
  <2> QED
    BY <1>1, <2>1, <2>2, <2>3 DEF ThreadOrder
<1>12. AddInv' /\ ResolveInv' /\ ClearInv'
  <2>1. \A u \in Tid : Shown(u)' => Shown(u) /\ at'[u] = at[u]
    BY <1>2, <1>8
  <2> QED
    BY <1>1, <2>1, PydevdStep
<1> QED
  BY <1>6, <1>10, <1>11, <1>12 DEF IInv

LEMMA ExecuteKeeps ==
  ASSUME IInv, NEW r \in DOMAIN request, Execute(r)
  PROVE  IInv'
<1>1. /\ status[r].is = "posted" /\ Become(r, "executed")
      /\ UNCHANGED <<phase, at, stops, stackTraces, maps, request, server, resolved, loop, writer, view, held>>
  BY DEF Execute, Become, client, pydevd
<1>2. PICK ok \in BOOLEAN, container \in BOOLEAN :
        outgoing' = Append(outgoing, [msg |-> "reply", req |-> r, ok |-> ok, container |-> container])
  BY DEF Execute
<1> DEFINE e == [msg |-> "reply", req |-> r, ok |-> ok, container |-> container]
<1>3. status[r].key \in VarKey
  BY <1>1 DEF IInv, TypeInv, RequestTypes
<1>4. /\ e \in Message /\ e.msg = "reply" /\ Replied(e)
  BY <1>3, ReqNumbers DEF Message, Reply, Replied, IInv, TypeInv
<1> HIDE DEF e
<1>5. RequestTypes' /\ \A q \in DOMAIN request : status'[q].key = status[q].key /\ status'[q].id = status[q].id
  BY <1>1, <1>3, BecomeEffect DEF Stage, IInv, TypeInv
<1>6. PICK n \in Nat :
        /\ QueueTypes' /\ DOMAIN outgoing' = DOMAIN outgoing \cup {n}
        /\ \A i \in DOMAIN outgoing : i \in Nat /\ 0 < i /\ i < n /\ outgoing'[i] = outgoing[i]
        /\ outgoing'[n] = e
        /\ \A i, j, u : RunBetween(i, j, u) => RunBetween(i, j, u)'
  BY <1>1, <1>2, <1>4, <1>5, Appended DEF e
<1>7. \A u, i : /\ i \in DOMAIN outgoing' /\ IsSuspend(outgoing'[i], u) =>
                     i \in DOMAIN outgoing /\ IsSuspend(outgoing[i], u) /\ outgoing'[i] = outgoing[i]
                /\ i \in DOMAIN outgoing' /\ IsRun(outgoing'[i], u) =>
                     i \in DOMAIN outgoing /\ IsRun(outgoing[i], u)
  BY <1>4, <1>6 DEF IsSuspend, IsRun
<1>8. TypeInv'
  BY <1>1, <1>5, <1>6 DEF IInv, TypeInv, PydevdTypes, ClientTypes, MapTypes, VarIdsAgree, maps, ServerTypes,
                         LoopTypes, WriterTypes
<1>9. \A u \in Tid : Nothing(u) => Nothing(u)'
  BY <1>7 DEF Nothing
<1>10. StopInv'
  <2>1. ASSUME NEW u \in Tid PROVE ThreadStop(u)'
    <3>1. \A i \in DOMAIN outgoing' : IsSuspend(outgoing'[i], u) => Coming(i, u)'
      <4> SUFFICES ASSUME NEW i \in DOMAIN outgoing', IsSuspend(outgoing'[i], u) PROVE Coming(i, u)'
        OBVIOUS
      <4>1. /\ i \in DOMAIN outgoing /\ IsSuspend(outgoing[i], u) /\ outgoing'[i] = outgoing[i]
            /\ Coming(i, u)
        BY <1>7 DEF IInv, StopInv, ThreadStop
      <4> QED
        BY <1>1, <1>7, <4>1 DEF Coming, Untold, Reached
    <3> QED
      BY <1>1, <1>9, <3>1 DEF IInv, StopInv, ThreadStop, Reached, Shown, Working
  <2>2. \A q \in DOMAIN request : RequestStop(q)'
    BY <1>1 DEF IInv, StopInv, RequestStop, Reached
  <2>3. writer.step = "stopped" => ToldNext(writer.tid, writer.stop)'
    BY <1>1, <1>9 DEF IInv, TypeInv, WriterTypes, StopInv, ToldNext, Untold, Reached
  <2> QED
    BY <1>1, <2>1, <2>2, <2>3 DEF StopInv
<1>11. OrderInv'
  <2> SUFFICES ASSUME NEW u \in Tid PROVE ThreadOrder(u)'
    BY DEF OrderInv
  <2>1. ThreadOrder(u) /\ (Open(u)' <=> Open(u))
    BY <1>1 DEF IInv, OrderInv, Open, Working
  <2> QED
    BY <1>1, <1>6, <1>7, <2>1 DEF ThreadOrder
<1>12. AddInv' /\ ResolveInv' /\ ClearInv'
  BY <1>1, <1>5, PydevdStep DEF Shown
<1> QED
  BY <1>8, <1>10, <1>11, <1>12 DEF IInv

-----------------------------------------------------------------------------
\* The client.
LEMMA AskKeeps ==
  ASSUME IInv, NEW t \in Tid, Ask(t)
  PROVE  IInv'
<1>1. PICK kind \in Kind, id \in 0..MaxRequests :
        /\ Send(kind, t, id)
        /\ kind \in {"scopes", "evaluate"} => \E h \in Held(t, "frame") : h.id = id
        /\ kind \in {"variables", "setVariable"} => \E h \in Held(t, "var") : h.id = id
  <2>1. \A h \in held : h.id \in 0..MaxRequests
    BY BoundAssumption DEF IInv, TypeInv, ClientTypes, Id
  <2>2. CASE Send("stackTrace", t, 0)
    BY <2>2, ReqNumbers DEF Kind, IInv, TypeInv
  <2>3. ASSUME NEW h \in Held(t, "frame"), NEW k \in {"scopes", "evaluate"}, Send(k, t, h.id)
        PROVE  \E kind \in Kind, id \in 0..MaxRequests :
                 /\ Send(kind, t, id)
                 /\ kind \in {"scopes", "evaluate"} => \E g \in Held(t, "frame") : g.id = id
                 /\ kind \in {"variables", "setVariable"} => \E g \in Held(t, "var") : g.id = id
    <3>1. h.id \in 0..MaxRequests /\ k \in Kind
      BY <2>1, <2>3 DEF Held, Kind
    <3> QED
      BY <2>3, <3>1
  <2>4. ASSUME NEW h \in Held(t, "var"), NEW k \in {"variables", "setVariable"}, Send(k, t, h.id)
        PROVE  \E kind \in Kind, id \in 0..MaxRequests :
                 /\ Send(kind, t, id)
                 /\ kind \in {"scopes", "evaluate"} => \E g \in Held(t, "frame") : g.id = id
                 /\ kind \in {"variables", "setVariable"} => \E g \in Held(t, "var") : g.id = id
    <3>1. h.id \in 0..MaxRequests /\ k \in Kind
      BY <2>1, <2>4 DEF Held, Kind
    <3> QED
      BY <2>4, <3>1
  <2> QED
    BY <2>2, <2>3, <2>4 DEF Ask
<1> DEFINE e == [kind |-> kind, tid |-> t, id |-> id, view |-> view[t]]
           s == [is |-> "sent", key |-> NoKey, id |-> 0]
<1>2. /\ view[t] # 0 /\ Len(request) < MaxRequests
      /\ request' = Append(request, e) /\ status' = Append(status, s)
      /\ UNCHANGED <<phase, at, stops, outgoing, stackTraces, frameMap, varMap, varIds, nextId, late, doubled,
                     server, resolved, loop, writer, view, held>>
  BY <1>1 DEF Ask, Send, pydevd, maps, client
<1>3. /\ e \in Request /\ e.kind = kind /\ e.tid = t /\ e.id = id /\ e.view = view[t]
      /\ s \in Status /\ s.is = "sent" /\ s.key \notin VarKey /\ s.id = 0
  <2>1. view[t] \in 1..MaxStops
    BY <1>2, BoundAssumption DEF IInv, TypeInv, ClientTypes
  <2>2. NoKey \notin VarKey
    BY DEF NoKey, VarKey
  <2> QED
    BY <1>1, <2>1, <2>2, ReqNumbers DEF Request, Status, Stage, IInv, TypeInv
<1> HIDE DEF e, s
<1>4. PICK n \in Nat :
        /\ request' \in Seq(Request) /\ status' \in Seq(Status)
        /\ n = Len(request) + 1 /\ Len(request') = n /\ Len(status') = n
        /\ DOMAIN request' = DOMAIN request \cup {n}
        /\ \A r \in DOMAIN request : r # n /\ request'[r] = request[r] /\ status'[r] = status[r]
        /\ request'[n] = e /\ status'[n] = s
  <2>1. request \in Seq(Request) /\ status \in Seq(Status) /\ Len(status) = Len(request)
        /\ DOMAIN status = DOMAIN request
    BY LenProperties DEF IInv, TypeInv, RequestTypes
  <2> QED
    BY <1>2, <1>3, <2>1, AppendPositions
<1>5. TypeInv'
  <2>1. RequestTypes'
    <3>1. Len(request') <= MaxRequests /\ Len(status') = Len(request')
      BY <1>2, <1>4, BoundAssumption, LenProperties DEF IInv, TypeInv, RequestTypes
    <3>2. \A r \in DOMAIN request' : status'[r].is \in {"posted", "executed"} => status'[r].key \in VarKey
      BY <1>3, <1>4 DEF IInv, TypeInv, RequestTypes
    <3> QED
      BY <1>4, <3>1, <3>2 DEF RequestTypes
  <2>2. PydevdTypes' /\ ClientTypes' /\ MapTypes' /\ WriterTypes'
    BY <1>2 DEF IInv, TypeInv, PydevdTypes, ClientTypes, MapTypes, VarIdsAgree, WriterTypes
  <2>3. QueueTypes'
    BY <1>2, <1>4 DEF IInv, TypeInv, QueueTypes, Replied
  <2>4. ServerTypes' /\ LoopTypes'
    BY <1>2, <1>4 DEF IInv, TypeInv, ServerTypes, LoopTypes
  <2> QED
    BY <2>1, <2>2, <2>3, <2>4 DEF TypeInv
<1>6. \A u \in Tid : \A k : Untold(u, k) /\ (u = t => view[t] < k) => Untold(u, k)'
  BY <1>3, <1>4 DEF Untold
<1>7. /\ \A u : Shown(u)' <=> Shown(u)
      /\ \A u, k : Reached(u, k)' <=> Reached(u, k)
      /\ \A u : Nothing(u)' <=> Nothing(u)
  BY <1>2 DEF Shown, Reached, Nothing
<1>8. StopInv'
  <2>1. ASSUME NEW u \in Tid PROVE ThreadStop(u)'
    <3>1. \A i \in DOMAIN outgoing : IsSuspend(outgoing[i], u) => Coming(i, u)'
      <4> SUFFICES ASSUME NEW i \in DOMAIN outgoing, IsSuspend(outgoing[i], u) PROVE Coming(i, u)'
        OBVIOUS
      <4>1. Coming(i, u)
        BY DEF IInv, StopInv, ThreadStop
      <4>2. Untold(u, outgoing[i].stop)'
        BY <1>2, <1>6, <4>1 DEF Coming
      <4> QED
        BY <1>2, <1>7, <4>1, <4>2 DEF Coming
    <3> QED
      BY <1>2, <1>7, <3>1 DEF IInv, StopInv, ThreadStop, Working
  <2>2. \A r \in DOMAIN request' : RequestStop(r)'
    <3>1. \A r \in DOMAIN request : RequestStop(r)'
      BY <1>4, <1>7 DEF IInv, StopInv, RequestStop
    <3>2. Reached(t, view[t])
      BY DEF IInv, StopInv, ThreadStop
    <3> QED
      BY <1>3, <1>4, <1>7, <3>1, <3>2 DEF RequestStop
  <2>3. writer.step = "stopped" => ToldNext(writer.tid, writer.stop)'
    <3> SUFFICES ASSUME writer.step = "stopped" PROVE ToldNext(writer.tid, writer.stop)'
      OBVIOUS
    <3>1. writer.tid \in Tid /\ ToldNext(writer.tid, writer.stop) /\ writer.tid # t
      BY <1>2 DEF IInv, TypeInv, WriterTypes, StopInv, ToldNext
    <3>2. Untold(writer.tid, writer.stop)'
      BY <1>2, <1>6, <3>1 DEF ToldNext
    <3> QED
      BY <1>2, <1>7, <3>1, <3>2 DEF ToldNext
  <2> QED
    BY <1>2, <2>1, <2>2, <2>3 DEF StopInv
<1>9. OrderInv'
  BY <1>2 DEF IInv, OrderInv, ThreadOrder, Open, Working, RunBetween
<1>10. ResolveInv'
  <2>1. /\ \A i, u : Stands(frameMap, i, u)' <=> Stands(frameMap, i, u)
        /\ \A i, u : Stands(varMap, i, u)' <=> Stands(varMap, i, u)
        /\ \A k, u : OfStop(k, u)' <=> OfStop(k, u)
        /\ \A r \in DOMAIN request : Live(r)' <=> Live(r)
    BY <1>2, <1>4, <1>7 DEF Stands, OfStop, Live
  <2>2. HeldInv'
    BY <1>2, <1>7, <2>1 DEF IInv, ResolveInv, HeldInv
  <2>3. AskedInv'
    <3> SUFFICES ASSUME NEW r \in DOMAIN request', Live(r)'
                 PROVE  (LET u == request[r].tid IN
                         /\ request[r].kind \in {"scopes", "evaluate"} => Stands(frameMap, request[r].id, u)
                         /\ request[r].kind \in {"variables", "setVariable"} => Stands(varMap, request[r].id, u)
                         /\ status[r].key \in VarKey => OfStop(status[r].key, u)
                         /\ status[r].id # 0 => Stands(varMap, status[r].id, u))'
      BY DEF AskedInv
    <3>1. CASE r \in DOMAIN request
      BY <1>4, <2>1, <3>1 DEF IInv, ResolveInv, AskedInv
    <3>2. CASE r = n
      <4>1. Shown(t)
        BY <1>3, <1>4, <1>7, <3>2 DEF Live
      <4>2. /\ \A h \in Held(t, "frame") : Stands(frameMap, h.id, t)
            /\ \A h \in Held(t, "var") : Stands(varMap, h.id, t)
        BY <4>1 DEF Held, IInv, ResolveInv, HeldInv
      <4> QED
        BY <1>1, <1>3, <1>4, <2>1, <3>2, <4>2
    <3> QED
      BY <1>4, <3>1, <3>2
  <2>4. ServerInv'
    BY <1>2, <1>4, <2>1 DEF IInv, TypeInv, ServerTypes, ResolveInv, ServerInv
  <2>5. LoopInv'
    BY <1>2, <1>4, <2>1 DEF IInv, TypeInv, LoopTypes, ResolveInv, LoopInv
  <2> QED
    BY <2>2, <2>3, <2>4, <2>5 DEF ResolveInv
<1>11. AddInv' /\ ClearInv'
  BY <1>2 DEF IInv, AddInv, ClearInv, Owned, Single, Working, Clearing
<1> QED
  BY <1>5, <1>8, <1>9, <1>10, <1>11 DEF IInv

-----------------------------------------------------------------------------
\* The writer thread takes the first message.
LEMMA Taken ==
  ASSUME IInv, outgoing # <<>>, outgoing' = Tail(outgoing)
  PROVE  /\ Head(outgoing) \in Message /\ 1 \in DOMAIN outgoing /\ outgoing[1] = Head(outgoing)
         /\ outgoing' \in Seq(Message)
         /\ \A i \in DOMAIN outgoing : i \in Nat /\ 0 < i
         /\ \A i \in DOMAIN outgoing' : /\ i \in Nat /\ 0 < i /\ 1 < i + 1 /\ i + 1 \in DOMAIN outgoing
                                        /\ outgoing'[i] = outgoing[i + 1]
         /\ \A i \in DOMAIN outgoing : 1 < i => \E j \in DOMAIN outgoing' : i = j + 1
         /\ \A u : Nothing(u) => Nothing(u)'
         /\ \A i, j \in Nat : \A u : RunBetween(i + 1, j + 1, u) => RunBetween(i, j, u)'
         /\ \A j \in Nat : \A u : RunBetween(0, j + 1, u) /\ ~IsRun(outgoing[1], u) => RunBetween(0, j, u)'
<1>1. outgoing \in Seq(Message)
  BY StopTypes
<1>2. /\ Head(outgoing) \in Message /\ 1 \in DOMAIN outgoing /\ outgoing[1] = Head(outgoing)
      /\ outgoing' \in Seq(Message)
      /\ \A i \in DOMAIN outgoing : i \in Nat /\ 0 < i
      /\ \A i \in DOMAIN outgoing' : /\ i \in Nat /\ 0 < i /\ 1 < i + 1 /\ i + 1 \in DOMAIN outgoing
                                     /\ outgoing'[i] = outgoing[i + 1]
      /\ \A i \in DOMAIN outgoing : 1 < i => \E j \in DOMAIN outgoing' : i = j + 1
  BY <1>1, TailPositions
<1>3. \A u : Nothing(u) => Nothing(u)'
  BY <1>2 DEF Nothing, IsSuspend, IsRun
<1>4. ASSUME NEW i \in Nat, NEW j \in Nat, NEW u, RunBetween(i + 1, j + 1, u) PROVE RunBetween(i, j, u)'
  <2>1. PICK k \in DOMAIN outgoing : i + 1 < k /\ k < j + 1 /\ IsRun(outgoing[k], u)
    BY <1>4 DEF RunBetween
  <2>2. 1 < k
    BY <1>2, <2>1
  <2>3. PICK l \in DOMAIN outgoing' : k = l + 1
    BY <1>2, <2>2
  <2>4. i < l /\ l < j
    BY <1>2, <2>1, <2>3
  <2>5. IsRun(outgoing'[l], u)
    BY <1>2, <2>1, <2>3
  <2> QED
    BY <2>4, <2>5 DEF RunBetween
<1>5. ASSUME NEW j \in Nat, NEW u, RunBetween(0, j + 1, u), ~IsRun(outgoing[1], u) PROVE RunBetween(0, j, u)'
  <2>1. PICK k \in DOMAIN outgoing : k < j + 1 /\ IsRun(outgoing[k], u)
    BY <1>5 DEF RunBetween
  <2>2. k \in Nat /\ 0 < k /\ k # 1
    BY <1>2, <1>5, <2>1
  <2>3. PICK l \in DOMAIN outgoing' : k = l + 1
    BY <1>2, <2>2
  <2>4. 0 < l /\ l < j
    BY <1>2, <2>1, <2>3
  <2>5. IsRun(outgoing'[l], u)
    BY <1>2, <2>1, <2>3
  <2> QED
    BY <2>4, <2>5 DEF RunBetween
<1> QED
  BY <1>2, <1>3, <1>4, <1>5

LEMMA TakenStop ==
  ASSUME IInv, outgoing # <<>>, outgoing' = Tail(outgoing), UNCHANGED <<phase, at, stops, request, view>>,
         \A u \in Tid : Shown(u) => stackTraces'[u] = stackTraces[u] /\ ~Working(u)',
         \A i \in DOMAIN outgoing' :
           writer'.step = "stopped" /\ IsSuspend(outgoing'[i], writer'.tid) =>
             writer'.stop < outgoing'[i].stop,
         writer'.step = "stopped" => ToldNext(writer.tid, writer.stop)'
  PROVE  StopInv'
<1>1. /\ \A u : Shown(u)' <=> Shown(u)
      /\ \A u, k : Reached(u, k)' <=> Reached(u, k)
      /\ \A u, k : Untold(u, k)' <=> Untold(u, k)
  BY DEF Shown, Reached, Untold
<1>2. ASSUME NEW u \in Tid PROVE ThreadStop(u)'
  <2>1. ASSUME NEW i \in DOMAIN outgoing', IsSuspend(outgoing'[i], u) PROVE Coming(i, u)'
    <3>1. /\ i \in Nat /\ i + 1 \in DOMAIN outgoing /\ outgoing'[i] = outgoing[i + 1]
      BY <2>1, Taken
    <3>2. Coming(i + 1, u)
      BY <2>1, <3>1 DEF IInv, StopInv, ThreadStop
    <3>3. ASSUME NEW j \in DOMAIN outgoing', IsSuspend(outgoing'[j], u), j < i
          PROVE  outgoing'[j].stop < outgoing'[i].stop
      <4>1. j \in Nat /\ j + 1 \in DOMAIN outgoing /\ outgoing'[j] = outgoing[j + 1]
        BY <3>3, Taken
      <4>2. j + 1 < i + 1
        BY <3>1, <3>3, <4>1
      <4> QED
        BY <3>1, <3>2, <3>3, <4>1, <4>2 DEF Coming
    <3>4. ASSUME phase[u] = "wait", outgoing'[i].stop = stops[u]
          PROVE  /\ outgoing'[i].frame = at[u]
                 /\ \A j \in DOMAIN outgoing' : i < j => ~IsSuspend(outgoing'[j], u) /\ ~IsRun(outgoing'[j], u)
      <4>1. outgoing'[i].frame = at[u]
        BY <3>1, <3>2, <3>4 DEF Coming
      <4>2. ASSUME NEW j \in DOMAIN outgoing', i < j PROVE ~IsSuspend(outgoing'[j], u) /\ ~IsRun(outgoing'[j], u)
        <5>1. j \in Nat /\ j + 1 \in DOMAIN outgoing /\ outgoing'[j] = outgoing[j + 1]
          BY <4>2, Taken
        <5>2. i + 1 < j + 1
          BY <3>1, <4>2, <5>1
        <5> QED
          BY <3>1, <3>2, <3>4, <5>1, <5>2 DEF Coming
      <4> QED
        BY <4>1, <4>2
    <3>5. Reached(u, outgoing'[i].stop) /\ Untold(u, outgoing'[i].stop) /\ view[u] < outgoing'[i].stop
      BY <3>1, <3>2 DEF Coming
    <3>6. writer'.step = "stopped" /\ writer'.tid = u => writer'.stop < outgoing'[i].stop
      BY <2>1
    <3> QED
      BY <1>1, <3>3, <3>4, <3>5, <3>6 DEF Coming, Reached, Untold
  <2>2. (Shown(u) => stackTraces[u] = at[u] /\ Nothing(u) /\ ~Working(u))'
    BY <1>1, Taken DEF IInv, StopInv, ThreadStop
  <2> QED
    BY <1>1, <2>1, <2>2 DEF IInv, StopInv, ThreadStop
<1>3. \A r \in DOMAIN request : RequestStop(r)'
  BY <1>1 DEF IInv, StopInv, RequestStop
<1> QED
  BY <1>2, <1>3 DEF StopInv

LEMMA TakenOrder ==
  ASSUME IInv, outgoing # <<>>, outgoing' = Tail(outgoing), UNCHANGED <<phase, view, held>>,
         \A u \in Tid : Open(u)' => IsSuspend(outgoing[1], u) \/ (Open(u) /\ ~IsRun(outgoing[1], u))
  PROVE  OrderInv'
<1> SUFFICES ASSUME NEW u \in Tid PROVE ThreadOrder(u)'
  BY DEF OrderInv
<1>1. ThreadOrder(u)
  BY DEF IInv, OrderInv
<1>2. ASSUME NEW i \in DOMAIN outgoing', IsSuspend(outgoing'[i], u)
      PROVE  /\ Open(u)' => RunBetween(0, i, u)'
             /\ \A j \in DOMAIN outgoing' : IsSuspend(outgoing'[j], u) /\ i < j => RunBetween(i, j, u)'
  <2>1. i \in Nat /\ 1 < i + 1 /\ i + 1 \in DOMAIN outgoing /\ outgoing'[i] = outgoing[i + 1]
    BY <1>2, Taken
  <2>2. Open(u)' => RunBetween(0, i, u)'
    <3>1. CASE IsSuspend(outgoing[1], u)
      <4>1. RunBetween(1, i + 1, u)
        BY <1>1, <1>2, <2>1, <3>1, Taken DEF ThreadOrder
      <4>2. RunBetween(0 + 1, i + 1, u)
        BY <4>1
      <4> QED
        BY <2>1, <4>2, Taken
    <3>2. CASE Open(u) /\ ~IsRun(outgoing[1], u)
      <4>1. RunBetween(0, i + 1, u)
        BY <1>1, <1>2, <2>1, <3>2 DEF ThreadOrder
      <4> QED
        BY <2>1, <3>2, <4>1, Taken
    <3> QED
      BY <3>1, <3>2
  <2>3. ASSUME NEW j \in DOMAIN outgoing', IsSuspend(outgoing'[j], u), i < j PROVE RunBetween(i, j, u)'
    <3>1. j \in Nat /\ j + 1 \in DOMAIN outgoing /\ outgoing'[j] = outgoing[j + 1]
      BY <2>3, Taken
    <3>2. i + 1 < j + 1
      BY <2>1, <2>3, <3>1
    <3>3. RunBetween(i + 1, j + 1, u)
      BY <1>1, <1>2, <2>1, <2>3, <3>1, <3>2 DEF ThreadOrder
    <3> QED
      BY <2>1, <3>1, <3>3, Taken
  <2> QED
    BY <2>2, <2>3
<1>3. ASSUME phase[u] # "wait", Open(u)' PROVE \E k \in DOMAIN outgoing' : IsRun(outgoing'[k], u)
  <2>1. PICK k \in DOMAIN outgoing : 1 < k /\ IsRun(outgoing[k], u)
    <3>1. CASE IsSuspend(outgoing[1], u)
      BY <1>1, <1>3, <3>1, Taken DEF ThreadOrder
    <3>2. CASE Open(u) /\ ~IsRun(outgoing[1], u)
      <4>1. PICK k \in DOMAIN outgoing : IsRun(outgoing[k], u)
        BY <1>1, <1>3, <3>2 DEF ThreadOrder
      <4>2. k \in Nat /\ 0 < k /\ k # 1
        BY <3>2, <4>1, Taken
      <4> QED
        BY <4>1, <4>2
    <3> QED
      BY <1>3, <3>1, <3>2
  <2>2. PICK l \in DOMAIN outgoing' : k = l + 1
    BY <2>1, Taken
  <2> QED
    BY <2>1, <2>2, Taken
<1>4. ASSUME phase[u] # "wait", NEW i \in DOMAIN outgoing', IsSuspend(outgoing'[i], u)
      PROVE  \E k \in DOMAIN outgoing' : i < k /\ IsRun(outgoing'[k], u)
  <2>1. i \in Nat /\ 1 < i + 1 /\ i + 1 \in DOMAIN outgoing /\ outgoing'[i] = outgoing[i + 1]
    BY <1>4, Taken
  <2>2. PICK k \in DOMAIN outgoing : i + 1 < k /\ IsRun(outgoing[k], u)
    BY <1>1, <1>4, <2>1 DEF ThreadOrder
  <2>3. k \in Nat /\ 1 < k
    BY <2>1, <2>2, Taken
  <2>4. PICK l \in DOMAIN outgoing' : k = l + 1
    BY <2>3, Taken
  <2>5. l \in Nat /\ outgoing'[l] = outgoing[l + 1]
    BY Taken
  <2>6. i < l
    BY <2>1, <2>2, <2>4, <2>5
  <2> QED
    BY <2>2, <2>4, <2>5, <2>6
<1> QED
  BY <1>1, <1>2, <1>3, <1>4 DEF ThreadOrder

LEMMA SameResolve ==
  ASSUME IInv, UNCHANGED <<phase, at, stops, view, request, status, server, loop, frameMap, varMap, held>>
  PROVE  ResolveInv'
<1>1. \A r \in DOMAIN request : Live(r)' => Live(r)
  BY DEF Live, Shown
<1>2. \A h \in held' : h \in held /\ (Shown(h.tid)' => Shown(h.tid))
  BY DEF Shown
<1>3. \A t \in Tid : Shown(t)' =>
        /\ at'[t] = at[t]
        /\ \A i : Stands(frameMap, i, t) => i \in DOMAIN frameMap' /\ frameMap'[i] = frameMap[i]
        /\ \A i : Stands(varMap, i, t) => i \in DOMAIN varMap' /\ varMap'[i] = varMap[i]
  BY DEF Stands
<1> QED
  BY <1>1, <1>2, <1>3, ResolveStep

LEMMA WriterLeaves ==
  ASSUME WriterStep
  PROVE  UNCHANGED <<phase, at, stops, request, status, server, loop, doubled>>
BY DEF WriterStep, TakeSuspend, SendStopped, TakeRun, FramePairs, VarPairs, RemoveFrame, RemoveVar,
       SendContinued, TakeReply, UnchangedByWriter, pydevd, maps

\* What is left to show of a step of the writer thread.
LEMMA WriterCommon ==
  ASSUME IInv, WriterStep, ClientTypes', MapTypes', QueueTypes', WriterTypes',
         DOMAIN varIds' \subseteq DOMAIN varIds, StopInv', OrderInv', ResolveInv', ClearInv'
  PROVE  IInv'
<1>1. UNCHANGED <<phase, at, stops, request, status, server, loop, doubled>>
  BY WriterLeaves
<1>2. PydevdTypes' /\ RequestTypes' /\ ServerTypes' /\ LoopTypes' /\ AddInv'
  BY <1>1 DEF IInv, TypeInv, PydevdTypes, RequestTypes, ServerTypes, LoopTypes, AddInv
<1> QED
  BY <1>2 DEF IInv, TypeInv

LEMMA TakenTypes ==
  ASSUME IInv, outgoing # <<>>, outgoing' = Tail(outgoing), UNCHANGED <<request, status, resolved>>
  PROVE  QueueTypes'
BY Taken DEF IInv, TypeInv, QueueTypes, Replied

LEMMA TakeSuspendKeeps ==
  ASSUME IInv, TakeSuspend
  PROVE  IInv'
<1> DEFINE m == Head(outgoing)
<1>1. /\ writer.step = "idle" /\ outgoing # <<>> /\ outgoing' = Tail(outgoing) /\ m.msg = "suspend"
      /\ stackTraces' = [stackTraces EXCEPT ![m.tid] = m.frame]
      /\ writer' = [WriterIdle EXCEPT !.step = "stopped", !.tid = m.tid, !.stop = m.stop]
      /\ UNCHANGED <<frameMap, varMap, varIds, nextId, resolved, view, held, late>>
  BY DEF TakeSuspend, Takes, maps, client
<1>2. WriterStep /\ UNCHANGED <<phase, at, stops, request, status, server, loop, doubled>>
  BY WriterLeaves DEF WriterStep
<1>3. 1 \in DOMAIN outgoing /\ outgoing[1] = m
  BY <1>1, Taken
<1>4. PICK t \in Tid : t = m.tid /\ IsSuspend(outgoing[1], t)
  BY <1>1, <1>3, StopTypes DEF IsSuspend
<1>5. PICK k \in 1..MaxStops, f \in Frame : k = m.stop /\ f = m.frame
  BY <1>1, <1>3, StopTypes
<1>6. /\ writer'.step = "stopped" /\ writer'.tid = t /\ writer'.stop = k /\ writer'.doomed = {}
      /\ writer' = [step |-> "stopped", tid |-> t, stop |-> k, doomed |-> {}]
  BY <1>1, <1>4, <1>5 DEF WriterIdle
<1>7. /\ stackTraces' \in [Tid -> Frame \cup {NoFrame}] /\ stackTraces'[t] = f /\ f # NoFrame
      /\ \A u \in Tid \ {t} : stackTraces'[u] = stackTraces[u]
  BY <1>1, <1>4, <1>5, FrameAssumption DEF IInv, TypeInv, ClientTypes
\* The client has been told that t runs: no "run" is before the first message.
<1>8. view[t] = 0
  <2>1. ~RunBetween(0, 1, t)
    BY Taken, <1>1 DEF RunBetween
  <2> QED
    BY <1>1, <1>3, <1>4, <2>1 DEF IInv, OrderInv, ThreadOrder, Open, Working
<1>9. Coming(1, t) /\ outgoing[1].stop = k /\ outgoing[1].frame = f
  BY <1>3, <1>4, <1>5 DEF IInv, StopInv, ThreadStop
<1>10. ClientTypes' /\ MapTypes' /\ QueueTypes' /\ WriterTypes'
  <2>1. WriterTypes'
    BY <1>6, BoundAssumption DEF WriterTypes
  <2> QED
    BY <1>1, <1>2, <1>7, <2>1, TakenTypes DEF IInv, TypeInv, ClientTypes, MapTypes, VarIdsAgree
<1>11. StopInv'
  <2>1. \A u \in Tid : Shown(u) => stackTraces'[u] = stackTraces[u] /\ ~Working(u)'
    BY <1>6, <1>7, <1>8 DEF Shown, Working
  <2>2. ASSUME NEW i \in DOMAIN outgoing', IsSuspend(outgoing'[i], t) PROVE k < outgoing'[i].stop
    <3>1. i + 1 \in DOMAIN outgoing /\ 1 < i + 1 /\ outgoing'[i] = outgoing[i + 1]
      BY <1>1, Taken
    <3>2. Coming(i + 1, t)
      BY <2>2, <3>1 DEF IInv, StopInv, ThreadStop
    <3> QED
      BY <1>3, <1>4, <1>9, <3>1, <3>2 DEF Coming
  <2>3. ToldNext(t, k)'
    <3>1. phase[t] = "wait" /\ k = stops[t] => f = at[t] /\ Nothing(t)'
      <4> SUFFICES ASSUME phase[t] = "wait", k = stops[t] PROVE f = at[t] /\ Nothing(t)'
        OBVIOUS
      <4>1. \A j \in DOMAIN outgoing : 1 < j => ~IsSuspend(outgoing[j], t) /\ ~IsRun(outgoing[j], t)
        BY <1>9 DEF Coming
      <4> QED
        BY <1>1, <1>9, <4>1, Taken DEF Coming, Nothing
    <3> QED
      BY <1>1, <1>2, <1>7, <1>8, <1>9, <3>1 DEF ToldNext, Coming, Reached, Untold
  <2> QED
    BY <1>1, <1>2, <1>6, <2>1, <2>2, <2>3, TakenStop
<1>12. OrderInv'
  <2>1. \A u \in Tid : Open(u)' => IsSuspend(outgoing[1], u) \/ (Open(u) /\ ~IsRun(outgoing[1], u))
    BY <1>1, <1>4, <1>6 DEF Open, Working, IsSuspend, IsRun
  <2> QED
    BY <1>1, <1>2, <2>1, TakenOrder
<1>13. ResolveInv'
  BY <1>1, <1>2, SameResolve
<1>14. ClearInv'
  BY <1>1, <1>2, <1>6, <1>7 DEF IInv, ClearInv, Owned, Single, Working, Clearing
<1> QED
  BY <1>1, <1>2, <1>10, <1>11, <1>12, <1>13, <1>14, WriterCommon

LEMMA TakeRunKeeps ==
  ASSUME IInv, TakeRun
  PROVE  IInv'
<1> DEFINE m == Head(outgoing)
<1>1. /\ writer.step = "idle" /\ outgoing # <<>> /\ outgoing' = Tail(outgoing) /\ m.msg = "run"
      /\ stackTraces' = [stackTraces EXCEPT ![m.tid] = NoFrame]
      /\ writer' = [WriterIdle EXCEPT !.step = "framePairs", !.tid = m.tid]
      /\ late' = late \ {m.tid}
      /\ UNCHANGED <<frameMap, varMap, varIds, nextId, resolved, view, held>>
  BY DEF TakeRun, Takes, maps, client
<1>2. WriterStep /\ UNCHANGED <<phase, at, stops, request, status, server, loop, doubled>>
  BY WriterLeaves DEF WriterStep
<1>3. 1 \in DOMAIN outgoing /\ outgoing[1] = m
  BY <1>1, Taken
<1>4. PICK t \in Tid : t = m.tid /\ IsRun(outgoing[1], t)
  BY <1>1, <1>3, StopTypes DEF IsRun
<1>5. /\ writer' = [step |-> "framePairs", tid |-> t, stop |-> 0, doomed |-> {}]
      /\ writer'.step = "framePairs" /\ writer'.tid = t
  BY <1>1, <1>4 DEF WriterIdle
<1>6. /\ stackTraces' \in [Tid -> Frame \cup {NoFrame}] /\ stackTraces'[t] = NoFrame
      /\ \A u \in Tid \ {t} : stackTraces'[u] = stackTraces[u]
  BY <1>1, <1>4 DEF IInv, TypeInv, ClientTypes
<1>7. ~Shown(t)
  BY <1>3, <1>4 DEF IInv, StopInv, ThreadStop, Nothing
<1>8. ClientTypes' /\ MapTypes' /\ QueueTypes' /\ WriterTypes'
  <2>1. WriterTypes'
    BY <1>5, BoundAssumption DEF WriterTypes, Clearing
  <2> QED
    BY <1>1, <1>2, <1>6, <2>1, TakenTypes DEF IInv, TypeInv, ClientTypes, MapTypes, VarIdsAgree
<1>9. StopInv'
  <2>1. \A u \in Tid : Shown(u) => stackTraces'[u] = stackTraces[u] /\ ~Working(u)'
    BY <1>5, <1>6, <1>7 DEF Working
  <2> QED
    BY <1>1, <1>2, <1>5, <2>1, TakenStop
<1>10. OrderInv'
  <2>1. \A u \in Tid : Open(u)' => Open(u) /\ ~IsRun(outgoing[1], u)
    BY <1>1, <1>4, <1>5 DEF Open, Working, Clearing, IsRun
  <2> QED
    BY <1>1, <1>2, <2>1, TakenOrder
<1>11. ResolveInv'
  BY <1>1, <1>2, SameResolve
<1>12. ClearInv'
  BY <1>1, <1>2, <1>4, <1>5, <1>6 DEF IInv, ClearInv, Owned, Single, Working, Clearing
<1> QED
  BY <1>1, <1>2, <1>8, <1>9, <1>10, <1>11, <1>12, WriterCommon

LEMMA TakeReplyKeeps ==
  ASSUME IInv, TakeReply
  PROVE  IInv'
<1> DEFINE m == Head(outgoing)
<1>1. /\ writer.step = "idle" /\ outgoing # <<>> /\ outgoing' = Tail(outgoing) /\ m.msg = "reply"
      /\ resolved' = Append(resolved, m)
      /\ UNCHANGED <<stackTraces, frameMap, varMap, varIds, nextId, writer, view, held, late>>
  BY DEF TakeReply, Takes, maps, client
<1>2. WriterStep /\ UNCHANGED <<phase, at, stops, request, status, server, loop, doubled>>
  BY WriterLeaves DEF WriterStep
<1>3. 1 \in DOMAIN outgoing /\ outgoing[1] = m
  BY <1>1, Taken
<1>4. m \in Reply /\ Replied(m)
  BY <1>1, <1>3, StopTypes DEF IInv, TypeInv, QueueTypes
<1> HIDE DEF m
<1>5. QueueTypes'
  <2>1. /\ outgoing' \in Seq(Message)
        /\ (\A i \in DOMAIN outgoing : outgoing[i].msg = "reply" => Replied(outgoing[i]))'
    BY <1>1, <1>2, Taken DEF IInv, TypeInv, QueueTypes, Replied
  <2>2. resolved \in Seq(Reply) /\ \A i \in DOMAIN resolved : Replied(resolved[i])
    BY DEF IInv, TypeInv, QueueTypes
  <2>3. resolved' \in Seq(Reply) /\ \A i \in DOMAIN resolved' : Replied(resolved'[i])
    BY <1>1, <1>4, <2>2, AppendPositions
  <2> QED
    BY <1>2, <2>1, <2>3 DEF QueueTypes, Replied
<1>6. ClientTypes' /\ MapTypes' /\ WriterTypes'
  BY <1>1, <1>2 DEF IInv, TypeInv, ClientTypes, MapTypes, VarIdsAgree, WriterTypes
<1>7. StopInv'
  <2>1. \A u \in Tid : Shown(u) => stackTraces'[u] = stackTraces[u] /\ ~Working(u)'
    BY <1>1 DEF Working
  <2> QED
    BY <1>1, <1>2, <2>1, TakenStop
<1>8. OrderInv'
  <2>1. \A u \in Tid : Open(u)' => Open(u) /\ ~IsRun(outgoing[1], u)
    BY <1>1, <1>3 DEF Open, Working, IsRun
  <2> QED
    BY <1>1, <1>2, <2>1, TakenOrder
<1>9. ResolveInv'
  BY <1>1, <1>2, SameResolve
<1>10. ClearInv'
  BY <1>1, <1>2 DEF IInv, ClearInv, Owned, Single, Working, Clearing
<1> QED
  BY <1>1, <1>2, <1>5, <1>6, <1>7, <1>8, <1>9, <1>10, WriterCommon

LEMMA SendStoppedKeeps ==
  ASSUME IInv, SendStopped
  PROVE  IInv'
<1>0. PICK t : t = writer.tid
  OBVIOUS
<1>1. /\ writer.step = "stopped" /\ view' = [view EXCEPT ![t] = writer.stop] /\ writer' = WriterIdle
      /\ UNCHANGED <<outgoing, stackTraces, frameMap, varMap, varIds, nextId, resolved, held, late>>
  BY <1>0 DEF SendStopped, maps
<1>2. WriterStep /\ UNCHANGED <<phase, at, stops, request, status, server, loop, doubled>>
  BY WriterLeaves DEF WriterStep
<1>3. /\ t = writer.tid /\ t \in Tid /\ writer.stop \in 1..MaxStops /\ writer.stop \in Nat /\ 0 < writer.stop
      /\ view' \in [Tid -> 0..MaxStops] /\ view'[t] = writer.stop
      /\ \A u \in Tid \ {t} : view'[u] = view[u]
  BY <1>0, <1>1, BoundAssumption DEF IInv, TypeInv, WriterTypes, ClientTypes
<1>4. ToldNext(t, writer.stop)
  BY <1>1, <1>3 DEF IInv, StopInv
<1>5. /\ writer'.step = "idle" /\ ~Working(t)' /\ Working(t)
      /\ \A u \in Tid \ {t} : ~Working(u)' /\ ~Working(u)
  BY <1>1, <1>3 DEF WriterIdle, Working
<1>6. ClientTypes' /\ MapTypes' /\ QueueTypes' /\ WriterTypes'
  <2>1. WriterTypes'
    BY <1>1, BoundAssumption DEF WriterTypes, WriterIdle
  <2> QED
    BY <1>1, <1>2, <1>3, <2>1 DEF IInv, TypeInv, ClientTypes, MapTypes, VarIdsAgree, QueueTypes, Replied
<1>7. \A u \in Tid \ {t} : Shown(u)' <=> Shown(u)
  BY <1>2, <1>3 DEF Shown
<1>8. StopInv'
  <2>1. ASSUME NEW u \in Tid PROVE ThreadStop(u)'
    <3>1. Reached(u, view[u])'
      BY <1>2, <1>3, <1>4 DEF IInv, StopInv, ThreadStop, ToldNext, Reached
    <3>2. (phase[u] = "run" <=> at[u] = NoFrame)' /\ (phase[u] # "run" => stops[u] > 0)'
      BY <1>2 DEF IInv, StopInv, ThreadStop
    <3>3. \A i \in DOMAIN outgoing : IsSuspend(outgoing[i], u) => Coming(i, u)'
      <4> SUFFICES ASSUME NEW i \in DOMAIN outgoing, IsSuspend(outgoing[i], u) PROVE Coming(i, u)'
        OBVIOUS
      <4>1. Coming(i, u)
        BY DEF IInv, StopInv, ThreadStop
      <4>2. view'[u] < outgoing[i].stop
        BY <1>1, <1>3, <4>1 DEF Coming
      <4> QED
        BY <1>1, <1>2, <1>5, <4>1, <4>2 DEF Coming, Reached, Untold
    <3>4. (Shown(u) => stackTraces[u] = at[u] /\ Nothing(u) /\ ~Working(u))'
      <4>1. CASE u = t
        <5> SUFFICES ASSUME Shown(t)' PROVE stackTraces[t] = at[t] /\ Nothing(t)
          BY <1>1, <1>2, <1>5, <4>1 DEF Nothing
        <5>1. phase[t] # "run" /\ stops[t] = writer.stop
          BY <1>2, <1>3 DEF Shown
        <5>2. phase[t] # "enter"
          BY <1>3, <1>4, <5>1 DEF ToldNext, Reached
        <5>3. phase[t] = "wait"
          BY <1>3, <5>1, <5>2 DEF IInv, TypeInv, PydevdTypes
        <5> QED
          BY <1>4, <5>1, <5>3 DEF ToldNext
      <4>2. CASE u # t
        BY <1>1, <1>2, <1>5, <1>7, <4>2 DEF IInv, StopInv, ThreadStop, Nothing
      <4> QED
        BY <4>1, <4>2
    <3> QED
      BY <1>1, <3>1, <3>2, <3>3, <3>4 DEF ThreadStop
  <2>2. \A r \in DOMAIN request : RequestStop(r)'
    BY <1>2 DEF IInv, StopInv, RequestStop, Reached
  <2> QED
    BY <1>2, <1>5, <2>1, <2>2 DEF StopInv
<1>9. OrderInv'
  <2> SUFFICES ASSUME NEW u \in Tid PROVE ThreadOrder(u)'
    BY DEF OrderInv
  <2>1. ThreadOrder(u)
    BY DEF IInv, OrderInv
  <2>2. Open(u)' => Open(u)
    BY <1>1, <1>3, <1>5 DEF Open
  <2>3. view'[u] = 0 => view[u] = 0
    BY <1>3, <1>4 DEF ToldNext
  <2> QED
    BY <1>1, <1>2, <2>1, <2>2, <2>3 DEF ThreadOrder, RunBetween
<1>10. ResolveInv'
  <2>1. ASSUME NEW r \in DOMAIN request, Live(r)' PROVE Live(r)
    <3>1. request[r].tid # t
      <4> SUFFICES ASSUME request[r].tid = t PROVE FALSE
        OBVIOUS
      <4>1. request[r].view < writer.stop
        BY <1>4 DEF ToldNext, Untold
      <4>2. request[r].view = writer.stop
        BY <1>2, <1>3, <2>1 DEF Live
      <4> QED
        BY <1>3, <4>1, <4>2
    <3> QED
      BY <1>2, <1>3, <1>7, <2>1, <3>1, ArrivedRequest DEF Live
  <2>2. \A h \in held' : h \in held /\ (Shown(h.tid)' => Shown(h.tid))
    <3>1. \A h \in held : h.tid \in Tid /\ h.tid # t
      BY <1>3, <1>4 DEF ToldNext, IInv, OrderInv, ThreadOrder, TypeInv, ClientTypes
    <3> QED
      BY <1>1, <1>7, <3>1
  <2>3. \A u \in Tid : Shown(u)' =>
          /\ at'[u] = at[u]
          /\ \A i : Stands(frameMap, i, u) => i \in DOMAIN frameMap' /\ frameMap'[i] = frameMap[i]
          /\ \A i : Stands(varMap, i, u) => i \in DOMAIN varMap' /\ varMap'[i] = varMap[i]
    BY <1>1, <1>2 DEF Stands
  <2> QED
    BY <1>2, <2>1, <2>2, <2>3, ResolveStep
<1>11. ClearInv'
  <2>1. stackTraces[t] # NoFrame
    BY <1>4 DEF ToldNext
  <2> QED
    BY <1>1, <1>2, <1>3, <1>5, <2>1 DEF IInv, ClearInv, Owned, Single, Clearing
<1> QED
  BY <1>1, <1>2, <1>6, <1>8, <1>9, <1>10, <1>11, WriterCommon

\* Steps of on_pydevd_thread_run that remove something, or nothing yet, from the maps.
LEMMA RemovingKeeps ==
  ASSUME IInv, WriterStep, UNCHANGED <<outgoing, stackTraces, nextId, resolved, view, held, late>>,
         writer.step \in Clearing, writer'.step \in Clearing, writer'.tid = writer.tid,
         WriterTypes', MapTypes', DOMAIN varIds' \subseteq DOMAIN varIds, ClearInv',
         \A t \in Tid : t # writer.tid =>
           /\ \A i : Stands(frameMap, i, t) => i \in DOMAIN frameMap' /\ frameMap'[i] = frameMap[i]
           /\ \A i : Stands(varMap, i, t) => i \in DOMAIN varMap' /\ varMap'[i] = varMap[i]
  PROVE  IInv'
<1>1. UNCHANGED <<phase, at, stops, request, status, server, loop, doubled>>
  BY WriterLeaves
<1>2. writer.step # "stopped" /\ writer'.step # "stopped" /\ writer.step # "idle" /\ writer'.step # "idle"
  BY DEF Clearing
<1>3. \A u : (Working(u)' <=> Working(u)) /\ (Open(u)' <=> Open(u))
  BY <1>2 DEF Working, Open
<1>4. ClientTypes' /\ QueueTypes'
  BY <1>1 DEF IInv, TypeInv, ClientTypes, QueueTypes, Replied
<1>5. StopInv'
  <2>1. \A u : (Shown(u)' <=> Shown(u)) /\ (Nothing(u)' <=> Nothing(u))
    BY <1>1 DEF Shown, Nothing
  <2>2. \A u \in Tid, i \in DOMAIN outgoing : Coming(i, u) => Coming(i, u)'
    BY <1>1, <1>2 DEF Coming, Reached, Untold
  <2>3. ASSUME NEW u \in Tid PROVE ThreadStop(u)'
    BY <1>1, <1>3, <2>1, <2>2 DEF IInv, StopInv, ThreadStop, Reached
  <2> QED
    BY <1>1, <1>2, <2>3 DEF IInv, StopInv, RequestStop, Reached
<1>6. OrderInv'
  BY <1>1, <1>3 DEF IInv, OrderInv, ThreadOrder, RunBetween
<1>7. ResolveInv'
  <2>1. \A u : Shown(u)' <=> Shown(u)
    BY <1>1 DEF Shown
  <2>2. \A u \in Tid : Shown(u) => u # writer.tid
    BY <1>2 DEF IInv, StopInv, ThreadStop, Working
  <2>3. \A r \in DOMAIN request : Live(r)' => Live(r)
    BY <1>1, <2>1 DEF Live
  <2> QED
    BY <1>1, <2>1, <2>2, <2>3, ResolveStep
<1> QED
  BY <1>4, <1>5, <1>6, <1>7, WriterCommon

LEMMA PairsKeeps ==
  ASSUME IInv, FramePairs \/ VarPairs
  PROVE  IInv'
<1> DEFINE t == writer.tid
           pairs == {i \in Range(varIds) : varMap[i].tid = t}
<1>1. /\ UNCHANGED <<outgoing, stackTraces, frameMap, varMap, varIds, nextId, resolved, view, held, late, doubled>>
      /\ \/ /\ writer.step = "framePairs"
            /\ writer' = [writer EXCEPT !.step = "frames", !.doomed = Owned(frameMap, t)]
         \/ /\ writer.step = "frames" /\ writer.doomed = {}
            /\ writer' = [writer EXCEPT !.step = "vars", !.doomed = pairs]
  BY DEF FramePairs, VarPairs, maps, client
<1>2. WriterStep
  BY DEF WriterStep
<1>3. Owned(frameMap, t) \in SUBSET Id /\ Owned(varMap, t) \in SUBSET Id
  BY DEF Owned, IInv, TypeInv, MapTypes, FrameTable, VarTable, TableOf
<1>4. pairs \subseteq Owned(varMap, t) /\ Single(t) \subseteq pairs
  BY DEF Owned, Single, Range, IInv, TypeInv, MapTypes, VarIdsAgree
<1> HIDE DEF pairs
<1>5. WriterTypes' /\ writer.step \in Clearing /\ writer'.step \in Clearing /\ writer'.tid = t
  BY <1>1, <1>3, <1>4 DEF IInv, TypeInv, WriterTypes, Clearing
<1>6. \/ writer.step = "framePairs" /\ writer'.step = "frames" /\ writer'.doomed = Owned(frameMap, t)
      \/ /\ writer.step = "frames" /\ writer.doomed = {}
         /\ writer'.step = "vars" /\ writer'.doomed = pairs
  BY <1>1 DEF IInv, TypeInv, WriterTypes
<1>7. MapTypes'
  BY <1>1 DEF IInv, TypeInv, MapTypes, VarIdsAgree
<1>8. ClearInv'
  BY <1>1, <1>4, <1>5, <1>6 DEF IInv, ClearInv, Owned, Single, Working, Clearing
<1> QED
  BY <1>1, <1>2, <1>5, <1>7, <1>8, RemovingKeeps DEF Stands

LEMMA RemoveFrameKeeps ==
  ASSUME IInv, NEW i \in writer.doomed, RemoveFrame(i)
  PROVE  IInv'
<1> DEFINE t == writer.tid
<1>1. /\ writer.step = "frames" /\ frameMap' = Without(frameMap, i)
      /\ writer' = [writer EXCEPT !.doomed = writer.doomed \ {i}]
      /\ UNCHANGED <<outgoing, stackTraces, varMap, varIds, nextId, resolved, view, held, late, doubled>>
  BY DEF RemoveFrame, client
<1>2. WriterStep
  BY DEF WriterStep
<1>3. /\ WriterTypes' /\ writer'.step = "frames" /\ writer'.tid = t /\ writer'.doomed = writer.doomed \ {i}
      /\ writer.step \in Clearing /\ writer'.step \in Clearing
  BY <1>1 DEF IInv, TypeInv, WriterTypes, Clearing
<1>4. /\ frameMap' \in FrameTable /\ DOMAIN frameMap' = DOMAIN frameMap \ {i}
      /\ \A j \in DOMAIN frameMap' : frameMap'[j] = frameMap[j]
  <2>1. frameMap \in TableOf(Id, FrameKey)
    BY DEF IInv, TypeInv, MapTypes, FrameTable
  <2>2. Without(frameMap, i) \in TableOf(Id, FrameKey)
    BY <2>1, WithoutTable
  <2>3. /\ DOMAIN Without(frameMap, i) = DOMAIN frameMap \ {i}
        /\ \A j \in DOMAIN Without(frameMap, i) : Without(frameMap, i)[j] = frameMap[j]
    BY DEF Without, Restrict
  <2> QED
    BY <1>1, <2>2, <2>3 DEF FrameTable
<1>5. i \in DOMAIN frameMap /\ frameMap[i].tid = t
  BY <1>1 DEF IInv, ClearInv, Owned
<1>6. MapTypes'
  <2>1. IsInjective(frameMap)'
    BY <1>4 DEF IInv, TypeInv, MapTypes, IsInjective
  <2> QED
    BY <1>1, <1>4, <2>1 DEF IInv, TypeInv, MapTypes, VarIdsAgree
<1>7. ClearInv'
  <2>1. \A u : Owned(frameMap, u)' = Owned(frameMap, u) \ {i}
    BY <1>4 DEF Owned
  <2>2. \A u : Owned(varMap, u)' = Owned(varMap, u) /\ Single(u)' = Single(u)
    BY <1>1 DEF Owned, Single
  <2> QED
    BY <1>1, <1>3, <2>1, <2>2 DEF IInv, ClearInv, Working, Clearing
<1>8. \A u \in Tid : u # t => \A j : Stands(frameMap, j, u) => j \in DOMAIN frameMap' /\ frameMap'[j] = frameMap[j]
  BY <1>4, <1>5 DEF Stands, OfStop
<1> QED
  BY <1>1, <1>2, <1>3, <1>6, <1>7, <1>8, RemovingKeeps DEF Stands

LEMMA RemoveVarKeeps ==
  ASSUME IInv, NEW i \in writer.doomed, RemoveVar(i)
  PROVE  IInv'
<1> DEFINE t == writer.tid
<1>1. /\ writer.step = "vars" /\ varMap' = Without(varMap, i) /\ varIds' = Without(varIds, varMap[i])
      /\ writer' = [writer EXCEPT !.doomed = writer.doomed \ {i}]
      /\ UNCHANGED <<outgoing, stackTraces, frameMap, nextId, resolved, view, held, late, doubled>>
  BY DEF RemoveVar, client
<1>2. WriterStep
  BY DEF WriterStep
<1>3. /\ WriterTypes' /\ writer'.step = "vars" /\ writer'.tid = t /\ writer'.doomed = writer.doomed \ {i}
      /\ writer.step \in Clearing /\ writer'.step \in Clearing
  BY <1>1 DEF IInv, TypeInv, WriterTypes, Clearing
<1>4. /\ varMap' \in VarTable /\ DOMAIN varMap' = DOMAIN varMap \ {i}
      /\ \A j \in DOMAIN varMap' : varMap'[j] = varMap[j]
  <2>1. varMap \in TableOf(Id, VarKey)
    BY DEF IInv, TypeInv, MapTypes, VarTable
  <2>2. Without(varMap, i) \in TableOf(Id, VarKey)
    BY <2>1, WithoutTable
  <2>3. /\ DOMAIN Without(varMap, i) = DOMAIN varMap \ {i}
        /\ \A j \in DOMAIN Without(varMap, i) : Without(varMap, i)[j] = varMap[j]
    BY DEF Without, Restrict
  <2> QED
    BY <1>1, <2>2, <2>3 DEF VarTable
<1>5. /\ varIds' \in VarIdTable /\ DOMAIN varIds' = DOMAIN varIds \ {varMap[i]}
      /\ \A k \in DOMAIN varIds' : varIds'[k] = varIds[k]
  <2>1. varIds \in TableOf(VarKey, Id)
    BY DEF IInv, TypeInv, MapTypes, VarIdsAgree, VarIdTable
  <2>2. Without(varIds, varMap[i]) \in TableOf(VarKey, Id)
    BY <2>1, WithoutTable
  <2>3. /\ DOMAIN Without(varIds, varMap[i]) = DOMAIN varIds \ {varMap[i]}
        /\ \A k \in DOMAIN Without(varIds, varMap[i]) : Without(varIds, varMap[i])[k] = varIds[k]
    BY DEF Without, Restrict
  <2> QED
    BY <1>1, <2>2, <2>3 DEF VarIdTable
<1>6. i \in DOMAIN varMap /\ varMap[i].tid = t
  BY <1>1 DEF IInv, ClearInv, Owned
<1>7. VarIdsAgree'
  <2>1. VarIdsAgree
    BY DEF IInv, TypeInv, MapTypes
  <2>2. ASSUME NEW k \in DOMAIN varIds' PROVE varIds'[k] \in DOMAIN varMap' /\ varMap'[varIds'[k]] = k
    BY <1>4, <1>5, <2>1 DEF VarIdsAgree
  <2>3. ASSUME NEW j \in DOMAIN varMap', varMap'[j] \notin doubled
        PROVE  varMap'[j] \in DOMAIN varIds' /\ varIds'[varMap'[j]] = j
    <3>1. j # i /\ j \in DOMAIN varMap /\ varMap'[j] = varMap[j]
      BY <1>4
    <3>2. varMap[j] \in DOMAIN varIds /\ varIds[varMap[j]] = j
      BY <2>1, <2>3, <3>1 DEF VarIdsAgree
    <3>3. varMap[j] # varMap[i]
      BY <1>6, <2>1, <2>3, <3>1, <3>2 DEF VarIdsAgree
    <3> QED
      BY <1>5, <3>1, <3>2, <3>3
  <2> QED
    BY <1>1, <1>5, <2>1, <2>2, <2>3 DEF VarIdsAgree
<1>8. MapTypes'
  BY <1>1, <1>4, <1>7 DEF IInv, TypeInv, MapTypes, IsInjective
<1>9. ClearInv'
  <2>1. \A u : Owned(varMap, u)' = Owned(varMap, u) \ {i} /\ Single(u)' = Single(u) \ {i}
    BY <1>1, <1>4 DEF Owned, Single
  <2>2. \A u : Owned(frameMap, u)' = Owned(frameMap, u)
    BY <1>1 DEF Owned
  <2> QED
    BY <1>1, <1>3, <2>1, <2>2 DEF IInv, ClearInv, Working, Clearing
<1>10. \A u \in Tid : u # t => \A j : Stands(varMap, j, u) => j \in DOMAIN varMap' /\ varMap'[j] = varMap[j]
  BY <1>4, <1>6 DEF Stands, OfStop
<1> QED
  BY <1>1, <1>2, <1>3, <1>5, <1>8, <1>9, <1>10, RemovingKeeps DEF Stands

LEMMA SendContinuedKeeps ==
  ASSUME IInv, SendContinued
  PROVE  IInv'
<1>0. PICK t : t = writer.tid
  OBVIOUS
<1>1. /\ writer.step = "vars" /\ writer.doomed = {} /\ view' = [view EXCEPT ![t] = 0]
      /\ held' = {h \in held : h.tid # t} /\ writer' = WriterIdle
      /\ UNCHANGED <<outgoing, stackTraces, frameMap, varMap, varIds, nextId, resolved, late>>
  BY <1>0 DEF SendContinued, maps
<1>2. WriterStep /\ UNCHANGED <<phase, at, stops, request, status, server, loop, doubled>>
  BY WriterLeaves DEF WriterStep
<1>3. /\ t = writer.tid /\ t \in Tid /\ view' \in [Tid -> 0..MaxStops] /\ view'[t] = 0
      /\ \A u \in Tid \ {t} : view'[u] = view[u]
  BY <1>0, <1>1, BoundAssumption DEF IInv, TypeInv, WriterTypes, ClientTypes
<1>4. /\ writer'.step = "idle" /\ Working(t) /\ \A u \in Tid : ~Working(u)'
      /\ \A u \in Tid \ {t} : ~Working(u)
  BY <1>1, <1>3 DEF WriterIdle, Working
<1>5. ClientTypes' /\ MapTypes' /\ QueueTypes' /\ WriterTypes'
  <2>1. WriterTypes'
    BY <1>1, BoundAssumption DEF WriterTypes, WriterIdle
  <2>2. held' \subseteq held
    BY <1>1
  <2>3. ClientTypes'
    BY <1>1, <1>3, <2>2 DEF IInv, TypeInv, ClientTypes
  <2> QED
    BY <1>1, <1>2, <2>1, <2>3 DEF IInv, TypeInv, MapTypes, VarIdsAgree, QueueTypes, Replied
<1>6. ~Shown(t)' /\ \A u \in Tid \ {t} : Shown(u)' <=> Shown(u)
  BY <1>2, <1>3 DEF Shown
<1>7. StopInv'
  <2>1. ASSUME NEW u \in Tid PROVE ThreadStop(u)'
    <3>1. Reached(u, view[u])'
      <4>1. Reached(t, 0)
        BY <1>3, StopTypes DEF IInv, StopInv, ThreadStop, Reached
      <4> QED
        BY <1>2, <1>3, <4>1 DEF IInv, StopInv, ThreadStop, Reached
    <3>2. (phase[u] = "run" <=> at[u] = NoFrame)' /\ (phase[u] # "run" => stops[u] > 0)'
      BY <1>2 DEF IInv, StopInv, ThreadStop
    <3>3. \A i \in DOMAIN outgoing : IsSuspend(outgoing[i], u) => Coming(i, u)'
      <4> SUFFICES ASSUME NEW i \in DOMAIN outgoing, IsSuspend(outgoing[i], u) PROVE Coming(i, u)'
        OBVIOUS
      <4>1. Coming(i, u) /\ 0 < outgoing[i].stop
        BY StopTypes DEF IInv, StopInv, ThreadStop, IsSuspend
      <4>2. view'[u] < outgoing[i].stop
        BY <1>3, <4>1 DEF Coming
      <4> QED
        BY <1>1, <1>2, <1>4, <4>1, <4>2 DEF Coming, Reached, Untold
    <3>4. (Shown(u) => stackTraces[u] = at[u] /\ Nothing(u) /\ ~Working(u))'
      BY <1>1, <1>2, <1>4, <1>6 DEF IInv, StopInv, ThreadStop, Nothing
    <3> QED
      BY <1>1, <3>1, <3>2, <3>3, <3>4 DEF ThreadStop
  <2>2. \A r \in DOMAIN request : RequestStop(r)'
    BY <1>2 DEF IInv, StopInv, RequestStop, Reached
  <2> QED
    BY <1>2, <1>4, <2>1, <2>2 DEF StopInv
<1>8. OrderInv'
  <2> SUFFICES ASSUME NEW u \in Tid PROVE ThreadOrder(u)'
    BY DEF OrderInv
  <2>1. ThreadOrder(u)
    BY DEF IInv, OrderInv
  <2>2. Open(u)' => Open(u)
    BY <1>3, <1>4 DEF Open
  <2>3. view'[u] = 0 => \A h \in held' : h.tid # u
    BY <1>1, <1>3, <2>1 DEF ThreadOrder
  <2> QED
    BY <1>1, <1>2, <2>1, <2>2, <2>3 DEF ThreadOrder, RunBetween
<1>9. ResolveInv'
  <2>1. \A r \in DOMAIN request : Live(r)' => Live(r)
    BY <1>2, <1>3, <1>6, ArrivedRequest DEF Live
  <2>2. \A h \in held' : h \in held /\ (Shown(h.tid)' => Shown(h.tid))
    BY <1>1, <1>6 DEF IInv, TypeInv, ClientTypes
  <2>3. \A u \in Tid : Shown(u)' =>
          /\ at'[u] = at[u]
          /\ \A i : Stands(frameMap, i, u) => i \in DOMAIN frameMap' /\ frameMap'[i] = frameMap[i]
          /\ \A i : Stands(varMap, i, u) => i \in DOMAIN varMap' /\ varMap'[i] = varMap[i]
    BY <1>1, <1>2 DEF Stands
  <2> QED
    BY <1>2, <2>1, <2>2, <2>3, ResolveStep
<1>10. ClearInv'
  BY <1>1, <1>2, <1>3, <1>4 DEF IInv, ClearInv, Owned, Single, Clearing
<1> QED
  BY <1>1, <1>2, <1>5, <1>7, <1>8, <1>9, <1>10, WriterCommon

LEMMA WriterKeeps ==
  ASSUME IInv, WriterStep
  PROVE  IInv'
BY TakeSuspendKeeps, SendStoppedKeeps, TakeRunKeeps, PairsKeeps, RemoveFrameKeeps, RemoveVarKeeps,
   SendContinuedKeeps, TakeReplyKeeps DEF WriterStep

-----------------------------------------------------------------------------
\* All threads.
LEMMA InitIInv == Init => IInv
<1> SUFFICES ASSUME Init PROVE IInv
  OBVIOUS
<1>1. /\ phase = [t \in Tid |-> "run"] /\ at = [t \in Tid |-> NoFrame] /\ stops = [t \in Tid |-> 0]
      /\ stackTraces = [t \in Tid |-> NoFrame] /\ view = [t \in Tid |-> 0] /\ held = {} /\ late = {}
      /\ nextId = [frame |-> 1, var |-> 1] /\ server = Idle /\ loop = LoopIdle /\ writer = WriterIdle
      /\ doubled = {}
  BY DEF Init
<1> DEFINE none == <<>>
<1>2. /\ outgoing = none /\ resolved = none /\ request = none /\ status = none
      /\ frameMap = none /\ varMap = none /\ varIds = none
  BY DEF Init
<1>3. /\ Len(none) = 0 /\ DOMAIN none = {} /\ \A S : none \in Seq(S)
      /\ \A S : none \in [{} -> S]
  OBVIOUS
<1> HIDE DEF none
<1>4. TypeInv
  <2>1. PydevdTypes /\ ClientTypes
    BY <1>1, BoundAssumption DEF PydevdTypes, ClientTypes
  <2>2. MapTypes
    <3>1. frameMap \in FrameTable /\ varMap \in VarTable /\ varIds \in VarIdTable
      BY <1>2, <1>3 DEF FrameTable, VarTable, VarIdTable, TableOf
    <3>2. IsInjective(frameMap) /\ VarIdsAgree
      BY <1>1, <1>2, <1>3, <3>1 DEF IsInjective, VarIdsAgree
    <3> QED
      BY <1>1, <1>2, <1>3, <3>1, <3>2, BoundAssumption DEF MapTypes
  <2>3. RequestTypes
    BY <1>2, <1>3, BoundAssumption DEF RequestTypes
  <2>4. QueueTypes
    BY <1>2, <1>3 DEF QueueTypes
  <2>5. ServerTypes /\ LoopTypes
    BY <1>1, BoundAssumption DEF ServerTypes, LoopTypes, Idle, LoopIdle
  <2>6. WriterTypes
    BY <1>1, BoundAssumption DEF WriterTypes, WriterIdle
  <2> QED
    BY <2>1, <2>2, <2>3, <2>4, <2>5, <2>6 DEF TypeInv
<1>5. StopInv
  BY <1>1, <1>2, <1>3 DEF StopInv, ThreadStop, Reached, Shown, WriterIdle
<1>6. OrderInv
  BY <1>1, <1>2, <1>3 DEF OrderInv, ThreadOrder, Open, Working, WriterIdle
<1>7. ResolveInv
  BY <1>1, <1>2, <1>3 DEF ResolveInv, HeldInv, AskedInv, ServerInv, LoopInv, Idle, LoopIdle
<1>8. ClearInv
  BY <1>1, <1>2, <1>3 DEF ClearInv, Owned, Single, WriterIdle, Clearing
<1>9. AddInv
  BY <1>1 DEF AddInv, Idle, LoopIdle
<1> QED
  BY <1>9, <1>4, <1>5, <1>6, <1>7, <1>8 DEF IInv

LEMMA NextIInv == IInv /\ [Next]_vars => IInv'
<1> SUFFICES ASSUME IInv, [Next]_vars PROVE IInv'
  OBVIOUS
<1>1. ASSUME NEW t \in Tid, (\E f \in Frame : Enter(t, f)) \/ Announce(t) \/ Resume(t) PROVE IInv'
  BY <1>1, EnterKeeps, AnnounceKeeps, ResumeKeeps
<1>5. ASSUME NEW t \in Asked, Ask(t) PROVE IInv'
  BY <1>5, AskKeeps, BoundAssumption
<1>2. ASSUME NEW r \in DOMAIN request, Execute(r) PROVE IInv'
  BY <1>2, ExecuteKeeps
<1>3. CASE ServerStep \/ LoopStep \/ WriterStep
  BY <1>3, ServerKeeps, LoopKeeps, WriterKeeps
<1>4. CASE UNCHANGED vars
  <2>1. UNCHANGED <<phase, at, stops, outgoing, stackTraces, frameMap, varMap, varIds, nextId, late, doubled,
                    request, status, server, resolved, loop, writer, view, held>>
    BY <1>4 DEF vars, pydevd, maps, client
  <2>2. /\ RequestTypes' /\ MapTypes' /\ ServerTypes' /\ LoopTypes' /\ AddInv'
        /\ GrowStep /\ KeyStep /\ HeldStep
    BY <2>1, SameGrows DEF IInv, TypeInv, RequestTypes, MapTypes, VarIdsAgree, ServerTypes, LoopTypes, AddInv,
                           KeyStep, HeldStep
  <2>3. ServerInv' /\ LoopInv'
    BY <2>1 DEF IInv, ResolveInv, ServerInv, LoopInv, Live, Shown, OfStop, Stands
  <2>4. /\ resolved' \in Seq(Reply) /\ late' \subseteq Tid
        /\ held' \subseteq [tid : Tid, kind : {"frame", "var"}, id : Id]
        /\ \A i \in DOMAIN resolved' : \E j \in DOMAIN resolved : resolved'[i] = resolved[j]
    BY <2>1 DEF IInv, TypeInv, QueueTypes, ClientTypes
  <2> QED
    BY <2>1, <2>2, <2>3, <2>4, HandlerStep
<1> QED
  BY <1>1, <1>2, <1>3, <1>4, <1>5 DEF Next

LEMMA IInvHolds == Spec => []IInv
BY InitIInv, NextIInv, PTL DEF Spec

-----------------------------------------------------------------------------
\* The types of stacks, maps, requests and of what the client holds.
THEOREM TypeCorrect == Spec => []TypeOK
<1>1. IInv => TypeOK
  <2> SUFFICES ASSUME IInv PROVE TypeOK
    OBVIOUS
  <2>1. /\ DOMAIN frameMap \subseteq Id /\ Range(frameMap) \subseteq FrameKey
        /\ DOMAIN varMap \subseteq Id /\ Range(varMap) \subseteq VarKey
    BY DEF IInv, TypeInv, MapTypes, FrameTable, VarTable, TableOf, Range
  <2>2. \A r \in DOMAIN request : request[r] \in Request /\ status[r] \in Status
    <3>1. DOMAIN request = DOMAIN status /\ status \in Seq(Status)
      BY LenProperties DEF IInv, TypeInv, RequestTypes
    <3> QED
      BY <3>1, ArrivedRequest, ElementOfSeq, LenProperties
  <2>3. \A r \in DOMAIN request : status[r].is \in Stage
    BY <2>2 DEF Status
  <2>4. VarMapOK /\ doubled \subseteq VarKey
    BY <2>1 DEF VarMapOK, VarIdsAgree, IInv, TypeInv, MapTypes
  <2> QED
    BY <2>1, <2>2, <2>3, <2>4 DEF TypeOK, IInv, TypeInv, PydevdTypes, ClientTypes, MapTypes, RequestTypes, Request
<1> QED
  BY <1>1, IInvHolds, PTL

\* What the client holds of the stop it was told of resolves to that stop: the stack
\* that on_pydevd_thread_suspend stored is of that stop, and the ids it was given since
\* stand for the frame in which the thread is, however the server thread, the event
\* loop and the writer thread interleave.
THEOREM HeldIdsStand == Spec => []HeldIdsResolve
<1>1. IInv => HeldIdsResolve
  <2> SUFFICES ASSUME IInv PROVE HeldIdsResolve
    OBVIOUS
  <2>1. \A t \in Tid : Shown(t) => stackTraces[t] = at[t]
    BY DEF IInv, StopInv, ThreadStop
  <2> QED
    BY <2>1 DEF IInv, ResolveInv, HeldInv, HeldIdsResolve, Stands, OfStop
<1> QED
  BY <1>1, IInvHolds, PTL

\* on_pydevd_thread_run leaves no frame and no variable of a thread that runs, unless a
\* handler was making an id for it meanwhile, or the server thread and the event loop
\* once added the variable both.
THEOREM NothingKept == Spec => []IdsCleared
<1>1. IInv => IdsCleared
  BY DEF IInv, ClearInv, IdsCleared, Cleared, Working, Single
<1> QED
  BY <1>1, IInvHolds, PTL
=============================================================================
