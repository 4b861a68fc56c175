----------------------------- MODULE SessionProofs -----------------------------
(***************************************************************************)
(* Proofs about what the client is told of a session while it lasts and    *)
(* when it ends, for every set of threads and requests and every bound.    *)
(*                                                                         *)
(* ThreadTracking, whose names begin with Tracking: the types, and that no *)
(* thread that is gone is shown for ever.  Shutdown: the types and who     *)
(* holds the lock, the events of the end announced once and in order, the  *)
(* disconnect answered and honoured, no request answered twice.            *)
(*                                                                         *)
(* Each theorem rests on an inductive invariant about what every thread    *)
(* may be doing: where it is and, in Shutdown, the labels it returns to.   *)
(***************************************************************************)
EXTENDS ThreadTracking, Shutdown, SequenceTheorems, FiniteSetTheorems, TLAPS

-----------------------------------------------------------------------------
\* ThreadTracking

\* Where the writer thread and the loop thread are.
WriterAt(S, t) == writer.at \in S /\ writer.tid = t
LoopAt(S, t)   == loop.at \in S /\ loop.tid = t

\* What is queued.  An event of t is only posted by a thread that pydevd has noticed.
EventName == {"create", "suspend", "run", "kill"}
Queued(m, t) == \E i \in DOMAIN outgoing : outgoing[i] = Event(m, t)
Noticed(t) == life[t] \in {"known", "stopped", "ended", "dead"}
Names(i, t) == outgoing[i].msg = "list" /\ t \in outgoing[i].tids
Tells(i, t) ==
  \/ Names(i, t)
  \/ \E m \in {"create", "suspend", "run"} : outgoing[i] = Event(m, t)

\* The writer has created t; it is through with the end of t; a list naming t has
\* left the queue.
Created(t) == Noticed(t) /\ ~Queued("create", t) /\ ~WriterAt({"add"}, t)
KillHandled(t) == life[t] = "dead" /\ ~Queued("kill", t) /\ ~WriterAt({"remove"}, t)
InLoop(t) == t \in loop.todo \cup {loop.tid} \/ \E i \in DOMAIN replies : t \in replies[i]

\* What the two threads have in hand at each of their steps.
WriterInv ==
  /\ writer.at = "idle" => writer.tid = NoTid
  /\ writer.at # "idle" => writer.tid \in Tid
  /\ writer.at \in {"idle", "add"} => writer.id = 0
  /\ writer.at \notin {"idle", "add"} => writer.id \in Id
  /\ writer.at = "add" => writer.tid \notin Internal

LoopInv ==
  /\ loop.at = "idle" => loop.todo = {}
  /\ loop.at \in {"idle", "next"} => loop.tid = NoTid
  /\ loop.at \notin {"idle", "next"} => loop.tid \in Tid \ Internal
  /\ loop.at # "started" => loop.id = 0
  /\ loop.at = "started" => loop.id \in Id
  /\ loop.todo \cap Internal = {}

MapInv == DOMAIN toVscode \cap Internal = {}

\* Every threads request is somewhere on its way, answered or failed.
Lists(q) == {i \in DOMAIN q : q[i].msg = "list"}
CountInv ==
  asked = answered + failed + listing + Cardinality(Lists(outgoing)) + Len(replies)
          + (IF loop.at = "idle" THEN 0 ELSE 1)

\* The order of what pydevd has posted about t: the create first and the kill last,
\* each once, and no list that names t after the kill.
OrderInv(t) ==
  /\ \A i \in DOMAIN outgoing : Tells(i, t) /\ life[t] = "dead" =>
       \E j \in DOMAIN outgoing : i < j /\ outgoing[j] = Event("kill", t)
  /\ \A i, j \in DOMAIN outgoing :
       outgoing[i] = Event("kill", t) /\ outgoing[j] = Event("kill", t) => i = j
  /\ Queued("kill", t) => life[t] = "dead"
  /\ \A m \in EventName : \A i, j \in DOMAIN outgoing :
       outgoing[i] = Event("create", t) /\ outgoing[j] = Event(m, t) => i <= j
  /\ \A m \in EventName : Queued(m, t) => Noticed(t)
  /\ WriterAt({"add", "started", "stopped", "continued"}, t) /\ life[t] = "dead"
       => Queued("kill", t)
  /\ WriterAt({"remove", "exited"}, t) => life[t] = "dead" /\ ~Queued("kill", t)

\* An id belongs to one thread, whoever holds it.
Owns(t, n) ==
  \/ n \in idsOf[t]
  \/ Known(t) /\ toVscode[t] = n
  \/ writer.tid = t /\ writer.id = n
  \/ loop.tid = t /\ loop.id = n

OwnInv ==
  \A n \in Id, t \in Tid :
    Owns(t, n) => n < nextId /\ \A u \in Tid : Owns(u, n) => u = t

\* A thread whose create and kill cross no list: what the client shows of it, what
\* thread_map holds and what is under way agree.
TrackInv(t) ==
  /\ Known(t) => \/ toVscode[t] \in shown
                 \/ WriterAt({"started"}, t) /\ writer.id = toVscode[t]
                 \/ LoopAt({"started"}, t) /\ loop.id = toVscode[t]
  /\ \A n \in idsOf[t] \cap shown :
       \/ Known(t) /\ n = toVscode[t]
       \/ WriterAt({"exited"}, t) /\ n = writer.id
  /\ WriterAt({"add"}, t) => ~Known(t) /\ ~InLoop(t)
  /\ WriterAt({"started"}, t) => Known(t) /\ writer.id = toVscode[t] /\ ~InLoop(t)
  /\ WriterAt({"remove"}, t) => Known(t) /\ writer.id = toVscode[t] /\ ~Listed(t)
  /\ WriterAt({"stopped", "continued"}, t) => writer.id \in shown
  /\ LoopAt({"unseen", "add"}, t) => ~Known(t)
  /\ LoopAt({"started"}, t) => Known(t) /\ loop.id = toVscode[t]
  /\ Created(t) /\ t \notin Internal => loop.tid # t /\ (Known(t) \/ KillHandled(t))
  /\ KillHandled(t) => ~Known(t) /\ ~Listed(t)

TypeInv == TrackingTypeOK /\ WriterInv /\ LoopInv /\ MapInv /\ CountInv
TrackingIInv ==
  /\ TypeInv /\ OwnInv
  /\ \A t \in Tid : OrderInv(t)
  /\ \A t \in Tid \ crossed : TrackInv(t)

-----------------------------------------------------------------------------
\* Appending to a queue and taking its head, position by position.
LEMMA AppendPositions ==
  ASSUME NEW S, NEW q \in Seq(S), NEW e \in S
  PROVE  /\ Append(q, e) \in Seq(S) /\ Len(Append(q, e)) = Len(q) + 1 /\ Len(q) \in Nat
         /\ DOMAIN Append(q, e) = DOMAIN q \cup {Len(q) + 1}
         /\ \A i \in DOMAIN q : i \in Nat /\ 0 < i /\ i < Len(q) + 1 /\ Append(q, e)[i] = q[i]
         /\ Append(q, e)[Len(q) + 1] = e
<1>1. /\ Append(q, e) \in Seq(S) /\ Len(Append(q, e)) = Len(q) + 1
      /\ DOMAIN q = 1..Len(q) /\ Len(q) \in Nat
      /\ DOMAIN Append(q, e) = 1..(Len(q) + 1)
      /\ \A i \in 1..Len(q) : Append(q, e)[i] = q[i]
      /\ Append(q, e)[Len(q) + 1] = e
  BY AppendProperties, LenProperties
<1>2. 1..(Len(q) + 1) = 1..Len(q) \cup {Len(q) + 1}
  BY <1>1
<1> QED
  BY <1>1, <1>2

LEMMA TailPositions ==
  ASSUME NEW S, NEW q \in Seq(S), q # <<>>
  PROVE  /\ Head(q) \in S /\ Tail(q) \in Seq(S) /\ Len(q) = Len(Tail(q)) + 1 /\ Len(Tail(q)) \in Nat
         /\ 1 \in DOMAIN q /\ q[1] = Head(q)
         /\ \A i \in DOMAIN q : i \in Nat /\ 0 < i
         /\ \A i \in DOMAIN Tail(q) : /\ i \in Nat /\ 0 < i /\ 1 < i + 1
                                      /\ i + 1 \in DOMAIN q /\ Tail(q)[i] = q[i + 1]
         /\ \A i \in DOMAIN q : 1 < i => i - 1 \in DOMAIN Tail(q) /\ Tail(q)[i - 1] = q[i]
<1>1. /\ Head(q) \in S /\ Tail(q) \in Seq(S)
      /\ DOMAIN q = 1..Len(q) /\ Len(q) \in Nat \ {0}
      /\ DOMAIN Tail(q) = 1..(Len(q) - 1)
      /\ Len(Tail(q)) = Len(q) - 1
      /\ \A i \in 1..(Len(q) - 1) : Tail(q)[i] = q[i + 1]
      /\ Head(q) = q[1]
  BY HeadTailProperties, LenProperties, EmptySeq
<1>2. \A i \in DOMAIN Tail(q) : /\ i \in Nat /\ 0 < i /\ 1 < i + 1
                                /\ i + 1 \in DOMAIN q /\ Tail(q)[i] = q[i + 1]
  BY <1>1
<1>3. \A i \in DOMAIN q : 1 < i => i - 1 \in DOMAIN Tail(q) /\ Tail(q)[i - 1] = q[i]
  <2> SUFFICES ASSUME NEW i \in DOMAIN q, 1 < i
               PROVE  i - 1 \in DOMAIN Tail(q) /\ Tail(q)[i - 1] = q[i]
    OBVIOUS
  <2>1. i - 1 \in 1..(Len(q) - 1) /\ (i - 1) + 1 = i
    BY <1>1
  <2> QED
    BY <1>1, <2>1
<1> QED
  BY <1>1, <1>2, <1>3

\* The lists in a queue after an append and after a removal at the front.
LEMMA ListsAppend ==
  ASSUME NEW S, NEW q \in Seq(S), NEW e \in S
  PROVE  /\ IsFiniteSet(Lists(q)) /\ Cardinality(Lists(q)) \in Nat
         /\ Cardinality(Lists(Append(q, e)))
              = Cardinality(Lists(q)) + (IF e.msg = "list" THEN 1 ELSE 0)
<1>1. DOMAIN q = 1..Len(q) /\ Len(q) \in Nat
  BY LenProperties
<1>2. IsFiniteSet(Lists(q)) /\ Cardinality(Lists(q)) \in Nat
  <2>1. IsFiniteSet(1..Len(q))
    BY <1>1, FS_Interval
  <2>2. Lists(q) \in SUBSET (1..Len(q))
    BY <1>1 DEF Lists
  <2> QED
    BY <2>1, <2>2, FS_Subset, FS_CardinalityType
<1>3. Lists(Append(q, e)) = IF e.msg = "list" THEN Lists(q) \cup {Len(q) + 1} ELSE Lists(q)
  BY AppendPositions DEF Lists
<1>4. Len(q) + 1 \notin Lists(q)
  BY <1>1 DEF Lists
<1>5. Cardinality(Lists(q) \cup {Len(q) + 1}) = Cardinality(Lists(q)) + 1
  BY <1>2, <1>4, FS_AddElement
<1> QED
  BY <1>2, <1>3, <1>5

LEMMA ListsTail ==
  ASSUME NEW S, NEW q \in Seq(S), q # <<>>
  PROVE  /\ Cardinality(Lists(Tail(q))) \in Nat
         /\ Cardinality(Lists(q))
              = Cardinality(Lists(Tail(q))) + (IF Head(q).msg = "list" THEN 1 ELSE 0)
<1> DEFINE A == Lists(Tail(q))
           B == Lists(q) \ {1}
<1>1. Tail(q) \in Seq(S) /\ Head(q) \in S
  BY TailPositions
<1>2. IsFiniteSet(A) /\ Cardinality(A) \in Nat
  BY <1>1, ListsAppend
<1>3. Cardinality(B) = Cardinality(A)
  <2> DEFINE f == [i \in A |-> i + 1]
  <2>1. f \in Injection(A, B)
    <3>1. \A i \in A : i \in Nat /\ i + 1 \in B
      BY TailPositions DEF Lists
    <3> QED
      BY <3>1 DEF Injection, IsInjective
  <2>2. f \in Surjection(A, B)
    <3>1. \A k \in B : k - 1 \in A /\ (k - 1) + 1 = k
      <4> SUFFICES ASSUME NEW k \in B PROVE k - 1 \in A /\ (k - 1) + 1 = k
        OBVIOUS
      <4>1. k \in DOMAIN q /\ q[k].msg = "list" /\ k \in Nat /\ 1 < k
        BY TailPositions DEF Lists
      <4> QED
        BY <4>1, TailPositions DEF Lists
    <3>2. \A i \in A : i + 1 \in B
      BY TailPositions DEF Lists
    <3> QED
      BY <3>1, <3>2 DEF Surjection
  <2>3. ExistsBijection(A, B)
    BY <2>1, <2>2 DEF ExistsBijection, Bijection
  <2> QED
    BY <1>2, <2>3, FS_Bijection
<1>4. 1 \in Lists(q) <=> Head(q).msg = "list"
  BY TailPositions DEF Lists
<1>5. IsFiniteSet(Lists(q)) /\ Cardinality(Lists(q)) \in Nat
  BY <1>1, ListsAppend
<1>6. Cardinality(B) = IF 1 \in Lists(q) THEN Cardinality(Lists(q)) - 1 ELSE Cardinality(Lists(q))
  BY <1>5, FS_RemoveElement
<1> QED
  BY <1>2, <1>3, <1>4, <1>5, <1>6

-----------------------------------------------------------------------------
\* Messages: an event is not a list, and it has one name and one thread.
LEMMA Events ==
  ASSUME NEW t \in Tid, NEW m \in EventName
  PROVE  /\ Event(m, t) \in Message /\ Event(m, t).msg = m /\ Event(m, t).tid = t
         /\ Event(m, t).msg # "list"
         /\ \A n \in EventName, u \in Tid : Event(m, t) = Event(n, u) => m = n /\ t = u
         /\ \A T \in ListReply : Event(m, t) # List(T)
  BY DEF EventName, Event, Message, List

LEMMA MessageCases ==
  ASSUME NEW e \in Message
  PROVE  /\ e.msg # "list" => /\ e.msg \in EventName /\ e.tid \in Tid
                              /\ e = Event(e.msg, e.tid)
         /\ e.msg = "list" => e.tids \in ListReply
  BY DEF EventName, Event, Message

\* The writer takes an event.
LEMMA TakeEvent ==
  ASSUME TypeInv, NEW m \in EventName, Take(m)
  PROVE  /\ writer.at = "idle" /\ outgoing # <<>> /\ outgoing \in Seq(Message)
         /\ Head(outgoing).tid \in Tid
         /\ Head(outgoing) = Event(m, Head(outgoing).tid)
         /\ outgoing' = Tail(outgoing) /\ outgoing' \in Seq(Message)
         /\ Cardinality(Lists(outgoing')) = Cardinality(Lists(outgoing))
<1>1. /\ writer.at = "idle" /\ outgoing # <<>> /\ Head(outgoing).msg = m
      /\ outgoing' = Tail(outgoing) /\ outgoing \in Seq(Message)
  BY DEF Take, TypeInv, TrackingTypeOK
<1>2. Head(outgoing) \in Message /\ Tail(outgoing) \in Seq(Message)
  BY <1>1, TailPositions
<1>3. m # "list"
  BY DEF EventName
<1>4. Head(outgoing).tid \in Tid /\ Head(outgoing) = Event(m, Head(outgoing).tid)
  BY <1>1, <1>2, <1>3, MessageCases
<1>5. Cardinality(Lists(Tail(outgoing))) = Cardinality(Lists(outgoing))
  BY <1>1, <1>3, ListsTail
<1> QED
  BY <1>1, <1>2, <1>4, <1>5

\* An event is posted.
LEMMA PostEvent ==
  ASSUME TypeInv, NEW m \in EventName, NEW t \in Tid, Post(Event(m, t))
  PROVE  /\ outgoing \in Seq(Message) /\ Event(m, t) \in Message
         /\ outgoing' = Append(outgoing, Event(m, t)) /\ outgoing' \in Seq(Message)
         /\ Cardinality(Lists(outgoing')) = Cardinality(Lists(outgoing))
<1>1. outgoing \in Seq(Message) /\ outgoing' = Append(outgoing, Event(m, t))
  BY DEF Post, TypeInv, TrackingTypeOK
<1>2. Event(m, t) \in Message /\ Event(m, t).msg # "list"
  BY Events
<1>3. Append(outgoing, Event(m, t)) \in Seq(Message)
  BY <1>1, <1>2, AppendPositions
<1>4. Cardinality(Lists(Append(outgoing, Event(m, t)))) = Cardinality(Lists(outgoing))
  BY <1>1, <1>2, ListsAppend
<1> QED
  BY <1>1, <1>2, <1>3, <1>4

\* thread_map after an add and after a removal.
LEMMA AddedThread ==
  ASSUME TypeInv, NEW t \in Tid, t \notin Internal, AddThread(t)
  PROVE  /\ nextId \in Id /\ nextId # 0 /\ nextId' = nextId + 1 /\ nextId' \in 1..(MaxId + 1)
         /\ DOMAIN toPydevd' \subseteq Id /\ Range(toPydevd') \subseteq Tid
         /\ DOMAIN toVscode' = DOMAIN toVscode \cup {t} /\ DOMAIN toVscode' \subseteq Tid
         /\ Range(toVscode') \subseteq Id
         /\ toVscode'[t] = nextId
         /\ \A u \in DOMAIN toVscode : u # t => toVscode'[u] = toVscode[u]
         /\ MapInv'
<1>1. /\ DOMAIN toPydevd \subseteq Id /\ DOMAIN toVscode \subseteq Tid
      /\ \A i \in DOMAIN toPydevd : toPydevd[i] \in Tid
      /\ \A u \in DOMAIN toVscode : toVscode[u] \in Id
      /\ DOMAIN toVscode \cap Internal = {}
  BY DEF TypeInv, TrackingTypeOK, MapInv, Range
<1>2. nextId \in Id /\ nextId # 0 /\ nextId' = nextId + 1 /\ nextId' \in 1..(MaxId + 1)
  BY BoundAssumption DEF AddThread, TypeInv, TrackingTypeOK, Id
<1>3. /\ DOMAIN toPydevd' = DOMAIN toPydevd \cup {nextId}
      /\ \A i \in DOMAIN toPydevd' : toPydevd'[i] \in Tid
  BY <1>1 DEF AddThread
<1>4. /\ DOMAIN toVscode' = DOMAIN toVscode \cup {t}
      /\ toVscode'[t] = nextId
      /\ \A u \in DOMAIN toVscode : u # t => toVscode'[u] = toVscode[u]
  BY DEF AddThread
<1>5. \A u \in DOMAIN toVscode' : toVscode'[u] \in Id
  BY <1>1, <1>2, <1>4
<1>6. Range(toPydevd') \subseteq Tid /\ Range(toVscode') \subseteq Id
  BY <1>3, <1>5 DEF Range
<1> QED
  BY <1>1, <1>2, <1>3, <1>4, <1>6 DEF MapInv

LEMMA RemovedThread ==
  ASSUME TypeInv, NEW t \in Tid, NEW n \in Id, RemoveThread(t, n)
  PROVE  /\ nextId' = nextId
         /\ DOMAIN toPydevd' \subseteq Id /\ Range(toPydevd') \subseteq Tid
         /\ DOMAIN toVscode' = DOMAIN toVscode \ {t} /\ DOMAIN toVscode' \subseteq Tid
         /\ Range(toVscode') \subseteq Id
         /\ \A u \in DOMAIN toVscode' : toVscode'[u] = toVscode[u]
         /\ MapInv'
  BY DEF RemoveThread, TypeInv, TrackingTypeOK, MapInv, Range, Restrict

LEMMA KnownId ==
  ASSUME TypeInv, NEW t, Known(t)
  PROVE  toVscode[t] \in Id /\ toVscode[t] # 0 /\ t \in Tid \ Internal
<1>1. t \in DOMAIN toVscode /\ toVscode[t] \in Range(toVscode)
  BY DEF Known, Range
<1>2. Range(toVscode) \subseteq Id /\ DOMAIN toVscode \subseteq Tid \ Internal
  BY DEF TypeInv, TrackingTypeOK, MapInv
<1> QED
  BY <1>1, <1>2 DEF Id

LEMMA CountsAreNaturals ==
  ASSUME TypeInv
  PROVE  /\ asked \in Nat /\ answered \in Nat /\ failed \in Nat /\ listing \in Nat
         /\ Len(replies) \in Nat
         /\ Cardinality(Lists(outgoing)) \in Nat
<1>1. /\ outgoing \in Seq(Message) /\ replies \in Seq(ListReply)
      /\ asked \in Nat /\ answered \in Nat /\ failed \in Nat /\ listing \in Nat
  BY BoundAssumption DEF TypeInv, TrackingTypeOK
<1>2. List({}) \in Message
  BY DEF List, Message, ListReply
<1> QED
  BY <1>1, <1>2, LenProperties, ListsAppend

-----------------------------------------------------------------------------
\* Types, and with them the account of the threads requests.
LEMMA InitTypeInv == TrackingInit => TypeInv
<1> SUFFICES ASSUME TrackingInit PROVE TypeInv
    OBVIOUS
<1>1. /\ outgoing = <<>> /\ outgoing \in Seq(Message)
      /\ replies = <<>> /\ replies \in Seq(ListReply) /\ Len(replies) = 0
  BY EmptySeq DEF TrackingInit
<1>2. Cardinality(Lists(outgoing)) = 0
  <2>1. Lists(outgoing) = {}
    BY <1>1, EmptySeq DEF Lists
  <2> QED
    BY <2>1, FS_EmptySet
<1>3. nextId \in 1..(MaxId + 1) /\ 0 \in 0..MaxId /\ 0 \in 0..MaxThreads /\ 0 \in 0..MaxStops
  BY BoundAssumption DEF TrackingInit
<1>4. /\ DOMAIN toPydevd = {} /\ Range(toPydevd) = {}
      /\ DOMAIN toVscode = {} /\ Range(toVscode) = {}
  BY DEF TrackingInit, Range
<1>5. writer = Idle /\ loop = LoopIdle /\ asked = 0 /\ answered = 0 /\ failed = 0 /\ listing = 0
  BY DEF TrackingInit
<1>6. TrackingTypeOK
  BY <1>1, <1>3, <1>4, <1>5 DEF TrackingInit, TrackingTypeOK, Idle, LoopIdle
<1> QED
  BY <1>1, <1>2, <1>4, <1>5, <1>6
     DEF TypeInv, WriterInv, LoopInv, MapInv, CountInv, Idle, LoopIdle

\* pydevd's threads: an event of t is posted, or none.
LEMMA PydevdTypes ==
  ASSUME TypeInv, NEW t \in Tid,
         Start(t) \/ Notice(t) \/ End(t) \/ NoticeEnd(t) \/ Suspend(t) \/ Resume(t)
  PROVE  TypeInv'
<1>1. /\ UNCHANGED <<listing, map, writer, replies, loop, client, crossed>>
      /\ \/ UNCHANGED outgoing
         \/ \E m \in EventName : Post(Event(m, t))
  BY DEF Start, Notice, End, NoticeEnd, Suspend, Resume, EventName
<1>2. outgoing' \in Seq(Message) /\ Cardinality(Lists(outgoing')) = Cardinality(Lists(outgoing))
  BY <1>1, PostEvent DEF TypeInv, TrackingTypeOK
<1>3. /\ life' \in [Tid -> {"unborn", "new", "known", "stopped", "ended", "dead", "missed"}]
      /\ stops' \in [Tid -> 0..MaxStops]
  <2>1. \E x \in {"new", "known", "missed", "ended", "dead", "stopped"} : Become(t, x)
    BY DEF Start, Notice, End, NoticeEnd, Suspend, Resume
  <2>2. stops' = stops \/ (stops[t] < MaxStops /\ stops' = [stops EXCEPT ![t] = @ + 1])
    <3>1. CASE Suspend(t)
      BY <3>1 DEF Suspend
    <3>2. CASE ~Suspend(t)
      BY <3>2 DEF Start, Notice, End, NoticeEnd, Resume
    <3> QED
      BY <3>1, <3>2
  <2>3. life \in [Tid -> {"unborn", "new", "known", "stopped", "ended", "dead", "missed"}]
    BY DEF TypeInv, TrackingTypeOK
  <2>4. stops \in [Tid -> 0..MaxStops]
    BY DEF TypeInv, TrackingTypeOK
  <2>5. life' \in [Tid -> {"unborn", "new", "known", "stopped", "ended", "dead", "missed"}]
    BY <2>1, <2>3 DEF Become
  <2>6. stops' \in [Tid -> 0..MaxStops]
    BY <2>2, <2>4, BoundAssumption
  <2> QED
    BY <2>5, <2>6
<1>4. TrackingTypeOK'
  BY <1>1, <1>2, <1>3 DEF TypeInv, TrackingTypeOK, map, client
<1> QED
  BY <1>1, <1>2, <1>4 DEF TypeInv, WriterInv, LoopInv, MapInv, CountInv, map, client

\* A list is posted: of threads that are alive, or of none at all.
LEMMA ListPosted ==
  ASSUME ListThreads
  PROVE  \E e \in Message :
           /\ outgoing' = Append(outgoing, e)
           /\ e.msg = "list"
           /\ \A t \in Tid : t \in e.tids => Alive(t)
           /\ \A m \in EventName, t \in Tid : e # Event(m, t)
<1>1. PICK T \in {{t \in Tid : Alive(t)}, NoList} : outgoing' = Append(outgoing, List(T))
  BY DEF ListThreads, Post
<1>2. T \in ListReply /\ \A t \in Tid : t \in T => Alive(t)
  <2>1. CASE T = {t \in Tid : Alive(t)}
    <3>1. T \in SUBSET Tid
      BY <2>1
    <3> QED
      BY <2>1, <3>1 DEF ListReply
  <2>2. CASE T = NoList
    <3>1. T \in ListReply
      BY <2>2 DEF ListReply
    <3>2. \A t \in Tid : t \notin T
      BY <2>2, NoTidAssumption DEF NoList
    <3> QED
      BY <3>1, <3>2
  <2> QED
    BY <1>1, <2>1, <2>2
<1>3. List(T) \in Message /\ List(T).msg = "list" /\ List(T).tids = T
  BY <1>2 DEF List, Message
<1>4. \A m \in EventName, t \in Tid : List(T) # Event(m, t)
  BY <1>3 DEF Event, EventName
<1> QED
  BY <1>1, <1>2, <1>3, <1>4

LEMMA ListThreadsTypes ==
  ASSUME TypeInv, ListThreads
  PROVE  TypeInv'
<1>0. PICK e \in Message : outgoing' = Append(outgoing, e) /\ e.msg = "list"
  BY ListPosted
<1>1. /\ outgoing' = Append(outgoing, e) /\ e \in Message /\ e.msg = "list"
      /\ outgoing \in Seq(Message)
      /\ listing' = listing - 1 /\ listing' \in 0..MaxThreads /\ listing \in Nat
      /\ UNCHANGED <<life, stops, map, writer, replies, loop, client, crossed>>
  BY <1>0, BoundAssumption DEF ListThreads, TypeInv, TrackingTypeOK
<1>2. /\ outgoing' \in Seq(Message)
      /\ Cardinality(Lists(outgoing')) = Cardinality(Lists(outgoing)) + 1
      /\ Cardinality(Lists(outgoing)) \in Nat
  BY <1>1, AppendPositions, ListsAppend
<1>3. TrackingTypeOK'
  BY <1>1, <1>2 DEF TypeInv, TrackingTypeOK, map, client
<1>4. CountInv'
  <2>1. /\ CountInv /\ replies' = replies /\ loop' = loop
        /\ asked' = asked /\ answered' = answered /\ failed' = failed
    BY <1>1 DEF TypeInv, client
  <2>2. asked \in Nat /\ answered \in Nat /\ failed \in Nat /\ Len(replies) \in Nat
    BY CountsAreNaturals
  <2> QED
    BY <1>1, <1>2, <2>1, <2>2 DEF CountInv
<1> QED
  BY <1>1, <1>3, <1>4 DEF TypeInv, WriterInv, LoopInv, MapInv, map

\* The writer takes an event and looks its thread up.
LEMMA TakeTypes ==
  ASSUME TypeInv,
         TakeCreate \/ TakeKill \/ TakeStopOrRun("suspend", "stopped")
         \/ TakeStopOrRun("run", "continued")
  PROVE  TypeInv'
<1> DEFINE t == Head(outgoing).tid
<1>1. /\ \E m \in EventName : Take(m)
      /\ \/ writer' = Idle
         \/ \E at \in {"started", "remove", "stopped", "continued"} :
              Known(t) /\ writer' = [at |-> at, tid |-> t, id |-> toVscode[t]]
         \/ t \notin Internal /\ writer' = [at |-> "add", tid |-> t, id |-> 0]
      /\ crossed' = crossed \/ crossed' = crossed \cup {t}
      /\ UNCHANGED <<pydevd, map, replies, loop, client>>
  BY DEF TakeCreate, TakeKill, TakeStopOrRun, Cross, EventName
<1>2. /\ t \in Tid /\ outgoing' \in Seq(Message)
      /\ Cardinality(Lists(outgoing')) = Cardinality(Lists(outgoing))
  BY <1>1, TakeEvent
<1>3. Known(t) => toVscode[t] \in Id /\ toVscode[t] \in 0..MaxId
  BY KnownId DEF Id
<1> HIDE DEF t
<1>4. WriterInv' /\ writer' \in [at : {"idle", "add", "started", "remove", "exited", "stopped", "continued"},
                 tid : Tid \cup {NoTid}, id : 0..MaxId]
  BY <1>1, <1>2, <1>3, BoundAssumption DEF WriterInv, Idle
<1>5. TrackingTypeOK'
  BY <1>1, <1>2, <1>4 DEF TypeInv, TrackingTypeOK, pydevd, map, client
<1> QED
  BY <1>1, <1>2, <1>4, <1>5 DEF TypeInv, LoopInv, MapInv, CountInv, pydevd, map, client

LEMMA CreateAddTypes ==
  ASSUME TypeInv, CreateAdd
  PROVE  TypeInv'
<1>1. /\ writer.tid \in Tid /\ writer.tid \notin Internal
      /\ AddThread(writer.tid)
      /\ crossed' = crossed \/ crossed' = crossed \cup {writer.tid}
      /\ writer' = [writer EXCEPT !.at = "started", !.id = nextId]
      /\ UNCHANGED <<pydevd, outgoing, replies, loop, client>>
  BY DEF CreateAdd, Cross, TypeInv, WriterInv
<1>2. /\ nextId \in Id /\ nextId' \in 1..(MaxId + 1)
      /\ DOMAIN toPydevd' \subseteq Id /\ Range(toPydevd') \subseteq Tid
      /\ DOMAIN toVscode' \subseteq Tid /\ Range(toVscode') \subseteq Id
      /\ MapInv'
  BY <1>1, AddedThread
<1>3. /\ writer'.at = "started" /\ writer'.tid = writer.tid /\ writer'.id = nextId
      /\ writer' \in [at : {"idle", "add", "started", "remove", "exited", "stopped", "continued"},
                 tid : Tid \cup {NoTid}, id : 0..MaxId]
  <2>1. writer \in [at : {"idle", "add", "started", "remove", "exited", "stopped", "continued"},
                 tid : Tid \cup {NoTid}, id : 0..MaxId]
    BY DEF TypeInv, TrackingTypeOK
  <2>2. nextId \in 0..MaxId
    BY <1>2 DEF Id
  <2> QED
    BY <1>1, <2>1, <2>2
<1>4. TrackingTypeOK'
  BY <1>1, <1>2, <1>3 DEF TypeInv, TrackingTypeOK, pydevd, client
<1> QED
  BY <1>1, <1>2, <1>3, <1>4 DEF TypeInv, WriterInv, LoopInv, CountInv, pydevd, client

\* The other steps of the writer.
LEMMA WriterTypes ==
  ASSUME TypeInv, CreateSend \/ KillRemove \/ KillSend \/ StopOrRunSend \/ TakeList
  PROVE  TypeInv'
<1> DEFINE W == [at : {"idle", "add", "started", "remove", "exited", "stopped", "continued"},
                 tid : Tid \cup {NoTid}, id : 0..MaxId]
<1>1. /\ writer \in W /\ outgoing \in Seq(Message) /\ replies \in Seq(ListReply)
      /\ Idle \in W
  BY BoundAssumption DEF TypeInv, TrackingTypeOK, Idle
<1>2. CASE CreateSend
  <2>1. /\ writer.tid \in Tid /\ writer.id \in Id /\ writer' = Idle
        /\ shown' = shown \cup {writer.id}
        /\ idsOf' = [idsOf EXCEPT ![writer.tid] = @ \cup {writer.id}]
        /\ UNCHANGED <<pydevd, outgoing, map, replies, loop, asked, answered, failed, crossed>>
    BY <1>2 DEF CreateSend, SendStarted, TypeInv, WriterInv
  <2>2. shown' \subseteq Id /\ idsOf' \in [Tid -> SUBSET Id]
    BY <2>1 DEF TypeInv, TrackingTypeOK
  <2>3. TrackingTypeOK'
    BY <1>1, <2>1, <2>2 DEF TypeInv, TrackingTypeOK, pydevd, map
  <2> QED
    BY <2>1, <2>3 DEF TypeInv, WriterInv, LoopInv, MapInv, CountInv, Idle, pydevd, map
<1>3. CASE KillRemove
  <2>1. /\ writer.tid \in Tid /\ writer.id \in Id /\ writer.at = "remove"
        /\ RemoveThread(writer.tid, writer.id)
        /\ writer' = [writer EXCEPT !.at = "exited"]
        /\ UNCHANGED <<pydevd, outgoing, replies, loop, client, crossed>>
    BY <1>3 DEF KillRemove, TypeInv, WriterInv
  <2>2. /\ nextId' = nextId /\ MapInv'
        /\ DOMAIN toPydevd' \subseteq Id /\ Range(toPydevd') \subseteq Tid
        /\ DOMAIN toVscode' \subseteq Tid /\ Range(toVscode') \subseteq Id
    BY <2>1, RemovedThread
  <2>3. writer' \in W /\ writer'.at = "exited" /\ writer'.tid = writer.tid /\ writer'.id = writer.id
    BY <1>1, <2>1
  <2>4. TrackingTypeOK'
    BY <2>1, <2>2, <2>3 DEF TypeInv, TrackingTypeOK, pydevd, client
  <2> QED
    BY <2>1, <2>2, <2>3, <2>4 DEF TypeInv, WriterInv, LoopInv, CountInv, pydevd, client
<1>4. CASE KillSend
  <2>1. TrackingTypeOK'
    BY <1>1, <1>4 DEF KillSend, TypeInv, TrackingTypeOK, pydevd, map
  <2> QED
    BY <1>4, <2>1 DEF KillSend, TypeInv, WriterInv, LoopInv, MapInv, CountInv, Idle, pydevd, map
<1>5. CASE StopOrRunSend
  <2>1. TrackingTypeOK'
    BY <1>1, <1>5 DEF StopOrRunSend, TypeInv, TrackingTypeOK, pydevd, map, client
  <2> QED
    BY <1>5, <2>1
       DEF StopOrRunSend, TypeInv, WriterInv, LoopInv, MapInv, CountInv, Idle, pydevd, map, client
<1>6. CASE TakeList
  <2>1. /\ outgoing # <<>> /\ Head(outgoing).msg = "list"
        /\ outgoing' = Tail(outgoing) /\ replies' = Append(replies, Head(outgoing).tids)
        /\ UNCHANGED <<pydevd, map, writer, loop, client, crossed>>
    BY <1>6 DEF TakeList, Take
  <2>2. Head(outgoing) \in Message /\ outgoing' \in Seq(Message)
    BY <1>1, <2>1, TailPositions
  <2>3. Head(outgoing).tids \in ListReply
    BY <2>1, <2>2, MessageCases
  <2>4. replies' \in Seq(ListReply) /\ Len(replies') = Len(replies) + 1 /\ Len(replies) \in Nat
    BY <1>1, <2>1, <2>3, AppendPositions
  <2>5. /\ Cardinality(Lists(outgoing)) = Cardinality(Lists(outgoing')) + 1
        /\ Cardinality(Lists(outgoing')) \in Nat
    BY <1>1, <2>1, ListsTail
  <2>6. TrackingTypeOK'
    BY <2>1, <2>2, <2>4 DEF TypeInv, TrackingTypeOK, pydevd, map, client
  <2>7. CountInv'
    <3>1. /\ CountInv /\ loop' = loop
          /\ asked' = asked /\ answered' = answered /\ failed' = failed /\ listing' = listing
      BY <2>1 DEF TypeInv, pydevd, client
    <3>2. asked \in Nat /\ answered \in Nat /\ failed \in Nat /\ listing \in Nat
      BY CountsAreNaturals
    <3> QED
      BY <3>1, <3>2, <2>4, <2>5 DEF CountInv
  <2> QED
    BY <2>1, <2>6, <2>7 DEF TypeInv, WriterInv, LoopInv, MapInv, map
<1> QED
  BY <1>2, <1>3, <1>4, <1>5, <1>6

LEMMA ThreadsRequestTypes ==
  ASSUME TypeInv, ThreadsRequest
  PROVE  TypeInv'
<1>1. /\ asked < MaxThreads /\ asked' = asked + 1 /\ listing' = listing + 1
      /\ UNCHANGED <<life, stops, outgoing, map, writer, replies, loop,
                     answered, failed, shown, idsOf, crossed>>
  BY DEF ThreadsRequest
<1>2. /\ asked \in Nat /\ answered \in Nat /\ failed \in Nat /\ listing \in Nat
      /\ Len(replies) \in Nat
      /\ Cardinality(Lists(outgoing)) \in Nat
  BY CountsAreNaturals
<1>3. listing <= asked
  BY <1>2 DEF TypeInv, CountInv
<1>4. TrackingTypeOK'
  BY <1>1, <1>2, <1>3, BoundAssumption DEF TypeInv, TrackingTypeOK, map
<1>5. CountInv'
  BY <1>1, <1>2 DEF TypeInv, CountInv
<1> QED
  BY <1>1, <1>4, <1>5 DEF TypeInv, WriterInv, LoopInv, MapInv, map

\* The steps of the event loop.
LEMMA LoopTypes ==
  ASSUME TypeInv, LoopStep
  PROVE  TypeInv'
<1> DEFINE L == [at : {"idle", "next", "unseen", "add", "started"},
                 todo : SUBSET Tid, tid : Tid \cup {NoTid}, id : 0..MaxId]
<1>1. loop \in L /\ LoopIdle \in L /\ replies \in Seq(ListReply)
  BY BoundAssumption DEF TypeInv, TrackingTypeOK, LoopIdle
<1>2. CASE LoopTake
  <2>1. /\ loop = LoopIdle /\ replies # <<>> /\ Head(replies) # NoList
        /\ loop' = [LoopIdle EXCEPT !.at = "next", !.todo = Head(replies) \ Internal]
        /\ replies' = Tail(replies)
        /\ UNCHANGED <<pydevd, outgoing, map, writer, client, crossed>>
    BY <1>1, <1>2 DEF LoopTake, TypeInv, LoopInv, LoopIdle
  <2>8. /\ replies' \in Seq(ListReply) /\ Head(replies) \in ListReply
        /\ Len(replies) = Len(replies') + 1 /\ Len(replies') \in Nat
    BY <1>1, <2>1, TailPositions
  <2>2. /\ replies' \in Seq(ListReply) /\ Head(replies) \in SUBSET Tid
        /\ Len(replies) = Len(replies') + 1 /\ Len(replies') \in Nat
    <3>1. Head(replies) \in SUBSET Tid \/ Head(replies) = NoList
      BY <2>8 DEF ListReply
    <3> QED
      BY <2>1, <2>8, <3>1
  <2>6. /\ loop' = [at |-> "next", todo |-> Head(replies) \ Internal, tid |-> NoTid, id |-> 0]
        /\ loop.at = "idle"
    BY <2>1 DEF LoopIdle
  <2>7. Head(replies) \ Internal \in SUBSET Tid /\ 0 \in 0..MaxId
    BY <2>2, BoundAssumption
  <2>3. /\ loop' \in L /\ LoopInv'
        /\ loop.at = "idle" /\ loop'.at = "next"
    BY <2>6, <2>7 DEF LoopInv
  <2>4. TrackingTypeOK'
    BY <2>1, <2>2, <2>3 DEF TypeInv, TrackingTypeOK, pydevd, map, client
  <2>5. CountInv'
    <3>1. /\ CountInv /\ outgoing' = outgoing
          /\ asked' = asked /\ answered' = answered /\ failed' = failed /\ listing' = listing
      BY <2>1 DEF TypeInv, pydevd, client
    <3>2. /\ asked \in Nat /\ answered \in Nat /\ failed \in Nat /\ listing \in Nat
          /\ Cardinality(Lists(outgoing)) \in Nat
      BY CountsAreNaturals
    <3> QED
      BY <3>1, <3>2, <2>2, <2>3 DEF CountInv
  <2> QED
    BY <2>1, <2>3, <2>4, <2>5 DEF TypeInv, WriterInv, MapInv, map
<1>3. ASSUME NEW t \in loop.todo, LoopLookup(t) PROVE TypeInv'
  <2>1. /\ loop.at = "next" /\ t \in Tid \ Internal
        /\ \/ /\ loop' = [loop EXCEPT !.todo = @ \ {t}, !.tid = NoTid, !.at = "next"]
           \/ /\ loop' = [loop EXCEPT !.todo = @ \ {t}, !.tid = t, !.at = "unseen"]
        /\ UNCHANGED <<pydevd, outgoing, map, writer, replies, client, crossed>>
    BY <1>1, <1>3 DEF LoopLookup, TypeInv, LoopInv
  <2>2. /\ \/ loop'.at = "next" /\ loop'.tid = NoTid
           \/ loop'.at = "unseen" /\ loop'.tid = t
        /\ loop' = [at |-> loop'.at, todo |-> loop.todo \ {t}, tid |-> loop'.tid, id |-> loop.id]
    BY <1>1, <2>1
  <2>3. loop' \in L
    BY <1>1, <2>1, <2>2
  <2>4. LoopInv' /\ loop'.at # "idle"
    BY <2>1, <2>2 DEF TypeInv, LoopInv
  <2>5. loop' \in L /\ LoopInv' /\ loop'.at # "idle"
    BY <2>3, <2>4
  <2>6. TrackingTypeOK'
    BY <2>1, <2>5 DEF TypeInv, TrackingTypeOK, pydevd, map, client
  <2> QED
    BY <2>1, <2>5, <2>6 DEF TypeInv, WriterInv, MapInv, CountInv, pydevd, map, client
<1>4. CASE LoopAgain
  <2>1. /\ loop.at = "unseen"
        /\ \/ /\ Known(loop.tid)
              /\ loop' = [loop EXCEPT !.at = "started", !.id = toVscode[loop.tid]]
           \/ loop' = [loop EXCEPT !.at = "add"]
        /\ UNCHANGED <<pydevd, outgoing, map, writer, replies, client, crossed>>
    BY <1>4 DEF LoopAgain
  <2>2. Known(loop.tid) => toVscode[loop.tid] \in Id /\ toVscode[loop.tid] \in 0..MaxId
    BY KnownId DEF Id
  <2>3. loop' \in L /\ LoopInv' /\ loop'.at # "idle"
    BY <1>1, <2>1, <2>2 DEF TypeInv, LoopInv
  <2>4. TrackingTypeOK'
    BY <2>1, <2>3 DEF TypeInv, TrackingTypeOK, pydevd, map, client
  <2> QED
    BY <2>1, <2>3, <2>4 DEF TypeInv, WriterInv, MapInv, CountInv, pydevd, map, client
<1>5. CASE LoopAdd
  <2>1. /\ loop.at = "add" /\ loop.tid \in Tid /\ loop.tid \notin Internal
        /\ AddThread(loop.tid)
        /\ loop' = [loop EXCEPT !.at = "started", !.id = nextId]
        /\ UNCHANGED <<pydevd, outgoing, writer, replies, client, crossed>>
    BY <1>5 DEF LoopAdd, TypeInv, LoopInv
  <2>2. /\ nextId \in Id /\ nextId' \in 1..(MaxId + 1)
        /\ DOMAIN toPydevd' \subseteq Id /\ Range(toPydevd') \subseteq Tid
        /\ DOMAIN toVscode' \subseteq Tid /\ Range(toVscode') \subseteq Id
        /\ MapInv'
    BY <2>1, AddedThread
  <2>6. nextId \in 0..MaxId
    BY <2>2 DEF Id
  <2>5. loop' = [at |-> "started", todo |-> loop.todo, tid |-> loop.tid, id |-> nextId]
    BY <1>1, <2>1
  <2>3. loop' \in L /\ LoopInv' /\ loop'.at # "idle"
    BY <1>1, <2>1, <2>2, <2>5, <2>6 DEF TypeInv, LoopInv
  <2>4. TrackingTypeOK'
    BY <2>1, <2>2, <2>3 DEF TypeInv, TrackingTypeOK, pydevd, client
  <2> QED
    BY <2>1, <2>2, <2>3, <2>4 DEF TypeInv, WriterInv, CountInv, pydevd, client
<1>6. CASE LoopSend
  <2>1. /\ loop.at = "started" /\ loop.tid \in Tid /\ loop.id \in Id
        /\ shown' = shown \cup {loop.id}
        /\ idsOf' = [idsOf EXCEPT ![loop.tid] = @ \cup {loop.id}]
        /\ loop' = [loop EXCEPT !.at = "next", !.tid = NoTid, !.id = 0]
        /\ UNCHANGED <<pydevd, outgoing, map, writer, replies, asked, answered, failed,
                       crossed>>
    BY <1>6 DEF LoopSend, SendStarted, TypeInv, LoopInv
  <2>6. loop' = [at |-> "next", todo |-> loop.todo, tid |-> NoTid, id |-> 0]
    BY <1>1, <2>1
  <2>2. /\ loop' \in L
        /\ loop'.at = "next" /\ loop'.tid = NoTid /\ loop'.id = 0 /\ loop'.todo = loop.todo
    BY <1>1, <2>6, BoundAssumption
  <2>5. LoopInv' /\ loop'.at # "idle"
    BY <2>2 DEF TypeInv, LoopInv
  <2>3. shown' \subseteq Id /\ idsOf' \in [Tid -> SUBSET Id]
    BY <2>1 DEF TypeInv, TrackingTypeOK
  <2>4. TrackingTypeOK'
    BY <2>1, <2>2, <2>3 DEF TypeInv, TrackingTypeOK, pydevd, map
  <2> QED
    BY <2>1, <2>5, <2>4 DEF TypeInv, WriterInv, MapInv, CountInv, pydevd, map
<1>7. CASE LoopRespond
  <2>1. /\ loop.at = "next" /\ loop' = LoopIdle /\ answered' = answered + 1
        /\ UNCHANGED <<pydevd, outgoing, map, writer, replies, asked, failed,
                       shown, idsOf, crossed>>
    BY <1>7 DEF LoopRespond
  <2>2. loop' \in L /\ LoopInv' /\ loop'.at = "idle"
    BY <1>1, <2>1 DEF LoopInv, LoopIdle
  <2>3. CountInv'
    <3>1. /\ CountInv /\ outgoing' = outgoing /\ replies' = replies /\ asked' = asked
          /\ failed' = failed /\ listing' = listing
      BY <2>1 DEF TypeInv, pydevd
    <3>2. /\ asked \in Nat /\ answered \in Nat /\ failed \in Nat /\ listing \in Nat
          /\ Len(replies) \in Nat
          /\ Cardinality(Lists(outgoing)) \in Nat
      BY CountsAreNaturals
    <3> QED
      BY <3>1, <3>2, <2>1, <2>2 DEF CountInv
  <2>4. answered' \in 0..MaxThreads
    <3>1. /\ asked \in Nat /\ answered \in Nat /\ failed \in Nat /\ listing \in Nat
          /\ Len(replies) \in Nat
          /\ Cardinality(Lists(outgoing)) \in Nat
      BY CountsAreNaturals
    <3>2. asked \in 0..MaxThreads /\ CountInv
      BY DEF TypeInv, TrackingTypeOK
    <3>3. asked = answered + failed + listing + Cardinality(Lists(outgoing))
                  + Len(replies) + 1
      BY <2>1, <3>2, SMT DEF CountInv
    <3>4. answered + 1 <= asked /\ asked <= MaxThreads
      BY <3>1, <3>2, <3>3, BoundAssumption
    <3> QED
      BY <2>1, <3>1, <3>4, BoundAssumption
  <2>5. TrackingTypeOK'
    BY <2>1, <2>2, <2>4 DEF TypeInv, TrackingTypeOK, pydevd, map
  <2> QED
    BY <2>1, <2>2, <2>3, <2>5 DEF TypeInv, WriterInv, MapInv, map
<1>8. CASE LoopFail
  <2>1. /\ replies # <<>> /\ replies' = Tail(replies) /\ failed' = failed + 1
        /\ UNCHANGED <<pydevd, outgoing, map, writer, loop, asked, answered,
                       shown, idsOf, crossed>>
    BY <1>8 DEF LoopFail
  <2>2. /\ replies' \in Seq(ListReply)
        /\ Len(replies) = Len(replies') + 1 /\ Len(replies') \in Nat
    BY <1>1, <2>1, TailPositions
  <2>3. /\ asked \in Nat /\ answered \in Nat /\ failed \in Nat /\ listing \in Nat
        /\ Cardinality(Lists(outgoing)) \in Nat
    BY CountsAreNaturals
  <2>4. CountInv'
    <3>1. CountInv /\ outgoing' = outgoing /\ loop' = loop /\ listing' = listing
      BY <2>1 DEF TypeInv, pydevd
    <3> QED
      BY <3>1, <2>1, <2>2, <2>3 DEF CountInv
  <2>5. failed' \in 0..MaxThreads
    <3>1. failed + 1 <= asked /\ asked <= MaxThreads
      BY <2>2, <2>3, BoundAssumption DEF TypeInv, TrackingTypeOK, CountInv
    <3> QED
      BY <2>1, <2>3, <3>1, BoundAssumption
  <2>6. TrackingTypeOK'
    BY <2>1, <2>2, <2>5 DEF TypeInv, TrackingTypeOK, pydevd, map
  <2> QED
    BY <2>1, <2>4, <2>6 DEF TypeInv, WriterInv, LoopInv, MapInv, map
<1> QED
  BY <1>2, <1>3, <1>4, <1>5, <1>6, <1>7, <1>8 DEF LoopStep

\* Every step preserves the types.
LEMMA NextTypeInv == TypeInv /\ [TrackingNext]_trackingVars => TypeInv'
<1> SUFFICES ASSUME TypeInv, [TrackingNext]_trackingVars PROVE TypeInv'
    OBVIOUS
<1>1. CASE UNCHANGED trackingVars
  BY <1>1 DEF trackingVars, pydevd, map, client, TypeInv, TrackingTypeOK, WriterInv, LoopInv,
     MapInv, CountInv
<1>2. CASE WriterStep
  BY <1>2, TakeTypes, CreateAddTypes, WriterTypes DEF WriterStep
<1>3. CASE TrackingNext /\ ~WriterStep
  BY <1>3, PydevdTypes, ListThreadsTypes, ThreadsRequestTypes, LoopTypes DEF TrackingNext
<1> QED
  BY <1>1, <1>2, <1>3
-----------------------------------------------------------------------------
\* Ids change hands, or one is fresh; in both cases each stays with one thread.
LEMMA OwnKept ==
  ASSUME OwnInv, nextId' = nextId,
         \A n \in Id, t \in Tid : Owns(t, n)' => Owns(t, n)
  PROVE  OwnInv'
  BY DEF OwnInv

LEMMA OwnFresh ==
  ASSUME OwnInv, NEW t \in Tid, nextId \in Id, nextId' = nextId + 1,
         \A n \in Id, u \in Tid : Owns(u, n)' => Owns(u, n) \/ (u = t /\ n = nextId)
  PROVE  OwnInv'
<1> SUFFICES ASSUME NEW n \in Id, NEW u \in Tid, Owns(u, n)'
             PROVE  n < nextId' /\ \A v \in Tid : Owns(v, n)' => v = u
  BY DEF OwnInv
<1>1. \A i \in Id : i \in Nat
  BY DEF Id
<1>2. CASE Owns(u, n)
  <2>1. n < nextId /\ \A v \in Tid : Owns(v, n) => v = u
    BY <1>2 DEF OwnInv
  <2>2. n # nextId /\ n < nextId'
    BY <1>1, <2>1
  <2> QED
    BY <2>1, <2>2
<1>3. CASE u = t /\ n = nextId
  <2>1. \A v \in Tid : ~Owns(v, n)
    BY <1>1, <1>3 DEF OwnInv
  <2> QED
    BY <1>1, <1>3, <2>1
<1> QED
  BY <1>2, <1>3

LEMMA NextOwnInv == TypeInv /\ OwnInv /\ [TrackingNext]_trackingVars => OwnInv'
<1> SUFFICES ASSUME TypeInv, OwnInv, [TrackingNext]_trackingVars PROVE OwnInv'
    OBVIOUS
<1>1. ASSUME UNCHANGED <<nextId, toVscode, idsOf, writer, loop>> PROVE OwnInv'
  BY <1>1 DEF OwnInv, Owns, Known
<1>2. CASE UNCHANGED trackingVars
  BY <1>1, <1>2 DEF trackingVars, map, client
<1>3. ASSUME NEW t \in Tid,
             Start(t) \/ Notice(t) \/ End(t) \/ NoticeEnd(t) \/ Suspend(t) \/ Resume(t)
      PROVE  OwnInv'
  BY <1>1, <1>3 DEF Start, Notice, End, NoticeEnd, Suspend, Resume, map, client
<1>4. CASE ListThreads \/ ThreadsRequest \/ TakeList
  BY <1>1, <1>4 DEF ListThreads, ThreadsRequest, TakeList, map, client
<1>5. CASE TakeCreate \/ TakeKill \/ TakeStopOrRun("suspend", "stopped")
           \/ TakeStopOrRun("run", "continued")
  <2> DEFINE t == Head(outgoing).tid
  <2>1. /\ \/ writer'.id = 0
           \/ Known(t) /\ writer'.tid = t /\ writer'.id = toVscode[t]
        /\ UNCHANGED <<nextId, toVscode, idsOf, loop>>
    BY <1>5 DEF TakeCreate, TakeKill, TakeStopOrRun, Idle, map, client
  <2>2. \A n \in Id, u \in Tid : Owns(u, n)' => Owns(u, n)
    BY <2>1 DEF Owns, Known, Id
  <2> QED
    BY <2>1, <2>2, OwnKept
<1>6. CASE CreateAdd
  <2>1. /\ writer.tid \in Tid /\ writer.tid \notin Internal /\ AddThread(writer.tid)
        /\ writer' = [writer EXCEPT !.at = "started", !.id = nextId]
        /\ UNCHANGED <<loop, idsOf>>
    BY <1>6 DEF CreateAdd, TypeInv, WriterInv, client
  <2>2. /\ nextId \in Id /\ nextId' = nextId + 1
        /\ DOMAIN toVscode' = DOMAIN toVscode \cup {writer.tid}
        /\ toVscode'[writer.tid] = nextId
        /\ \A u \in DOMAIN toVscode : u # writer.tid => toVscode'[u] = toVscode[u]
    BY <2>1, AddedThread
  <2>3. writer'.tid = writer.tid /\ writer'.id = nextId
    BY <2>1 DEF TypeInv, TrackingTypeOK
  <2>4. \A n \in Id, u \in Tid : Owns(u, n)' => Owns(u, n) \/ (u = writer.tid /\ n = nextId)
    BY <2>1, <2>2, <2>3 DEF Owns, Known
  <2> QED
    BY <2>1, <2>2, <2>4, OwnFresh
<1>7. CASE CreateSend
  <2>1. /\ writer' = Idle /\ idsOf' = [idsOf EXCEPT ![writer.tid] = @ \cup {writer.id}]
        /\ UNCHANGED <<nextId, toVscode, loop>>
    BY <1>7 DEF CreateSend, SendStarted, map
  <2>2. \A n \in Id, u \in Tid : Owns(u, n)' => Owns(u, n)
    BY <2>1 DEF Owns, Known, Id, Idle, TypeInv, TrackingTypeOK
  <2> QED
    BY <2>1, <2>2, OwnKept
<1>8. CASE KillRemove
  <2>1. /\ writer.tid \in Tid /\ writer.id \in Id /\ RemoveThread(writer.tid, writer.id)
        /\ writer' = [writer EXCEPT !.at = "exited"]
        /\ UNCHANGED <<loop, idsOf>>
    BY <1>8 DEF KillRemove, TypeInv, WriterInv, client
  <2>2. /\ nextId' = nextId
        /\ DOMAIN toVscode' = DOMAIN toVscode \ {writer.tid}
        /\ \A u \in DOMAIN toVscode' : toVscode'[u] = toVscode[u]
    BY <2>1, RemovedThread
  <2>3. writer'.tid = writer.tid /\ writer'.id = writer.id
    BY <2>1 DEF TypeInv, TrackingTypeOK
  <2>4. \A n \in Id, u \in Tid : Owns(u, n)' => Owns(u, n)
    BY <2>1, <2>2, <2>3 DEF Owns, Known
  <2> QED
    BY <2>2, <2>4, OwnKept
<1>9. CASE KillSend \/ StopOrRunSend
  <2>1. writer' = Idle /\ UNCHANGED <<nextId, toVscode, idsOf, loop>>
    BY <1>9 DEF KillSend, StopOrRunSend, map, client
  <2>2. \A n \in Id, u \in Tid : Owns(u, n)' => Owns(u, n)
    BY <2>1 DEF Owns, Known, Id, Idle
  <2> QED
    BY <2>1, <2>2, OwnKept
<1>10. CASE LoopTake \/ LoopFail \/ (\E t \in loop.todo : LoopLookup(t)) \/ LoopRespond
  <2>1. UNCHANGED <<nextId, toVscode, idsOf, writer>>
    BY <1>10 DEF LoopTake, LoopFail, LoopLookup, LoopRespond, map, client
  <2>2. loop'.id = 0
    <3>1. loop.at \in {"idle", "next"} /\ loop.id = 0
      BY <1>10 DEF LoopTake, LoopFail, LoopLookup, LoopRespond, TypeInv, LoopInv
    <3>2. loop' = LoopIdle \/ loop'.id = LoopIdle.id \/ loop'.id = loop.id
      BY <1>10 DEF LoopTake, LoopFail, LoopLookup, LoopRespond, TypeInv, TrackingTypeOK, LoopIdle
    <3> QED
      BY <3>1, <3>2 DEF LoopIdle
  <2>3. \A n \in Id, u \in Tid : Owns(u, n)' => Owns(u, n)
    BY <2>1, <2>2 DEF Owns, Known, Id
  <2> QED
    BY <2>1, <2>3, OwnKept
<1>11. CASE LoopAgain
  <2>1. /\ \/ Known(loop.tid) /\ loop'.tid = loop.tid /\ loop'.id = toVscode[loop.tid]
           \/ loop'.tid = loop.tid /\ loop'.id = loop.id
        /\ UNCHANGED <<nextId, toVscode, idsOf, writer>>
    BY <1>11 DEF LoopAgain, TypeInv, TrackingTypeOK, map, client
  <2>2. \A n \in Id, u \in Tid : Owns(u, n)' => Owns(u, n)
    BY <2>1 DEF Owns, Known
  <2> QED
    BY <2>1, <2>2, OwnKept
<1>12. CASE LoopAdd
  <2>1. /\ loop.tid \in Tid /\ loop.tid \notin Internal /\ AddThread(loop.tid)
        /\ loop' = [loop EXCEPT !.at = "started", !.id = nextId]
        /\ UNCHANGED <<writer, idsOf>>
    BY <1>12 DEF LoopAdd, TypeInv, LoopInv, client
  <2>2. /\ nextId \in Id /\ nextId' = nextId + 1
        /\ DOMAIN toVscode' = DOMAIN toVscode \cup {loop.tid}
        /\ toVscode'[loop.tid] = nextId
        /\ \A u \in DOMAIN toVscode : u # loop.tid => toVscode'[u] = toVscode[u]
    BY <2>1, AddedThread
  <2>3. loop'.tid = loop.tid /\ loop'.id = nextId
    BY <2>1 DEF TypeInv, TrackingTypeOK
  <2>4. \A n \in Id, u \in Tid : Owns(u, n)' => Owns(u, n) \/ (u = loop.tid /\ n = nextId)
    BY <2>1, <2>2, <2>3 DEF Owns, Known
  <2> QED
    BY <2>1, <2>2, <2>4, OwnFresh
<1>13. CASE LoopSend
  <2>1. /\ loop'.id = 0 /\ idsOf' = [idsOf EXCEPT ![loop.tid] = @ \cup {loop.id}]
        /\ UNCHANGED <<nextId, toVscode, writer>>
    BY <1>13 DEF LoopSend, SendStarted, map, TypeInv, TrackingTypeOK
  <2>2. \A n \in Id, u \in Tid : Owns(u, n)' => Owns(u, n)
    BY <2>1 DEF Owns, Known, Id, TypeInv, TrackingTypeOK
  <2> QED
    BY <2>1, <2>2, OwnKept
<1> QED
  BY <1>2, <1>3, <1>4, <1>5, <1>6, <1>7, <1>8, <1>9, <1>10, <1>11, <1>12, <1>13
     DEF TrackingNext, WriterStep, LoopStep

-----------------------------------------------------------------------------
\* What is queued after an append and after a removal at the front.
LEMMA QueuedAppend ==
  ASSUME outgoing \in Seq(Message), NEW e \in Message, outgoing' = Append(outgoing, e)
  PROVE  /\ \A m, t : Queued(m, t)' <=> Queued(m, t) \/ e = Event(m, t)
         /\ Len(outgoing) + 1 \in DOMAIN outgoing' /\ outgoing'[Len(outgoing) + 1] = e
         /\ \A i \in DOMAIN outgoing : /\ i \in DOMAIN outgoing' /\ outgoing'[i] = outgoing[i]
                                       /\ i \in Nat /\ i < Len(outgoing) + 1
         /\ \A i \in DOMAIN outgoing' : i \in DOMAIN outgoing \/ i = Len(outgoing) + 1
<1>1. /\ Len(outgoing) \in Nat
      /\ DOMAIN outgoing' = DOMAIN outgoing \cup {Len(outgoing) + 1}
      /\ \A i \in DOMAIN outgoing :
           i \in Nat /\ i < Len(outgoing) + 1 /\ outgoing'[i] = outgoing[i]
      /\ outgoing'[Len(outgoing) + 1] = e
  BY AppendPositions
<1>2. ASSUME NEW m, NEW t PROVE Queued(m, t)' <=> Queued(m, t) \/ e = Event(m, t)
  BY <1>1 DEF Queued
<1> QED
  BY <1>1, <1>2

LEMMA QueuedTail ==
  ASSUME outgoing \in Seq(Message), outgoing # <<>>, outgoing' = Tail(outgoing)
  PROVE  \A m, t : Queued(m, t) <=> Queued(m, t)' \/ Head(outgoing) = Event(m, t)
<1> SUFFICES ASSUME NEW m, NEW t
             PROVE  Queued(m, t) <=> Queued(m, t)' \/ Head(outgoing) = Event(m, t)
  OBVIOUS
<1>1. ASSUME Queued(m, t)' PROVE Queued(m, t)
  BY <1>1, TailPositions DEF Queued
<1>2. ASSUME Head(outgoing) = Event(m, t) PROVE Queued(m, t)
  BY <1>2, TailPositions DEF Queued
<1>3. ASSUME Queued(m, t), Head(outgoing) # Event(m, t) PROVE Queued(m, t)'
  <2>1. PICK i \in DOMAIN outgoing : outgoing[i] = Event(m, t)
    BY <1>3 DEF Queued
  <2>2. i \in Nat /\ 0 < i /\ i # 1
    BY <1>3, <2>1, TailPositions
  <2>3. 1 < i
    BY <2>2
  <2> QED
    BY <2>1, <2>3, TailPositions DEF Queued
<1> QED
  BY <1>1, <1>2, <1>3

-----------------------------------------------------------------------------
\* The order of the messages about t: pydevd posts one of another thread, ...
LEMMA OrderOther ==
  ASSUME outgoing \in Seq(Message), NEW t, OrderInv(t),
         NEW e \in Message, outgoing' = Append(outgoing, e), writer' = writer,
         \A m \in EventName : e # Event(m, t),
         e.msg = "list" /\ life[t] = "dead" => t \notin e.tids,
         life'[t] = life[t]
  PROVE  OrderInv(t)'
<1> DEFINE k == Len(outgoing) + 1
<1>1. /\ \A m \in EventName : Queued(m, t)' <=> Queued(m, t)
      /\ outgoing'[k] = e
      /\ \A i \in DOMAIN outgoing : i \in DOMAIN outgoing' /\ outgoing'[i] = outgoing[i]
      /\ \A i \in DOMAIN outgoing' : i \in DOMAIN outgoing \/ i = k
  BY QueuedAppend
<1>2. "create" \in EventName /\ "kill" \in EventName /\ "suspend" \in EventName /\ "run" \in EventName
  BY DEF EventName
<1> HIDE DEF k
<1>3. \A i \in DOMAIN outgoing' : Tells(i, t)' /\ life'[t] = "dead" =>
        \E j \in DOMAIN outgoing' : i < j /\ outgoing'[j] = Event("kill", t)
  <2> SUFFICES ASSUME NEW i \in DOMAIN outgoing', Tells(i, t)', life'[t] = "dead"
               PROVE  \E j \in DOMAIN outgoing' : i < j /\ outgoing'[j] = Event("kill", t)
    OBVIOUS
  <2>1. i # k
    BY <1>1, <1>2 DEF Tells, Names
  <2>2. i \in DOMAIN outgoing /\ Tells(i, t)
    BY <1>1, <2>1 DEF Tells, Names
  <2> QED
    BY <1>1, <2>2 DEF OrderInv
<1>4. \A m \in EventName : \A i \in DOMAIN outgoing' :
        outgoing'[i] = Event(m, t) => i \in DOMAIN outgoing /\ outgoing[i] = Event(m, t)
  BY <1>1
<1> QED
  BY <1>1, <1>2, <1>3, <1>4 DEF OrderInv, WriterAt, Noticed

\* ... an event of t itself, which the thread's life allows ...
LEMMA OrderOwn ==
  ASSUME outgoing \in Seq(Message), NEW t \in Tid, OrderInv(t),
         NEW m \in EventName, outgoing' = Append(outgoing, Event(m, t)), writer' = writer,
         Noticed(t)', life[t] # "dead",
         m = "create" => ~Noticed(t),
         m = "kill" <=> life'[t] = "dead"
  PROVE  OrderInv(t)'
<1> DEFINE k == Len(outgoing) + 1
<1>1. Event(m, t) \in Message /\ \A n \in EventName : Event(n, t) = Event(m, t) <=> n = m
  BY Events
<1>2. /\ \A n \in EventName : Queued(n, t)' <=> Queued(n, t) \/ n = m
      /\ k \in DOMAIN outgoing' /\ outgoing'[k] = Event(m, t)
      /\ \A i \in DOMAIN outgoing : /\ i \in DOMAIN outgoing' /\ outgoing'[i] = outgoing[i]
                                    /\ i \in Nat /\ i < k
      /\ \A i \in DOMAIN outgoing' : i \in DOMAIN outgoing \/ i = k
  BY <1>1, QueuedAppend
<1>3. "create" \in EventName /\ "kill" \in EventName /\ "suspend" \in EventName /\ "run" \in EventName
  BY DEF EventName
<1>4. k \in Nat
  BY LenProperties
<1> HIDE DEF k
<1>5. \A n \in EventName : \A i \in DOMAIN outgoing :
        outgoing[i] = Event(n, t) => Queued(n, t)
  BY DEF Queued
<1>6. ~Queued("kill", t)
  BY DEF OrderInv
<1>7. \A i \in DOMAIN outgoing' : Tells(i, t)' /\ life'[t] = "dead" =>
        \E j \in DOMAIN outgoing' : i < j /\ outgoing'[j] = Event("kill", t)
  <2> SUFFICES ASSUME NEW i \in DOMAIN outgoing', Tells(i, t)', life'[t] = "dead"
               PROVE  \E j \in DOMAIN outgoing' : i < j /\ outgoing'[j] = Event("kill", t)
    OBVIOUS
  <2>1. m = "kill"
    OBVIOUS
  <2>2. i # k
    <3>1. Event(m, t).msg # "list"
      BY Events
    <3> QED
      BY <1>1, <1>2, <1>3, <2>1, <3>1 DEF Tells, Names
  <2> QED
    BY <1>2, <2>1, <2>2
<1>8. \A i, j \in DOMAIN outgoing' :
        outgoing'[i] = Event("kill", t) /\ outgoing'[j] = Event("kill", t) => i = j
  BY <1>2, <1>3, <1>5, <1>6
<1>9. Queued("kill", t)' => life'[t] = "dead"
  BY <1>2, <1>3, <1>6
<1>10. \A n \in EventName : \A i, j \in DOMAIN outgoing' :
         outgoing'[i] = Event("create", t) /\ outgoing'[j] = Event(n, t) => i <= j
  <2> SUFFICES ASSUME NEW n \in EventName, NEW i \in DOMAIN outgoing', NEW j \in DOMAIN outgoing',
                      outgoing'[i] = Event("create", t), outgoing'[j] = Event(n, t)
               PROVE  i <= j
    OBVIOUS
  <2>1. CASE i \in DOMAIN outgoing /\ j \in DOMAIN outgoing
    <3>1. outgoing[i] = Event("create", t) /\ outgoing[j] = Event(n, t)
      BY <1>2, <2>1
    <3> QED
      BY <2>1, <3>1 DEF OrderInv
  <2>2. CASE j = k
    BY <1>2, <1>4, <2>2
  <2>3. CASE i = k
    <3>1. m = "create"
      BY <1>1, <1>2, <1>3, <2>3
    <3>2. j \notin DOMAIN outgoing
      <4>1. ~Queued(n, t)
        BY <3>1 DEF OrderInv
      <4> QED
        BY <1>2, <1>5, <4>1
    <3> QED
      BY <1>2, <1>4, <2>3, <3>2
  <2> QED
    BY <1>2, <2>1, <2>2, <2>3
<1>11. \A n \in EventName : Queued(n, t)' => Noticed(t)'
  OBVIOUS
<1>12. WriterAt({"add", "started", "stopped", "continued"}, t)' /\ life'[t] = "dead"
         => Queued("kill", t)'
  BY <1>2, <1>3
<1>13. ~WriterAt({"remove", "exited"}, t)'
  BY DEF OrderInv, WriterAt
<1> QED
  BY <1>7, <1>8, <1>9, <1>10, <1>11, <1>12, <1>13 DEF OrderInv

\* ... and the writer takes the first message.
LEMMA OrderTail ==
  ASSUME outgoing \in Seq(Message), outgoing # <<>>, outgoing' = Tail(outgoing),
         NEW t, OrderInv(t), life' = life,
         WriterAt({"add", "started", "stopped", "continued"}, t)'
           => \E m \in {"create", "suspend", "run"} : Head(outgoing) = Event(m, t),
         WriterAt({"remove", "exited"}, t)' => Head(outgoing) = Event("kill", t)
  PROVE  OrderInv(t)'
<1>1. /\ 1 \in DOMAIN outgoing /\ outgoing[1] = Head(outgoing)
      /\ \A i \in DOMAIN outgoing' : /\ i \in Nat /\ i + 1 \in DOMAIN outgoing
                                     /\ outgoing'[i] = outgoing[i + 1] /\ 1 < i + 1
      /\ \A i \in DOMAIN outgoing : i \in Nat
      /\ \A i \in DOMAIN outgoing : 1 < i =>
           i - 1 \in DOMAIN outgoing' /\ outgoing'[i - 1] = outgoing[i]
  BY TailPositions
<1>2. \A m : Queued(m, t)' => Queued(m, t)
  BY QueuedTail
<1>3. "create" \in EventName /\ "kill" \in EventName
  BY DEF EventName
<1>4. \A i \in DOMAIN outgoing' : Tells(i, t)' /\ life'[t] = "dead" =>
        \E j \in DOMAIN outgoing' : i < j /\ outgoing'[j] = Event("kill", t)
  <2> SUFFICES ASSUME NEW i \in DOMAIN outgoing', Tells(i, t)', life'[t] = "dead"
               PROVE  \E j \in DOMAIN outgoing' : i < j /\ outgoing'[j] = Event("kill", t)
    OBVIOUS
  <2>1. i + 1 \in DOMAIN outgoing /\ Tells(i + 1, t)
    BY <1>1 DEF Tells, Names
  <2>2. PICK j \in DOMAIN outgoing : i + 1 < j /\ outgoing[j] = Event("kill", t)
    BY <2>1 DEF OrderInv
  <2>3. i \in Nat /\ j \in Nat
    BY <1>1
  <2>4. 1 < j /\ i < j - 1
    BY <2>2, <2>3
  <2> QED
    BY <1>1, <2>2, <2>3, <2>4
<1>5. \A i, j \in DOMAIN outgoing' :
        outgoing'[i] = Event("kill", t) /\ outgoing'[j] = Event("kill", t) => i = j
  <2> SUFFICES ASSUME NEW i \in DOMAIN outgoing', NEW j \in DOMAIN outgoing',
                      outgoing'[i] = Event("kill", t), outgoing'[j] = Event("kill", t)
               PROVE  i = j
    OBVIOUS
  <2>1. i + 1 = j + 1
    BY <1>1 DEF OrderInv
  <2> QED
    BY <1>1, <2>1
<1>6. \A m \in EventName : \A i, j \in DOMAIN outgoing' :
        outgoing'[i] = Event("create", t) /\ outgoing'[j] = Event(m, t) => i <= j
  <2> SUFFICES ASSUME NEW m \in EventName, NEW i \in DOMAIN outgoing', NEW j \in DOMAIN outgoing',
                      outgoing'[i] = Event("create", t), outgoing'[j] = Event(m, t)
               PROVE  i <= j
    OBVIOUS
  <2>1. i + 1 <= j + 1
    BY <1>1 DEF OrderInv
  <2> QED
    BY <1>1, <2>1
<1>7. WriterAt({"add", "started", "stopped", "continued"}, t)' /\ life'[t] = "dead"
        => Queued("kill", t)'
  <2> SUFFICES ASSUME WriterAt({"add", "started", "stopped", "continued"}, t)', life'[t] = "dead"
               PROVE  Queued("kill", t)'
    OBVIOUS
  <2>1. Tells(1, t) /\ life[t] = "dead"
    BY <1>1 DEF Tells
  <2>2. PICK j \in DOMAIN outgoing : 1 < j /\ outgoing[j] = Event("kill", t)
    BY <1>1, <2>1 DEF OrderInv
  <2> QED
    BY <1>1, <2>2 DEF Queued
<1>8. WriterAt({"remove", "exited"}, t)' => life'[t] = "dead" /\ ~Queued("kill", t)'
  <2> SUFFICES ASSUME WriterAt({"remove", "exited"}, t)'
               PROVE  life'[t] = "dead" /\ ~Queued("kill", t)'
    OBVIOUS
  <2>1. outgoing[1] = Event("kill", t) /\ life[t] = "dead"
    BY <1>1 DEF OrderInv, Queued
  <2>2. ASSUME Queued("kill", t)' PROVE FALSE
    <3>1. PICK i \in DOMAIN outgoing' : outgoing'[i] = Event("kill", t)
      BY <2>2 DEF Queued
    <3>2. i + 1 = 1
      BY <1>1, <2>1, <3>1 DEF OrderInv
    <3> QED
      BY <1>1, <3>1, <3>2
  <2> QED
    BY <2>1, <2>2
<1> QED
  BY <1>2, <1>3, <1>4, <1>5, <1>6, <1>7, <1>8 DEF OrderInv, Noticed

LEMMA NextOrderInv ==
  ASSUME TypeInv, [TrackingNext]_trackingVars, NEW t \in Tid, OrderInv(t)
  PROVE  OrderInv(t)'
<1>1. ASSUME UNCHANGED <<life, outgoing, writer>> PROVE OrderInv(t)'
  BY <1>1 DEF OrderInv, Tells, Names, Queued, Noticed, WriterAt
<1>2. outgoing \in Seq(Message) /\ life \in [Tid -> {"unborn", "new", "known", "stopped", "ended",
                                                     "dead", "missed"}]
  BY DEF TypeInv, TrackingTypeOK
<1>3. CASE UNCHANGED trackingVars \/ ThreadsRequest \/ LoopStep
  BY <1>1, <1>3 DEF trackingVars, pydevd, ThreadsRequest, LoopStep, LoopTake, LoopFail, LoopLookup,
     LoopAgain, LoopAdd, LoopSend, LoopRespond
<1>4. ASSUME NEW u \in Tid, Start(u) \/ End(u) PROVE OrderInv(t)'
  <2>1. /\ UNCHANGED <<outgoing, writer>>
        /\ \/ life'[t] = life[t]
           \/ life[t] \in {"unborn", "new"} /\ life'[t] \in {"new", "missed"}
           \/ life[t] = "known" /\ life'[t] = "ended"
    BY <1>2, <1>4 DEF Start, End, Become
  <2>2. (life'[t] = "dead" <=> life[t] = "dead") /\ (Noticed(t)' <=> Noticed(t))
    BY <2>1 DEF Noticed
  <2> QED
    BY <2>1, <2>2 DEF OrderInv, Tells, Names, Queued, WriterAt
<1>5. ASSUME NEW u \in Tid, Notice(u) \/ NoticeEnd(u) \/ Suspend(u) \/ Resume(u)
      PROVE  OrderInv(t)'
  <2>1. /\ writer' = writer
        /\ \E m \in EventName, s \in {"known", "dead", "stopped"} :
             /\ Post(Event(m, u)) /\ Become(u, s)
             /\ life[u] # "dead"
             /\ m = "create" => ~Noticed(u)
             /\ m = "kill" <=> s = "dead"
    BY <1>5 DEF Notice, NoticeEnd, Suspend, Resume, EventName, Noticed
  <2>2. PICK m \in EventName, s \in {"known", "dead", "stopped"} :
             /\ Post(Event(m, u)) /\ Become(u, s)
             /\ life[u] # "dead"
             /\ m = "create" => ~Noticed(u)
             /\ m = "kill" <=> s = "dead"
    BY <2>1
  <2>3. outgoing' = Append(outgoing, Event(m, u)) /\ Event(m, u) \in Message
    BY <2>2, PostEvent
  <2>4. CASE u = t
    <3>1. life'[t] = s /\ Noticed(t)'
      BY <1>2, <2>2, <2>4 DEF Become, Noticed
    <3> QED
      BY <1>2, <2>1, <2>2, <2>3, <2>4, <3>1, OrderOwn
  <2>5. CASE u # t
    <3>1. life'[t] = life[t]
      BY <1>2, <2>2, <2>5 DEF Become
    <3>2. Event(m, u).msg # "list" /\ \A n \in EventName : Event(m, u) # Event(n, t)
      BY <2>5, Events
    <3> QED
      BY <1>2, <2>1, <2>3, <3>1, <3>2, OrderOther
  <2> QED
    BY <2>4, <2>5
<1>6. CASE ListThreads
  <2>1. PICK e \in Message :
          /\ outgoing' = Append(outgoing, e)
          /\ \A u \in Tid : u \in e.tids => Alive(u)
          /\ \A m \in EventName, u \in Tid : e # Event(m, u)
    BY <1>6, ListPosted
  <2>2. /\ life' = life /\ writer' = writer
        /\ life[t] = "dead" => t \notin e.tids
    BY <1>6, <2>1 DEF ListThreads, Alive
  <2> QED
    BY <1>2, <2>1, <2>2, OrderOther
<1>7. CASE TakeCreate \/ TakeKill \/ TakeStopOrRun("suspend", "stopped")
           \/ TakeStopOrRun("run", "continued") \/ TakeList
  <2>1. outgoing # <<>> /\ outgoing' = Tail(outgoing) /\ life' = life
    BY <1>7 DEF TakeCreate, TakeKill, TakeStopOrRun, TakeList, Take, pydevd
  <2>2. Head(outgoing) \in Message
    BY <1>2, <2>1, TailPositions
  <2>3. WriterAt({"add", "started", "stopped", "continued"}, t)'
          => \E m \in {"create", "suspend", "run"} : Head(outgoing) = Event(m, t)
    BY <1>7, <2>2, MessageCases
       DEF TakeCreate, TakeKill, TakeStopOrRun, TakeList, Take, Idle, WriterAt
  <2>4. WriterAt({"remove", "exited"}, t)' => Head(outgoing) = Event("kill", t)
    BY <1>7, <2>2, MessageCases
       DEF TakeCreate, TakeKill, TakeStopOrRun, TakeList, Take, Idle, WriterAt
  <2> QED
    BY <1>2, <2>1, <2>3, <2>4, OrderTail
<1>8. CASE CreateAdd \/ CreateSend \/ KillRemove \/ KillSend \/ StopOrRunSend
  <2>1. /\ UNCHANGED <<life, outgoing>>
        /\ \/ writer' = Idle
           \/ writer.at = "add" /\ writer'.at = "started" /\ writer'.tid = writer.tid
           \/ writer.at = "remove" /\ writer'.at = "exited" /\ writer'.tid = writer.tid
    BY <1>8 DEF CreateAdd, CreateSend, KillRemove, KillSend, StopOrRunSend, pydevd, TypeInv,
       TrackingTypeOK
  <2>2. /\ WriterAt({"add", "started", "stopped", "continued"}, t)'
             => WriterAt({"add", "started", "stopped", "continued"}, t)
        /\ WriterAt({"remove", "exited"}, t)' => WriterAt({"remove", "exited"}, t)
    BY <2>1 DEF WriterAt, Idle
  <2> QED
    BY <2>1, <2>2 DEF OrderInv, Tells, Names, Queued, Noticed
<1> QED
  BY <1>3, <1>4, <1>5, <1>6, <1>7, <1>8 DEF TrackingNext, WriterStep

-----------------------------------------------------------------------------
\* A step that leaves alone what the invariant says of t: the actor works on another
\* thread, or on t in a way that does not show.
LEMMA TrackFrame ==
  ASSUME TypeInv, NEW t \in Tid, OrderInv(t), TrackInv(t),
         Known(t)' <=> Known(t),
         Known(t) => toVscode'[t] = toVscode[t],
         idsOf'[t] = idsOf[t],
         \A n \in Id : Owns(t, n) => (n \in shown' <=> n \in shown),
         writer' = writer \/ (writer.tid # t /\ writer'.tid # t),
         \/ loop'.at = loop.at /\ loop'.tid = loop.tid /\ loop'.id = loop.id
         \/ loop.tid # t /\ loop'.tid # t,
         Listed(t)' => Listed(t) \/ life[t] # "dead",
         InLoop(t)' => InLoop(t) \/ writer.tid # t,
         Noticed(t)' /\ ~Queued("create", t)' => Noticed(t) /\ ~Queued("create", t),
         life'[t] = "dead" /\ ~Queued("kill", t)' <=> life[t] = "dead" /\ ~Queued("kill", t)
  PROVE  TrackInv(t)'
<1>1. /\ \A S : WriterAt(S, t)' <=> WriterAt(S, t)
      /\ writer.tid = t => writer' = writer
  BY DEF WriterAt
<1>2. /\ \A S : LoopAt(S, t)' <=> LoopAt(S, t)
      /\ loop.tid = t => loop'.id = loop.id
      /\ loop'.tid = t <=> loop.tid = t
  BY DEF LoopAt
<1>3. /\ Created(t)' => Created(t)
      /\ KillHandled(t)' <=> KillHandled(t)
  BY <1>1 DEF Created, KillHandled
<1>4. /\ Known(t) => (toVscode[t] \in shown' <=> toVscode[t] \in shown)
      /\ \A n \in idsOf[t] : n \in shown' <=> n \in shown
      /\ WriterAt({"stopped", "continued"}, t) => (writer.id \in shown' <=> writer.id \in shown)
  <2>1. Known(t) => toVscode[t] \in Id
    BY KnownId
  <2>2. idsOf[t] \subseteq Id
    BY DEF TypeInv, TrackingTypeOK
  <2>3. WriterAt({"stopped", "continued"}, t) => writer.tid = t /\ writer.id \in Id
    BY DEF WriterAt, TypeInv, WriterInv
  <2> QED
    BY <2>1, <2>2, <2>3 DEF Owns
<1>5. WriterAt({"remove"}, t) => life[t] = "dead"
  BY DEF OrderInv, WriterAt
<1>6. (Known(t) => \/ toVscode[t] \in shown
                   \/ WriterAt({"started"}, t) /\ writer.id = toVscode[t]
                   \/ LoopAt({"started"}, t) /\ loop.id = toVscode[t])'
  BY <1>1, <1>2, <1>4 DEF TrackInv, WriterAt, LoopAt
<1>7. (\A n \in idsOf[t] \cap shown :
         \/ Known(t) /\ n = toVscode[t]
         \/ WriterAt({"exited"}, t) /\ n = writer.id)'
  <2> SUFFICES ASSUME NEW n \in idsOf'[t] \cap shown'
               PROVE  \/ Known(t) /\ n = toVscode[t]
                      \/ WriterAt({"exited"}, t) /\ n = writer.id
    BY <1>1 DEF WriterAt
  <2> QED
    BY <1>4 DEF TrackInv
<1>8. /\ (WriterAt({"add"}, t) => ~Known(t) /\ ~InLoop(t))'
      /\ (WriterAt({"started"}, t) => Known(t) /\ writer.id = toVscode[t] /\ ~InLoop(t))'
  BY <1>1 DEF TrackInv, WriterAt
<1>9. (WriterAt({"remove"}, t) => Known(t) /\ writer.id = toVscode[t] /\ ~Listed(t))'
  BY <1>1, <1>5 DEF TrackInv, WriterAt
<1>10. (WriterAt({"stopped", "continued"}, t) => writer.id \in shown)'
  BY <1>1, <1>4 DEF TrackInv, WriterAt
<1>11. /\ (LoopAt({"unseen", "add"}, t) => ~Known(t))'
       /\ (LoopAt({"started"}, t) => Known(t) /\ loop.id = toVscode[t])'
  BY <1>2 DEF TrackInv, LoopAt
<1>12. (Created(t) /\ t \notin Internal => loop.tid # t /\ (Known(t) \/ KillHandled(t)))'
  BY <1>2, <1>3 DEF TrackInv
<1>13. (KillHandled(t) => ~Known(t) /\ ~Listed(t))'
  BY <1>3 DEF TrackInv, KillHandled
<1> QED
  BY <1>6, <1>7, <1>8, <1>9, <1>10, <1>11, <1>12, <1>13 DEF TrackInv

\* pydevd's own steps: a message of t that it posts now is not handled yet.
LEMMA PydevdTrack ==
  ASSUME TypeInv, NEW t \in Tid, OrderInv(t), TrackInv(t),
         NEW u \in Tid,
         Start(u) \/ Notice(u) \/ End(u) \/ NoticeEnd(u) \/ Suspend(u) \/ Resume(u)
  PROVE  TrackInv(t)'
<1>1. UNCHANGED <<map, writer, replies, loop, client, crossed>>
  BY DEF Start, Notice, End, NoticeEnd, Suspend, Resume
<1>2. /\ outgoing \in Seq(Message)
      /\ life \in [Tid -> {"unborn", "new", "known", "stopped", "ended", "dead", "missed"}]
  BY DEF TypeInv, TrackingTypeOK
<1>3. \/ outgoing' = outgoing
      \/ \E m \in EventName : outgoing' = Append(outgoing, Event(m, u))
  BY DEF Start, Notice, End, NoticeEnd, Suspend, Resume, Post, EventName
<1>4. Listed(t)' => Listed(t)
  <2>1. CASE outgoing' = outgoing
    BY <1>1, <2>1 DEF Listed
  <2>2. ASSUME NEW m \in EventName, outgoing' = Append(outgoing, Event(m, u))
        PROVE  Listed(t)' => Listed(t)
    <3>1. Event(m, u) \in Message /\ Event(m, u).msg # "list"
      BY Events
    <3>2. \A i \in DOMAIN outgoing' : outgoing'[i].msg = "list" =>
            i \in DOMAIN outgoing /\ outgoing'[i] = outgoing[i]
      BY <1>2, <2>2, <3>1, QueuedAppend
    <3> QED
      BY <1>1, <3>2 DEF Listed
  <2> QED
    BY <1>3, <2>1, <2>2
<1>5. /\ \A m : Queued(m, t) => Queued(m, t)'
      /\ Notice(u) /\ u = t => Queued("create", t)'
      /\ NoticeEnd(u) /\ u = t => Queued("kill", t)'
      /\ \A m : outgoing' = outgoing => (Queued(m, t)' <=> Queued(m, t))
      /\ \A m : Queued(m, t)' => Queued(m, t) \/ m # "kill" \/ (NoticeEnd(u) /\ u = t)
  <2>1. \A m \in EventName : Post(Event(m, u)) => outgoing' # outgoing
    BY PostEvent, AppendPositions
  <2>2. CASE Start(u) \/ End(u)
    <3>1. outgoing' = outgoing
      BY <2>2 DEF Start, End
    <3>2. ~Notice(u) /\ ~NoticeEnd(u)
      BY <2>1, <3>1 DEF Notice, NoticeEnd, EventName
    <3> QED
      BY <3>1, <3>2 DEF Queued
  <2>3. CASE ~(Start(u) \/ End(u))
    <3>1. PICK m \in EventName : /\ Post(Event(m, u)) /\ outgoing' # outgoing
                                 /\ m = "create" <=> Notice(u)
                                 /\ m = "kill" <=> NoticeEnd(u)
      <4>1. /\ Notice(u) => ~NoticeEnd(u) /\ Post(Event("create", u))
            /\ NoticeEnd(u) => Post(Event("kill", u))
            /\ Suspend(u) \/ Resume(u) => ~Notice(u) /\ ~NoticeEnd(u)
            /\ Suspend(u) => Post(Event("suspend", u))
            /\ Resume(u) => Post(Event("run", u))
        BY DEF Notice, NoticeEnd, Suspend, Resume
      <4> QED
        BY <2>3, <2>1, <4>1 DEF EventName
    <3>2. Event(m, u) \in Message /\ outgoing' = Append(outgoing, Event(m, u))
      BY <3>1, PostEvent
    <3>3. \A n : Queued(n, t)' <=> Queued(n, t) \/ Event(m, u) = Event(n, t)
      BY <1>2, <3>2, QueuedAppend
    <3>4. Event(m, u) = Event("kill", t) => m = "kill" /\ u = t
      BY Events DEF EventName
    <3> QED
      BY <3>1, <3>3, <3>4
  <2> QED
    BY <2>2, <2>3
<1>6. /\ life'[t] = "dead" => life[t] = "dead" \/ (NoticeEnd(u) /\ u = t)
      /\ life[t] = "dead" => life'[t] = "dead" /\ ~(NoticeEnd(u) /\ u = t)
      /\ Noticed(t)' => Noticed(t) \/ (Notice(u) /\ u = t)
  BY <1>2 DEF Start, Notice, End, NoticeEnd, Suspend, Resume, Become, Noticed
<1>7. /\ Noticed(t)' /\ ~Queued("create", t)' => Noticed(t) /\ ~Queued("create", t)
      /\ life'[t] = "dead" /\ ~Queued("kill", t)' <=> life[t] = "dead" /\ ~Queued("kill", t)
  BY <1>5, <1>6
<1> QED
  BY <1>1, <1>4, <1>7, TrackFrame DEF map, client, Known, InLoop

\* A new list names only threads that are alive; a list leaves the queue for the loop.
LEMMA ListTrack ==
  ASSUME TypeInv, NEW t \in Tid, OrderInv(t), TrackInv(t),
         ListThreads \/ ThreadsRequest \/ TakeList
  PROVE  TrackInv(t)'
<1>1. /\ UNCHANGED <<life, map, writer, loop, crossed, shown, idsOf>>
      /\ outgoing \in Seq(Message)
  BY DEF ListThreads, ThreadsRequest, TakeList, pydevd, client, TypeInv, TrackingTypeOK
<1>2. CASE ListThreads
  <2>0. PICK e \in Message :
          /\ outgoing' = Append(outgoing, e)
          /\ \A u \in Tid : u \in e.tids => Alive(u)
          /\ \A m \in EventName, u \in Tid : e # Event(m, u)
    BY <1>2, ListPosted
  <2>1. /\ outgoing' = Append(outgoing, e) /\ e \in Message /\ replies' = replies
        /\ t \in e.tids => life[t] # "dead"
    BY <1>2, <2>0 DEF ListThreads, Alive
  <2>2. \A m \in EventName : e # Event(m, t)
    BY <2>0
  <2>3. /\ \A m \in EventName : Queued(m, t)' <=> Queued(m, t)
        /\ \A i \in DOMAIN outgoing' :
             (i \in DOMAIN outgoing /\ outgoing'[i] = outgoing[i]) \/ outgoing'[i] = e
    BY <1>1, <2>1, <2>2, QueuedAppend
  <2>4. Listed(t)' => Listed(t) \/ life[t] # "dead"
    BY <1>1, <2>1, <2>3 DEF Listed
  <2> QED
    BY <1>1, <2>1, <2>3, <2>4, TrackFrame DEF EventName, map, Known, Owns, Noticed, InLoop
<1>3. CASE ThreadsRequest
  <2>1. outgoing' = outgoing /\ replies' = replies
    BY <1>3 DEF ThreadsRequest
  <2> QED
    BY <1>1, <2>1, TrackFrame DEF map, Known, Owns, Noticed, InLoop, Listed, Queued
<1>4. CASE TakeList
  <2>1. /\ outgoing # <<>> /\ outgoing' = Tail(outgoing) /\ Head(outgoing).msg = "list"
        /\ replies' = Append(replies, Head(outgoing).tids)
        /\ writer.tid # t
    BY <1>4, NoTidAssumption DEF TakeList, Take, TypeInv, WriterInv
  <2>2. /\ Head(outgoing) \in Message /\ Head(outgoing).tids \in ListReply
        /\ 1 \in DOMAIN outgoing /\ outgoing[1] = Head(outgoing)
        /\ \A i \in DOMAIN outgoing' :
             i + 1 \in DOMAIN outgoing /\ outgoing'[i] = outgoing[i + 1]
    BY <1>1, <2>1, TailPositions, MessageCases
  <2>3. \A m \in EventName : Queued(m, t)' <=> Queued(m, t)
    BY <1>1, <2>1, QueuedTail, Events
  <2>4. \A i \in DOMAIN replies' :
          (i \in DOMAIN replies /\ replies'[i] = replies[i]) \/ replies'[i] = outgoing[1].tids
    <3>1. replies \in Seq(ListReply)
      BY DEF TypeInv, TrackingTypeOK
    <3> QED
      BY <2>1, <2>2, <3>1, AppendPositions
  <2>5. Listed(t)' => Listed(t)
    BY <1>1, <2>1, <2>2, <2>4 DEF Listed
  <2> QED
    BY <1>1, <2>1, <2>3, <2>5, TrackFrame DEF EventName, map, Known, Owns, Noticed
<1> QED
  BY <1>2, <1>3, <1>4

\* The writer takes an event and looks its thread up.
LEMMA TakeTrack ==
  ASSUME TypeInv, NEW t \in Tid, OrderInv(t), TrackInv(t), t \notin crossed',
         TakeCreate \/ TakeKill \/ TakeStopOrRun("suspend", "stopped")
         \/ TakeStopOrRun("run", "continued")
  PROVE  TrackInv(t)'
<1> DEFINE u == Head(outgoing).tid
<1>1. /\ UNCHANGED <<life, map, replies, loop, shown, idsOf>>
      /\ \/ TakeCreate /\ Take("create")
         \/ TakeKill /\ Take("kill")
         \/ TakeStopOrRun("suspend", "stopped") /\ Take("suspend")
         \/ TakeStopOrRun("run", "continued") /\ Take("run")
  BY DEF TakeCreate, TakeKill, TakeStopOrRun, pydevd, client
<1>2. PICK m \in EventName :
        /\ Take(m)
        /\ m = "create" <=> TakeCreate
        /\ m = "kill" <=> TakeKill
        /\ m = "suspend" <=> TakeStopOrRun("suspend", "stopped")
        /\ m = "run" <=> TakeStopOrRun("run", "continued")
  BY <1>1 DEF EventName, Take, TakeCreate, TakeKill, TakeStopOrRun
<1>3. /\ writer.at = "idle" /\ outgoing # <<>> /\ outgoing \in Seq(Message) /\ u \in Tid
      /\ Head(outgoing) = Event(m, u) /\ outgoing' = Tail(outgoing)
  BY <1>2, TakeEvent
<1>4. writer.tid # t
  BY <1>3, NoTidAssumption DEF TypeInv, WriterInv
<1>5. /\ 1 \in DOMAIN outgoing /\ outgoing[1] = Event(m, u)
      /\ \A i \in DOMAIN outgoing : i \in Nat /\ 0 < i
      /\ \A i \in DOMAIN outgoing' :
           i + 1 \in DOMAIN outgoing /\ outgoing'[i] = outgoing[i + 1]
      /\ \A i \in DOMAIN outgoing : 1 < i =>
           i - 1 \in DOMAIN outgoing' /\ outgoing'[i - 1] = outgoing[i]
  BY <1>3, TailPositions
<1>6. Listed(t)' => Listed(t)
  BY <1>1, <1>5 DEF Listed
<1>7. \A n \in EventName : Queued(n, t) <=> Queued(n, t)' \/ (n = m /\ t = u)
  BY <1>3, QueuedTail, Events
<1>8. CASE u # t
  <2>1. writer'.tid # t
    BY <1>1, <1>8, NoTidAssumption DEF TakeCreate, TakeKill, TakeStopOrRun, Idle
  <2>2. \A n \in EventName : Queued(n, t)' <=> Queued(n, t)
    BY <1>7, <1>8
  <2> HIDE DEF u
  <2> QED
    BY <1>1, <1>4, <1>6, <2>1, <2>2, TrackFrame
       DEF EventName, map, Known, Owns, Noticed
<1>9. CASE u = t /\ m # "kill"
  \* Its kill is still to come.
  <2>1. ~KillHandled(t)'
    <3>1. ASSUME life[t] = "dead" PROVE Queued("kill", t)'
      <4>1. Tells(1, t)
        BY <1>5, <1>9 DEF Tells, EventName
      <4>2. PICK j \in DOMAIN outgoing : 1 < j /\ outgoing[j] = Event("kill", t)
        BY <1>5, <3>1, <4>1 DEF OrderInv
      <4> QED
        BY <1>5, <4>2 DEF Queued
    <3> QED
      BY <1>1, <3>1 DEF KillHandled
  <2>2. /\ Known(t)' <=> Known(t)
        /\ toVscode' = toVscode /\ shown' = shown /\ idsOf' = idsOf /\ loop' = loop
        /\ InLoop(t)' <=> InLoop(t)
    BY <1>1 DEF map, Known, InLoop
  <2>3. /\ Known(t) => toVscode[t] \in shown \/ (LoopAt({"started"}, t) /\ loop.id = toVscode[t])
        /\ \A n \in idsOf[t] \cap shown : Known(t) /\ n = toVscode[t]
        /\ LoopAt({"unseen", "add"}, t) => ~Known(t)
        /\ LoopAt({"started"}, t) => Known(t) /\ loop.id = toVscode[t]
    BY <1>4 DEF TrackInv, WriterAt
  <2>4. LoopAt({"unseen", "add"}, t)' <=> LoopAt({"unseen", "add"}, t)
    BY <2>2 DEF LoopAt
  <2>5. LoopAt({"started"}, t)' <=> LoopAt({"started"}, t)
    BY <2>2 DEF LoopAt
  <2>6. CASE m = "create"
    <3>1. /\ crossed' = IF Listed(t) THEN crossed \cup {t} ELSE crossed
          /\ \/ t \in Internal /\ writer' = Idle
             \/ Known(t) /\ writer' = [at |-> "started", tid |-> t, id |-> toVscode[t]]
             \/ ~Known(t) /\ writer' = [at |-> "add", tid |-> t, id |-> 0]
      BY <1>2, <1>9, <2>6 DEF TakeCreate, Cross
    <3>2. ~Listed(t)
      BY <3>1
    <3>3. ~InLoop(t) /\ loop.tid # t
      BY <3>2 DEF Listed, InLoop
    <3>4. (Created(t) /\ t \notin Internal => loop.tid # t /\ (Known(t) \/ KillHandled(t)))'
      BY <2>2, <3>1, <3>3 DEF Created, WriterAt
    <3>5. /\ ~WriterAt({"remove"}, t)' /\ ~WriterAt({"stopped", "continued"}, t)'
          /\ ~WriterAt({"exited"}, t)'
          /\ WriterAt({"add"}, t)' => ~Known(t)
          /\ WriterAt({"started"}, t)' => Known(t) /\ writer'.id = toVscode[t]
      BY <3>1, NoTidAssumption DEF WriterAt, Idle
    <3> QED
      BY <2>1, <2>2, <2>3, <2>4, <2>5, <3>3, <3>4, <3>5 DEF TrackInv
  <2>7. CASE m \in {"suspend", "run"}
    <3>1. \/ writer' = Idle
          \/ Known(t) /\ \E at \in {"stopped", "continued"} :
                           writer' = [at |-> at, tid |-> t, id |-> toVscode[t]]
      BY <1>2, <1>9, <2>7 DEF TakeStopOrRun
    <3>2. Created(t) /\ ~Queued("create", t)
      <4>1. Noticed(t)
        BY <1>5, <1>9 DEF OrderInv, Queued
      <4>2. ASSUME Queued("create", t) PROVE FALSE
        <5>1. PICK i \in DOMAIN outgoing : outgoing[i] = Event("create", t)
          BY <4>2 DEF Queued
        <5>2. i <= 1
          BY <1>5, <1>9, <5>1 DEF OrderInv
        <5>3. i = 1
          BY <1>5, <5>2
        <5> QED
          BY <1>5, <1>9, <2>7, <5>1, <5>3, Events DEF EventName
      <4> QED
        BY <1>4, <4>1, <4>2 DEF Created, WriterAt
    <3>3. Known(t) => loop.tid # t /\ toVscode[t] \in shown
      BY <2>3, <3>2, KnownId DEF TrackInv, LoopAt
    <3>4. (Created(t) /\ t \notin Internal => loop.tid # t /\ (Known(t) \/ KillHandled(t)))'
      <4>1. ~KillHandled(t)
        BY <1>5, <1>9, <2>7 DEF KillHandled, Tells, OrderInv, Queued
      <4> QED
        BY <2>2, <3>2, <4>1 DEF TrackInv
    <3>5. /\ ~WriterAt({"remove"}, t)' /\ ~WriterAt({"add"}, t)'
          /\ ~WriterAt({"exited"}, t)' /\ ~WriterAt({"started"}, t)'
          /\ WriterAt({"stopped", "continued"}, t)' => writer'.id \in shown
      BY <3>1, <3>3, NoTidAssumption DEF WriterAt, Idle
    <3> QED
      BY <2>1, <2>2, <2>3, <2>4, <2>5, <3>4, <3>5 DEF TrackInv
  <2> QED
    BY <1>9, <2>6, <2>7 DEF EventName
<1>10. CASE u = t /\ m = "kill"
  <2>1. /\ crossed' = IF Listed(t) THEN crossed \cup {t} ELSE crossed
        /\ writer' = IF Known(t) THEN [at |-> "remove", tid |-> t, id |-> toVscode[t]] ELSE Idle
    BY <1>2, <1>10 DEF TakeKill, Cross
  <2>2. ~Listed(t) /\ ~Listed(t)'
    BY <1>6, <2>1
  <2>3. loop.tid # t /\ loop' = loop
    BY <1>1, <2>2 DEF Listed
  <2>4. life'[t] = "dead" /\ ~Queued("kill", t)'
    <3>1. life[t] = "dead"
      BY <1>5, <1>10 DEF OrderInv, Queued
    <3>2. ASSUME Queued("kill", t)' PROVE FALSE
      <4>1. PICK i \in DOMAIN outgoing' : outgoing'[i] = Event("kill", t)
        BY <3>2 DEF Queued
      <4>2. i \in DOMAIN Tail(outgoing) /\ i \in Nat /\ 0 < i
        BY <1>3, <4>1, TailPositions
      <4>3. i + 1 = 1
        BY <1>5, <1>10, <4>1 DEF OrderInv
      <4> QED
        BY <4>2, <4>3
    <3> QED
      BY <1>1, <3>1, <3>2
  <2>5. /\ Known(t)' <=> Known(t)
        /\ toVscode' = toVscode /\ shown' = shown /\ idsOf' = idsOf
    BY <1>1 DEF map, Known
  <2>6. /\ Known(t) => toVscode[t] \in shown
        /\ \A n \in idsOf[t] \cap shown : Known(t) /\ n = toVscode[t]
    BY <1>4, <2>3 DEF TrackInv, WriterAt, LoopAt
  <2>7. /\ \A S : ~LoopAt(S, t)'
        /\ ~WriterAt({"add"}, t)' /\ ~WriterAt({"started"}, t)'
        /\ ~WriterAt({"stopped", "continued"}, t)'
        /\ WriterAt({"remove"}, t)' => Known(t) /\ writer'.id = toVscode[t]
        /\ WriterAt({"remove"}, t)' <=> Known(t)
    BY <2>1, <2>3, NoTidAssumption DEF LoopAt, WriterAt, Idle
  <2>8. KillHandled(t)' <=> ~Known(t)
    BY <2>4, <2>7 DEF KillHandled
  <2> QED
    BY <2>2, <2>3, <2>5, <2>6, <2>7, <2>8 DEF TrackInv
<1> QED
  BY <1>8, <1>9, <1>10

\* The writer adds the thread that it did not know.
LEMMA CreateAddTrack ==
  ASSUME TypeInv, NEW t \in Tid, OrderInv(t), TrackInv(t), t \notin crossed', CreateAdd
  PROVE  TrackInv(t)'
<1> DEFINE u == writer.tid
<1>1. /\ writer.at = "add" /\ u \in Tid /\ u \notin Internal /\ AddThread(u)
      /\ writer'.at = "started" /\ writer'.tid = u /\ writer'.id = nextId
      /\ crossed' = IF Listed(u) THEN crossed \cup {u} ELSE crossed
      /\ UNCHANGED <<life, outgoing, replies, loop, shown, idsOf>>
  BY DEF CreateAdd, Cross, TypeInv, TrackingTypeOK, WriterInv, pydevd, client
<1>2. /\ DOMAIN toVscode' = DOMAIN toVscode \cup {u}
      /\ toVscode'[u] = nextId
      /\ \A v \in DOMAIN toVscode : v # u => toVscode'[v] = toVscode[v]
  BY <1>1, AddedThread
<1>3. CASE u # t
  <2>1. (Known(t)' <=> Known(t)) /\ (Known(t) => toVscode'[t] = toVscode[t])
    BY <1>2, <1>3 DEF Known
  <2> HIDE DEF u
  <2>2. writer.tid # t /\ writer'.tid # t
    BY <1>1, <1>3 DEF u
  <2> QED
    BY <1>1, <2>1, <2>2, TrackFrame DEF Noticed, Queued, Listed, InLoop
<1>4. CASE u = t
  <2>1. ~Known(t) /\ ~InLoop(t) /\ loop.tid # t
    BY <1>1, <1>4 DEF TrackInv, WriterAt, InLoop
  <2>2. /\ Known(t)' /\ toVscode'[t] = nextId /\ ~InLoop(t)' /\ loop'.tid # t
        /\ idsOf' = idsOf /\ shown' = shown
    BY <1>1, <1>2, <1>4, <2>1 DEF Known, InLoop
  <2>3. idsOf[t] \cap shown = {}
    BY <1>1, <2>1 DEF TrackInv, WriterAt
  <2>4. ~KillHandled(t)'
    BY <1>1, <1>4 DEF OrderInv, WriterAt, KillHandled, Queued
  <2>5. /\ \A S : ~LoopAt(S, t)'
        /\ WriterAt({"started"}, t)' /\ writer'.id = nextId
        /\ ~WriterAt({"add"}, t)' /\ ~WriterAt({"remove"}, t)'
        /\ ~WriterAt({"stopped", "continued"}, t)'
    BY <1>1, <1>4, <2>2 DEF LoopAt, WriterAt
  <2> QED
    BY <2>2, <2>3, <2>4, <2>5 DEF TrackInv
<1> QED
  BY <1>3, <1>4

LEMMA CreateSendTrack ==
  ASSUME TypeInv, OwnInv, NEW t \in Tid, OrderInv(t), TrackInv(t), CreateSend
  PROVE  TrackInv(t)'
<1> DEFINE u == writer.tid
<1>1. /\ writer.at = "started" /\ u \in Tid /\ writer.id \in Id /\ writer' = Idle
      /\ shown' = shown \cup {writer.id}
      /\ idsOf' = [idsOf EXCEPT ![u] = @ \cup {writer.id}]
      /\ UNCHANGED <<life, outgoing, toVscode, replies, loop>>
  BY DEF CreateSend, SendStarted, TypeInv, WriterInv, pydevd, map
<1>2. writer'.at = "idle" /\ writer'.tid # t /\ idsOf \in [Tid -> SUBSET Id]
  BY <1>1, NoTidAssumption DEF Idle, TypeInv, TrackingTypeOK
<1>3. CASE u # t
  <2>1. idsOf'[t] = idsOf[t]
    BY <1>1, <1>2, <1>3
  <2>2. \A n \in Id : Owns(t, n) => (n \in shown' <=> n \in shown)
    <3>1. Owns(u, writer.id)
      BY DEF Owns
    <3>2. \A n \in Id : Owns(t, n) => n # writer.id
      BY <1>1, <1>3, <3>1 DEF OwnInv
    <3> QED
      BY <1>1, <3>2
  <2> HIDE DEF u
  <2>3. writer.tid # t
    BY <1>3 DEF u
  <2> QED
    BY <1>1, <1>2, <2>1, <2>2, <2>3, TrackFrame DEF Noticed, Queued, Listed, InLoop, Known
<1>4. CASE u = t
  <2>1. Known(t) /\ writer.id = toVscode[t] /\ ~InLoop(t)
    BY <1>1, <1>4 DEF TrackInv, WriterAt
  <2>2. /\ Known(t)' /\ toVscode' = toVscode /\ ~InLoop(t)' /\ loop' = loop
        /\ toVscode[t] \in shown'
        /\ idsOf'[t] = idsOf[t] \cup {toVscode[t]}
        /\ Listed(t)' <=> Listed(t)
    BY <1>1, <1>2, <1>4, <2>1 DEF Known, InLoop, Listed
  <2>3. \A n \in idsOf'[t] \cap shown' : n = toVscode[t]
    BY <1>1, <2>1, <2>2 DEF TrackInv, WriterAt
  <2>4. (Created(t)' <=> Created(t)) /\ (KillHandled(t)' <=> KillHandled(t))
    BY <1>1, <1>2 DEF Created, KillHandled, Noticed, Queued, WriterAt
  <2>5. /\ \A S : LoopAt(S, t)' <=> LoopAt(S, t)
        /\ \A S : ~WriterAt(S, t)'
    BY <1>1, <1>2 DEF LoopAt, WriterAt
  <2> QED
    BY <2>1, <2>2, <2>3, <2>4, <2>5 DEF TrackInv
<1> QED
  BY <1>3, <1>4

\* The writer forgets the thread that has ended, and tells the client.
LEMMA KillRemoveTrack ==
  ASSUME TypeInv, NEW t \in Tid, OrderInv(t), TrackInv(t), KillRemove
  PROVE  TrackInv(t)'
<1> DEFINE u == writer.tid
<1>1. /\ writer.at = "remove" /\ u \in Tid /\ writer.id \in Id /\ RemoveThread(u, writer.id)
      /\ writer'.at = "exited" /\ writer'.tid = u /\ writer'.id = writer.id
      /\ UNCHANGED <<life, outgoing, replies, loop, shown, idsOf>>
  BY DEF KillRemove, TypeInv, TrackingTypeOK, WriterInv, pydevd, client
<1>2. /\ DOMAIN toVscode' = DOMAIN toVscode \ {u}
      /\ \A v \in DOMAIN toVscode' : toVscode'[v] = toVscode[v]
  BY <1>1, RemovedThread
<1>3. CASE u # t
  <2>1. (Known(t)' <=> Known(t)) /\ (Known(t) => toVscode'[t] = toVscode[t])
    BY <1>2, <1>3 DEF Known
  <2> HIDE DEF u
  <2>2. writer.tid # t /\ writer'.tid # t
    BY <1>1, <1>3 DEF u
  <2> QED
    BY <1>1, <2>1, <2>2, TrackFrame DEF Noticed, Queued, Listed, InLoop
<1>4. CASE u = t
  <2>1. Known(t) /\ writer.id = toVscode[t] /\ ~Listed(t)
    BY <1>1, <1>4 DEF TrackInv, WriterAt
  <2>2. ~Known(t)' /\ ~Listed(t)' /\ loop'.tid # t /\ shown' = shown /\ idsOf' = idsOf
    BY <1>1, <1>2, <1>4, <2>1 DEF Known, Listed
  <2>3. \A n \in idsOf[t] \cap shown : n = writer'.id
    BY <1>1, <2>1 DEF TrackInv, WriterAt
  <2>4. KillHandled(t)'
    BY <1>1, <1>4 DEF OrderInv, WriterAt, KillHandled, Queued
  <2>5. /\ \A S : ~LoopAt(S, t)'
        /\ WriterAt({"exited"}, t)'
        /\ ~WriterAt({"add"}, t)' /\ ~WriterAt({"started"}, t)' /\ ~WriterAt({"remove"}, t)'
        /\ ~WriterAt({"stopped", "continued"}, t)'
    BY <1>1, <1>4, <2>2 DEF LoopAt, WriterAt
  <2> QED
    BY <2>2, <2>3, <2>4, <2>5 DEF TrackInv
<1> QED
  BY <1>3, <1>4

LEMMA KillSendTrack ==
  ASSUME TypeInv, OwnInv, NEW t \in Tid, OrderInv(t), TrackInv(t), KillSend
  PROVE  TrackInv(t)'
<1> DEFINE u == writer.tid
<1>1. /\ writer.at = "exited" /\ u \in Tid /\ writer.id \in Id /\ writer' = Idle
      /\ shown' = shown \ {writer.id}
      /\ UNCHANGED <<life, outgoing, toVscode, replies, loop, idsOf>>
  BY DEF KillSend, TypeInv, WriterInv, pydevd, map
<1>2. writer'.at = "idle" /\ writer'.tid # t
  BY <1>1, NoTidAssumption DEF Idle
<1>3. CASE u # t
  <2>1. \A n \in Id : Owns(t, n) => (n \in shown' <=> n \in shown)
    <3>1. Owns(u, writer.id)
      BY DEF Owns
    <3>2. \A n \in Id : Owns(t, n) => n # writer.id
      BY <1>1, <1>3, <3>1 DEF OwnInv
    <3> QED
      BY <1>1, <3>2
  <2> HIDE DEF u
  <2>2. writer.tid # t
    BY <1>3 DEF u
  <2> QED
    BY <1>1, <1>2, <2>1, <2>2, TrackFrame DEF Noticed, Queued, Listed, InLoop, Known
<1>4. CASE u = t
  <2>1. KillHandled(t) /\ KillHandled(t)'
    BY <1>1, <1>2, <1>4 DEF OrderInv, WriterAt, KillHandled, Queued
  <2>2. ~Known(t) /\ ~Listed(t) /\ ~Known(t)' /\ ~Listed(t)' /\ loop'.tid # t
    BY <1>1, <2>1 DEF TrackInv, Known, Listed
  <2>3. idsOf'[t] \cap shown' = {}
    BY <1>1, <2>2 DEF TrackInv
  <2>4. /\ \A S : ~LoopAt(S, t)'
        /\ \A S : ~WriterAt(S, t)'
    BY <1>1, <1>2, <2>2 DEF LoopAt, WriterAt
  <2> QED
    BY <2>1, <2>2, <2>3, <2>4 DEF TrackInv
<1> QED
  BY <1>3, <1>4

LEMMA StopOrRunSendTrack ==
  ASSUME TypeInv, NEW t \in Tid, OrderInv(t), TrackInv(t), StopOrRunSend
  PROVE  TrackInv(t)'
<1>1. /\ writer.at \in {"stopped", "continued"} /\ writer'.at = "idle" /\ writer'.tid # t
      /\ UNCHANGED <<life, outgoing, toVscode, replies, loop, shown, idsOf>>
  BY NoTidAssumption DEF StopOrRunSend, Idle, pydevd, map, client
<1>2. /\ Known(t)' <=> Known(t)
      /\ Listed(t)' <=> Listed(t)
      /\ Created(t)' <=> Created(t)
      /\ KillHandled(t)' <=> KillHandled(t)
      /\ \A S : LoopAt(S, t)' <=> LoopAt(S, t)
      /\ \A S : ~WriterAt(S, t)'
  BY <1>1 DEF Known, Listed, Created, KillHandled, Noticed, Queued, LoopAt, WriterAt
<1>3. /\ ~WriterAt({"started"}, t) /\ ~WriterAt({"exited"}, t)
  BY <1>1 DEF WriterAt
<1> QED
  BY <1>1, <1>2, <1>3 DEF TrackInv

\* The loop takes a list, fails at one, and is through with it.
LEMMA LoopListTrack ==
  ASSUME TypeInv, NEW t \in Tid, OrderInv(t), TrackInv(t), LoopTake \/ LoopFail \/ LoopRespond
  PROVE  TrackInv(t)'
<1>1. UNCHANGED <<life, outgoing, toVscode, writer, shown, idsOf>>
  BY DEF LoopTake, LoopFail, LoopRespond, pydevd, map, client
<1>2. loop.tid = NoTid /\ loop'.tid = NoTid
  <2>1. loop.at \in {"idle", "next"} /\ (loop' = loop \/ loop'.tid = LoopIdle.tid)
    BY DEF LoopTake, LoopFail, LoopRespond, LoopIdle
  <2> QED
    BY <2>1 DEF LoopIdle, TypeInv, LoopInv
<1>3. (t \in loop'.todo \/ \E i \in DOMAIN replies' : t \in replies'[i])
        => t \in loop.todo \/ \E i \in DOMAIN replies : t \in replies[i]
  <2>1. CASE LoopTake \/ LoopFail
    <3>1. /\ replies # <<>> /\ replies' = Tail(replies) /\ replies \in Seq(ListReply)
          /\ loop'.todo = Head(replies) \ Internal \/ loop' = loop
      BY <2>1 DEF LoopTake, LoopFail, LoopIdle, TypeInv, TrackingTypeOK
    <3>2. /\ 1 \in DOMAIN replies /\ replies[1] = Head(replies)
          /\ \A i \in DOMAIN replies' : i + 1 \in DOMAIN replies /\ replies'[i] = replies[i + 1]
      BY <3>1, TailPositions
    <3> QED
      BY <3>1, <3>2
  <2>2. CASE LoopRespond
    BY <2>2 DEF LoopRespond, LoopIdle
  <2> QED
    BY <2>1, <2>2
<1>4. loop.tid # t /\ loop'.tid # t
  BY <1>2, NoTidAssumption
<1>5. (Listed(t)' => Listed(t)) /\ (InLoop(t)' => InLoop(t))
  BY <1>1, <1>3, <1>4 DEF Listed, InLoop
<1> QED
  BY <1>1, <1>4, <1>5, TrackFrame DEF Noticed, Queued, Known

\* Its two look-ups.
LEMMA LoopLookupTrack ==
  ASSUME TypeInv, NEW t \in Tid, OrderInv(t), TrackInv(t),
         NEW u \in loop.todo, LoopLookup(u)
  PROVE  TrackInv(t)'
<1>1. /\ UNCHANGED <<life, outgoing, toVscode, writer, replies, shown, idsOf>>
      /\ loop.at = "next" /\ loop.tid # t /\ loop'.todo = loop.todo \ {u}
      /\ loop'.tid = (IF Known(u) THEN NoTid ELSE u)
      /\ loop'.at = (IF Known(u) THEN "next" ELSE "unseen")
  BY NoTidAssumption DEF LoopLookup, TypeInv, TrackingTypeOK, LoopInv, pydevd, map, client
<1>2. (Listed(t)' => Listed(t)) /\ (InLoop(t)' => InLoop(t))
  BY <1>1, NoTidAssumption DEF Listed, InLoop
<1>3. CASE loop'.tid # t
  BY <1>1, <1>2, <1>3, TrackFrame DEF Noticed, Queued, Known
<1>4. CASE loop'.tid = t
  <2>1. u = t /\ ~Known(t) /\ loop'.at = "unseen" /\ Listed(t) /\ InLoop(t)
    BY <1>1, <1>4, NoTidAssumption DEF Listed, InLoop
  <2>2. ~KillHandled(t)
    BY <2>1 DEF TrackInv
  <2>3. ~Created(t)
    <3>1. t \notin Internal
      BY <2>1 DEF TypeInv, LoopInv
    <3> QED
      BY <2>1, <2>2, <3>1 DEF TrackInv
  <2>4. /\ ~Known(t)' /\ ~Created(t)' /\ ~KillHandled(t)'
        /\ \A S : WriterAt(S, t)' <=> WriterAt(S, t)
        /\ ~LoopAt({"started"}, t)'
    BY <1>1, <2>1, <2>2, <2>3
       DEF Known, Created, KillHandled, Noticed, Queued, WriterAt, LoopAt
  <2>5. ~LoopAt({"started"}, t)
    BY <1>1 DEF LoopAt
  <2> QED
    BY <1>1, <1>2, <2>1, <2>4, <2>5 DEF TrackInv
<1> QED
  BY <1>3, <1>4

LEMMA LoopAgainTrack ==
  ASSUME TypeInv, NEW t \in Tid, OrderInv(t), TrackInv(t), LoopAgain
  PROVE  TrackInv(t)'
<1>1. /\ UNCHANGED <<life, outgoing, toVscode, writer, replies, shown, idsOf>>
      /\ loop.at = "unseen" /\ loop'.tid = loop.tid /\ loop'.todo = loop.todo
      /\ ~Known(loop.tid) => loop'.at = "add" /\ loop'.id = loop.id
  BY DEF LoopAgain, TypeInv, TrackingTypeOK, pydevd, map, client
<1>2. /\ Listed(t)' <=> Listed(t)
      /\ InLoop(t)' <=> InLoop(t)
      /\ Known(t)' <=> Known(t)
  BY <1>1 DEF Listed, InLoop, Known
<1>3. CASE loop.tid # t
  BY <1>1, <1>2, <1>3, TrackFrame DEF Noticed, Queued
<1>4. CASE loop.tid = t
  <2>1. ~Known(t) /\ loop'.at = "add"
    BY <1>1, <1>4 DEF TrackInv, LoopAt
  <2>2. /\ (Created(t)' <=> Created(t)) /\ (KillHandled(t)' <=> KillHandled(t))
        /\ \A S : WriterAt(S, t)' <=> WriterAt(S, t)
        /\ ~LoopAt({"started"}, t) /\ ~LoopAt({"started"}, t)'
    BY <1>1, <2>1 DEF Created, KillHandled, Noticed, Queued, WriterAt, LoopAt
  <2> QED
    BY <1>1, <1>2, <2>1, <2>2 DEF TrackInv
<1> QED
  BY <1>3, <1>4

\* It adds the thread that it did not know, and tells the client.
LEMMA LoopAddTrack ==
  ASSUME TypeInv, NEW t \in Tid, OrderInv(t), TrackInv(t), LoopAdd
  PROVE  TrackInv(t)'
<1> DEFINE u == loop.tid
<1>1. /\ loop.at = "add" /\ u \in Tid /\ u \notin Internal /\ AddThread(u)
      /\ loop'.at = "started" /\ loop'.tid = u /\ loop'.id = nextId /\ loop'.todo = loop.todo
      /\ UNCHANGED <<life, outgoing, replies, writer, shown, idsOf>>
  BY DEF LoopAdd, TypeInv, TrackingTypeOK, LoopInv, pydevd, client
<1>2. /\ DOMAIN toVscode' = DOMAIN toVscode \cup {u}
      /\ toVscode'[u] = nextId
      /\ \A v \in DOMAIN toVscode : v # u => toVscode'[v] = toVscode[v]
  BY <1>1, AddedThread
<1>3. (Listed(t)' <=> Listed(t)) /\ (InLoop(t)' <=> InLoop(t))
  BY <1>1 DEF Listed, InLoop
<1>4. CASE u # t
  <2>1. (Known(t)' <=> Known(t)) /\ (Known(t) => toVscode'[t] = toVscode[t])
    BY <1>2, <1>4 DEF Known
  <2> HIDE DEF u
  <2>2. loop.tid # t /\ loop'.tid # t
    BY <1>1, <1>4 DEF u
  <2> QED
    BY <1>1, <1>3, <2>1, <2>2, TrackFrame DEF Noticed, Queued
<1>5. CASE u = t
  <2>1. ~Known(t) /\ InLoop(t) /\ Listed(t)
    BY <1>1, <1>5 DEF TrackInv, LoopAt, InLoop, Listed
  <2>2. /\ ~KillHandled(t) /\ ~Created(t)
        /\ ~WriterAt({"add"}, t) /\ ~WriterAt({"started"}, t) /\ ~WriterAt({"remove"}, t)
    BY <1>1, <1>5, <2>1 DEF TrackInv
  <2>3. ~WriterAt({"exited"}, t)
    BY <2>2 DEF OrderInv, WriterAt, KillHandled
  <2>4. idsOf[t] \cap shown = {}
    BY <2>1, <2>3 DEF TrackInv
  <2>5. /\ Known(t)' /\ toVscode'[t] = nextId /\ idsOf' = idsOf /\ shown' = shown
        /\ LoopAt({"started"}, t)' /\ loop'.id = nextId /\ ~LoopAt({"unseen", "add"}, t)'
        /\ \A S : WriterAt(S, t)' <=> WriterAt(S, t)
        /\ writer' = writer
        /\ ~KillHandled(t)' /\ ~Created(t)'
    BY <1>1, <1>2, <1>5, <2>2
       DEF Known, LoopAt, WriterAt, KillHandled, Created, Noticed, Queued
  <2> QED
    BY <1>1, <2>2, <2>4, <2>5 DEF TrackInv
<1> QED
  BY <1>4, <1>5

LEMMA LoopSendTrack ==
  ASSUME TypeInv, OwnInv, NEW t \in Tid, OrderInv(t), TrackInv(t), LoopSend
  PROVE  TrackInv(t)'
<1> DEFINE u == loop.tid
<1>1. /\ loop.at = "started" /\ u \in Tid /\ loop.id \in Id
      /\ loop'.at = "next" /\ loop'.tid # t /\ loop'.todo = loop.todo
      /\ shown' = shown \cup {loop.id}
      /\ idsOf' = [idsOf EXCEPT ![u] = @ \cup {loop.id}]
      /\ UNCHANGED <<life, outgoing, toVscode, replies, writer>>
  BY NoTidAssumption DEF LoopSend, SendStarted, TypeInv, TrackingTypeOK, LoopInv, pydevd, map
<1>2. idsOf \in [Tid -> SUBSET Id]
  BY DEF TypeInv, TrackingTypeOK
<1>3. (Listed(t)' => Listed(t)) /\ (InLoop(t)' => InLoop(t)) /\ (Known(t)' <=> Known(t))
  BY <1>1 DEF Listed, InLoop, Known
<1>4. CASE u # t
  <2>1. idsOf'[t] = idsOf[t]
    BY <1>1, <1>2, <1>4
  <2>2. \A n \in Id : Owns(t, n) => (n \in shown' <=> n \in shown)
    <3>1. Owns(u, loop.id)
      BY DEF Owns
    <3>2. \A n \in Id : Owns(t, n) => n # loop.id
      BY <1>1, <1>4, <3>1 DEF OwnInv
    <3> QED
      BY <1>1, <3>2
  <2> HIDE DEF u
  <2>3. loop.tid # t
    BY <1>4 DEF u
  <2> QED
    BY <1>1, <1>3, <2>1, <2>2, <2>3, TrackFrame DEF Noticed, Queued
<1>5. CASE u = t
  <2>1. Known(t) /\ loop.id = toVscode[t]
    BY <1>1, <1>5 DEF TrackInv, LoopAt
  <2>2. /\ toVscode' = toVscode /\ toVscode[t] \in shown' /\ shown \subseteq shown'
        /\ idsOf'[t] = idsOf[t] \cup {toVscode[t]} /\ shown' = shown \cup {toVscode[t]}
        /\ writer' = writer
    BY <1>1, <1>2, <1>5, <2>1
  <2>3. \A n \in idsOf'[t] \cap shown' :
          \/ n = toVscode[t]
          \/ WriterAt({"exited"}, t) /\ n = writer.id
    BY <2>2 DEF TrackInv
  <2>4. (Created(t)' <=> Created(t)) /\ (KillHandled(t)' <=> KillHandled(t))
    BY <1>1 DEF Created, KillHandled, Noticed, Queued, WriterAt
  <2>5. /\ \A S : ~LoopAt(S, t)'
        /\ \A S : WriterAt(S, t)' <=> WriterAt(S, t)
    BY <1>1 DEF LoopAt, WriterAt
  <2> QED
    BY <1>1, <1>3, <2>1, <2>2, <2>3, <2>4, <2>5 DEF TrackInv
<1> QED
  BY <1>4, <1>5

LEMMA NextTrackInv ==
  ASSUME TypeInv, OwnInv, [TrackingNext]_trackingVars,
         NEW t \in Tid, OrderInv(t), TrackInv(t), t \notin crossed'
  PROVE  TrackInv(t)'
<1>1. CASE UNCHANGED trackingVars
  BY <1>1, TrackFrame
     DEF trackingVars, pydevd, map, client, Known, Listed, InLoop, Noticed, Queued
<1>2. CASE \E u \in Tid :
             Start(u) \/ Notice(u) \/ End(u) \/ NoticeEnd(u) \/ Suspend(u) \/ Resume(u)
  BY <1>2, PydevdTrack
<1>3. CASE ListThreads \/ ThreadsRequest
  BY <1>3, ListTrack
<1>4. CASE WriterStep
  BY <1>4, TakeTrack, CreateAddTrack, CreateSendTrack, KillRemoveTrack, KillSendTrack,
     StopOrRunSendTrack, ListTrack DEF WriterStep
<1>5. CASE LoopStep
  BY <1>5, LoopListTrack, LoopLookupTrack, LoopAgainTrack, LoopAddTrack, LoopSendTrack
     DEF LoopStep
<1> QED
  BY <1>1, <1>2, <1>3, <1>4, <1>5 DEF TrackingNext

-----------------------------------------------------------------------------
LEMMA TrackingInitInv == TrackingInit => TrackingIInv
<1> SUFFICES ASSUME TrackingInit PROVE TrackingIInv
    OBVIOUS
<1>1. TypeInv
  BY InitTypeInv
<1>2. /\ outgoing = <<>> /\ DOMAIN outgoing = {} /\ replies = <<>> /\ DOMAIN replies = {}
      /\ writer.at = "idle" /\ writer.tid = NoTid /\ writer.id = 0
      /\ loop.at = "idle" /\ loop.tid = NoTid /\ loop.id = 0 /\ loop.todo = {}
      /\ idsOf = [t \in Tid |-> {}] /\ life = [t \in Tid |-> "unborn"]
      /\ \A t : ~Known(t)
  BY EmptySeq DEF TrackingInit, Idle, LoopIdle, Known
<1>3. OwnInv
  BY <1>2 DEF OwnInv, Owns, Id
<1>4. ASSUME NEW t \in Tid PROVE OrderInv(t) /\ TrackInv(t)
  <2>1. /\ \A m : ~Queued(m, t)
        /\ \A S : ~WriterAt(S, t) /\ ~LoopAt(S, t)
        /\ ~Noticed(t)
    BY <1>2, NoTidAssumption DEF Queued, WriterAt, LoopAt, Noticed
  <2>2. ~KillHandled(t) /\ ~Created(t) /\ idsOf[t] = {}
    BY <1>2, <2>1 DEF KillHandled, Created, Noticed
  <2>3. OrderInv(t)
    BY <1>2, <2>1 DEF OrderInv
  <2> QED
    BY <1>2, <2>1, <2>2, <2>3 DEF TrackInv
<1> QED
  BY <1>1, <1>3, <1>4 DEF TrackingIInv

\* That a create or kill has crossed a list is never forgotten.
LEMMA CrossedGrows == [TrackingNext]_trackingVars => crossed \subseteq crossed'
<1> SUFFICES ASSUME [TrackingNext]_trackingVars PROVE crossed \subseteq crossed'
  OBVIOUS
<1>1. ASSUME WriterStep PROVE crossed \subseteq crossed'
  BY <1>1 DEF WriterStep, TakeCreate, TakeKill, TakeStopOrRun, TakeList, CreateAdd, CreateSend,
     KillRemove, KillSend, StopOrRunSend, Cross
<1>2. ASSUME LoopStep PROVE crossed \subseteq crossed'
  BY <1>2 DEF LoopStep, LoopTake, LoopFail, LoopLookup, LoopAgain, LoopAdd, LoopSend, LoopRespond
<1>3. ASSUME NEW t \in Tid,
             Start(t) \/ Notice(t) \/ End(t) \/ NoticeEnd(t) \/ Suspend(t) \/ Resume(t)
      PROVE  crossed \subseteq crossed'
  BY <1>3 DEF Start, Notice, End, NoticeEnd, Suspend, Resume
<1> QED
  BY <1>1, <1>2, <1>3 DEF TrackingNext, trackingVars, ListThreads, ThreadsRequest

LEMMA TrackingStepInv == TrackingIInv /\ [TrackingNext]_trackingVars => TrackingIInv'
<1> SUFFICES ASSUME TrackingIInv, [TrackingNext]_trackingVars PROVE TrackingIInv'
    OBVIOUS
<1>1. TypeInv' /\ OwnInv'
  BY NextTypeInv, NextOwnInv DEF TrackingIInv
<1>2. \A t \in Tid : OrderInv(t)'
  BY NextOrderInv DEF TrackingIInv
<1>3. crossed \subseteq crossed'
  BY CrossedGrows
<1>4. \A t \in Tid \ crossed' : TrackInv(t)'
  BY <1>3, NextTrackInv DEF TrackingIInv
<1> QED
  BY <1>1, <1>2, <1>4 DEF TrackingIInv

\* The writer and the event loop hold, at each of their steps, the thread and the id that
\* the step needs, thread_map stays within its domain and range, and no more threads
\* requests are answered than were made.
THEOREM TrackingTypeCorrect == TrackingSpec => []TrackingTypeOK
<1>1. TrackingIInv => TrackingTypeOK
  BY DEF TrackingIInv, TypeInv
<1> QED
  BY <1>1, TrackingInitInv, TrackingStepInv, PTL DEF TrackingSpec

\* For any number of threads, requests and suspensions: on_pydevd_thread_suspend and
\* on_pydevd_thread_run name only threads that the client has been told of, and once all
\* is handled the client shows no thread whose end pydevd has noticed, unless its create
\* or kill crossed a list of threads.
THEOREM GhostsExcluded == TrackingSpec => []NoGhostThreads
<1>1. ASSUME TrackingIInv PROVE NoGhostThreads
  <2>1. writer.at \in {"stopped", "continued"} /\ writer.tid \notin crossed => writer.id \in shown
    BY <1>1 DEF TrackingIInv, TypeInv, WriterInv, TrackInv, WriterAt
  <2>2. ASSUME Settled, NEW t \in Tid \ crossed, life[t] = "dead"
        PROVE  idsOf[t] \cap shown = {}
    <3>1. KillHandled(t) /\ ~WriterAt({"exited"}, t)
      BY <2>2, EmptySeq DEF Settled, Idle, KillHandled, Queued, WriterAt
    <3> QED
      BY <1>1, <2>2, <3>1 DEF TrackingIInv, TrackInv
  <2> QED
    BY <2>1, <2>2 DEF NoGhostThreads
<1> QED
  BY <1>1, TrackingInitInv, TrackingStepInv, PTL DEF TrackingSpec

-----------------------------------------------------------------------------
\* The ids told to the client.  None is ever told for two threads, whichever of the
\* writer and the event loop made it, races or not; and a thread whose create or kill
\* crosses no list of threads is told under one id only, although both threads may find
\* it missing from thread_map.
IdsTellThreadsApart ==
  /\ \A t, u \in Tid : t # u => idsOf[t] \cap idsOf[u] = {}
  /\ \A t \in Tid \ crossed : \A m, n \in idsOf[t] : m = n

\* The ids told to the client of a thread whose create and kill cross no list: there is
\* one at most, it is the one under which thread_map has the thread, and after its kill
\* nothing adds the thread again.
TellInv(t) ==
  /\ \A m, n \in idsOf[t] : m = n
  /\ Known(t) => idsOf[t] \subseteq {toVscode[t]}
  /\ idsOf[t] # {} => Known(t) \/ KillHandled(t)

\* A kill is handled once and for all.
LEMMA KillLasts ==
  ASSUME TypeInv, NEW t \in Tid, [TrackingNext]_trackingVars, KillHandled(t)
  PROVE  KillHandled(t)'
<1>1. /\ life \in [Tid -> {"unborn", "new", "known", "stopped", "ended", "dead", "missed"}]
      /\ outgoing \in Seq(Message) /\ life[t] = "dead" /\ ~Queued("kill", t)
      /\ ~WriterAt({"remove"}, t) /\ "kill" \in EventName
  BY DEF TypeInv, TrackingTypeOK, KillHandled, EventName
<1>2. CASE UNCHANGED <<life, outgoing>> /\ (writer' = writer \/ writer'.at # "remove")
  BY <1>1, <1>2 DEF KillHandled, Queued, WriterAt
<1>3. ASSUME NEW u \in Tid, Start(u) \/ End(u) PROVE KillHandled(t)'
  <2>1. UNCHANGED <<outgoing, writer>> /\ life'[t] = "dead"
    BY <1>1, <1>3 DEF Start, End, Become, map
  <2> QED
    BY <1>1, <2>1 DEF KillHandled, Queued, WriterAt
<1>4. ASSUME NEW u \in Tid, Notice(u) \/ NoticeEnd(u) \/ Suspend(u) \/ Resume(u)
      PROVE  KillHandled(t)'
  <2>1. /\ writer' = writer /\ life'[t] = "dead" /\ (NoticeEnd(u) => u # t)
        /\ \E m \in EventName : Post(Event(m, u)) /\ (m = "kill" => u # t)
    BY <1>1, <1>4 DEF Notice, NoticeEnd, Suspend, Resume, Become, EventName
  <2>2. PICK m \in EventName : Post(Event(m, u)) /\ (m = "kill" => u # t)
    BY <2>1
  <2>3. Event(m, u) \in Message /\ outgoing' = Append(outgoing, Event(m, u))
    BY <2>2, PostEvent
  <2>4. Event(m, u) # Event("kill", t)
    BY <1>1, <2>2, Events
  <2>5. ~Queued("kill", t)'
    BY <1>1, <2>3, <2>4, QueuedAppend
  <2> QED
    BY <1>1, <2>1, <2>5 DEF KillHandled, WriterAt
<1>5. CASE ListThreads
  <2>1. PICK e \in Message :
          /\ outgoing' = Append(outgoing, e)
          /\ \A m \in EventName, u \in Tid : e # Event(m, u)
    BY <1>5, ListPosted
  <2>2. e # Event("kill", t) /\ UNCHANGED <<life, writer>>
    BY <1>1, <1>5, <2>1 DEF ListThreads
  <2>3. ~Queued("kill", t)'
    BY <1>1, <2>1, <2>2, QueuedAppend
  <2> QED
    BY <1>1, <2>2, <2>3 DEF KillHandled, WriterAt
<1>6. ASSUME NEW m, Take(m), life' = life, writer'.at # "remove" \/ writer'.tid # t
      PROVE  KillHandled(t)'
  <2>1. ~Queued("kill", t)'
    BY <1>1, <1>6, QueuedTail DEF Take
  <2> QED
    BY <1>1, <1>6, <2>1 DEF KillHandled, WriterAt
<1>7. CASE TakeKill
  <2>1. Take("kill") /\ life' = life
    BY <1>7 DEF TakeKill, pydevd
  <2>2. Head(outgoing) = Event("kill", Head(outgoing).tid) /\ outgoing # <<>>
    BY <1>1, <2>1, TakeEvent
  <2>3. Head(outgoing).tid # t
    BY <1>1, <2>1, <2>2, QueuedTail DEF Take
  <2>4. writer'.at # "remove" \/ writer'.tid # t
    BY <1>7, <2>3 DEF TakeKill, Idle
  <2> QED
    BY <1>6, <2>1, <2>4
<1>8. CASE \/ TakeCreate \/ TakeList
           \/ TakeStopOrRun("suspend", "stopped") \/ TakeStopOrRun("run", "continued")
  <2>1. /\ Take("create") \/ Take("list") \/ Take("suspend") \/ Take("run")
        /\ life' = life
    BY <1>8 DEF TakeCreate, TakeList, TakeStopOrRun, pydevd
  <2>2. writer'.at # "remove"
    BY <1>8 DEF TakeCreate, TakeList, TakeStopOrRun, Take, Idle
  <2> QED
    BY <1>6, <2>1, <2>2
<1>9. CASE \/ CreateAdd \/ CreateSend \/ KillRemove \/ KillSend \/ StopOrRunSend
  <2>1. writer \in [at : {"idle", "add", "started", "remove", "exited", "stopped", "continued"},
                    tid : Tid \cup {NoTid}, id : 0..MaxId]
    BY DEF TypeInv, TrackingTypeOK
  <2>2. UNCHANGED <<life, outgoing>>
    BY <1>9 DEF CreateAdd, CreateSend, KillRemove, KillSend, StopOrRunSend, pydevd
  <2>3. CASE CreateAdd \/ KillRemove
    <3>1. writer'.at \in {"started", "exited"}
      BY <2>1, <2>3 DEF CreateAdd, KillRemove
    <3> QED
      BY <1>2, <2>2, <3>1
  <2>4. CASE CreateSend \/ KillSend \/ StopOrRunSend
    <3>1. writer'.at = "idle"
      BY <2>4 DEF CreateSend, KillSend, StopOrRunSend, Idle
    <3> QED
      BY <1>2, <2>2, <3>1
  <2> QED
    BY <1>9, <2>3, <2>4
<1>10. CASE ThreadsRequest \/ LoopStep \/ UNCHANGED trackingVars
  BY <1>2, <1>10 DEF ThreadsRequest, LoopStep, LoopTake, LoopFail, LoopLookup, LoopAgain, LoopAdd, LoopSend,
     LoopRespond, trackingVars, pydevd
<1> QED
  BY <1>3, <1>4, <1>5, <1>7, <1>8, <1>9, <1>10 DEF TrackingNext, WriterStep

\* A step that tells nothing of t and leaves its entry of thread_map alone.
LEMMA TellKept ==
  ASSUME TypeInv, NEW t \in Tid, [TrackingNext]_trackingVars, TellInv(t),
         Known(t)' <=> Known(t), Known(t) => toVscode'[t] = toVscode[t], idsOf'[t] = idsOf[t]
  PROVE  TellInv(t)'
BY KillLasts DEF TellInv

\* t is added to thread_map: nobody has told an id of it.
LEMMA AddTells ==
  ASSUME TypeInv, NEW t \in Tid, TellInv(t), ~Known(t), ~KillHandled(t),
         NEW u \in Tid, u \notin Internal, u = t, AddThread(u), idsOf' = idsOf
  PROVE  TellInv(t)'
BY AddedThread DEF TellInv, Known

LEMMA OtherAdded ==
  ASSUME TypeInv, NEW t \in Tid, NEW u \in Tid \ {t}, u \notin Internal, AddThread(u)
  PROVE  (Known(t)' <=> Known(t)) /\ (Known(t) => toVscode'[t] = toVscode[t])
BY AddedThread DEF Known

LEMMA NextTellInv ==
  ASSUME TrackingIInv, [TrackingNext]_trackingVars, NEW t \in Tid \ crossed, TellInv(t)
  PROVE  TellInv(t)'
<1>1. TypeInv /\ OwnInv /\ OrderInv(t) /\ TrackInv(t) /\ t \in Tid
  BY DEF TrackingIInv
<1>2. idsOf \in [Tid -> SUBSET Id]
  BY <1>1 DEF TypeInv, TrackingTypeOK
<1>3. CASE UNCHANGED <<toVscode, idsOf>>
  BY <1>1, <1>3, TellKept DEF Known
<1>4. CASE CreateAdd
  <2>1. writer.at = "add" /\ writer.tid \in Tid \ Internal /\ AddThread(writer.tid) /\ idsOf' = idsOf
    BY <1>1, <1>4 DEF CreateAdd, TypeInv, WriterInv, client
  <2>2. CASE writer.tid # t
    BY <1>1, <2>1, <2>2, OtherAdded, TellKept
  <2>3. CASE writer.tid = t
    <3>1. ~Known(t) /\ ~KillHandled(t)
      BY <1>1, <2>1, <2>3 DEF TrackInv, OrderInv, WriterAt, KillHandled
    <3> QED
      BY <1>1, <2>1, <2>3, <3>1, AddTells
  <2> QED
    BY <2>2, <2>3
<1>5. CASE LoopAdd
  <2>1. loop.at = "add" /\ loop.tid \in Tid \ Internal /\ AddThread(loop.tid) /\ idsOf' = idsOf
    BY <1>1, <1>5 DEF LoopAdd, TypeInv, LoopInv, client
  <2>2. CASE loop.tid # t
    BY <1>1, <2>1, <2>2, OtherAdded, TellKept
  <2>3. CASE loop.tid = t
    <3>1. ~Known(t) /\ ~KillHandled(t)
      BY <1>1, <2>1, <2>3 DEF TrackInv, LoopAt, Listed
    <3> QED
      BY <1>1, <2>1, <2>3, <3>1, AddTells
  <2> QED
    BY <2>2, <2>3
<1>6. CASE KillRemove
  <2>1. /\ writer.at = "remove" /\ writer.tid \in Tid /\ writer.id \in Id
        /\ RemoveThread(writer.tid, writer.id) /\ idsOf' = idsOf
    BY <1>1, <1>6 DEF KillRemove, TypeInv, WriterInv, client
  <2>2. /\ DOMAIN toVscode' = DOMAIN toVscode \ {writer.tid}
        /\ \A v \in DOMAIN toVscode' : toVscode'[v] = toVscode[v]
    BY <1>1, <2>1, RemovedThread
  <2>3. CASE writer.tid # t
    <3>1. (Known(t)' <=> Known(t)) /\ (Known(t) => toVscode'[t] = toVscode[t])
      BY <2>2, <2>3 DEF Known
    <3> QED
      BY <1>1, <2>1, <3>1, TellKept
  <2>4. CASE writer.tid = t
    <3>1. KillHandled(t)' /\ ~Known(t)'
      BY <1>1, <1>6, <2>1, <2>2, <2>4
         DEF OrderInv, WriterAt, KillHandled, KillRemove, pydevd, Queued, Known
    <3> QED
      BY <2>1, <3>1 DEF TellInv
  <2> QED
    BY <2>3, <2>4
<1>7. CASE CreateSend
  <2>1. /\ writer.at = "started" /\ writer.tid \in Tid /\ toVscode' = toVscode
        /\ idsOf' = [idsOf EXCEPT ![writer.tid] = @ \cup {writer.id}]
    BY <1>1, <1>7 DEF CreateSend, SendStarted, TypeInv, WriterInv, map
  <2>2. CASE writer.tid # t
    BY <1>1, <1>2, <2>1, <2>2, TellKept DEF Known
  <2>3. CASE writer.tid = t
    <3>1. Known(t) /\ writer.id = toVscode[t]
      BY <1>1, <2>1, <2>3 DEF TrackInv, WriterAt
    <3> QED
      BY <1>1, <1>2, <2>1, <2>3, <3>1 DEF TellInv, Known
  <2> QED
    BY <2>2, <2>3
<1>8. CASE LoopSend
  <2>1. /\ loop.at = "started" /\ loop.tid \in Tid /\ toVscode' = toVscode
        /\ idsOf' = [idsOf EXCEPT ![loop.tid] = @ \cup {loop.id}]
    BY <1>1, <1>8 DEF LoopSend, SendStarted, TypeInv, LoopInv, map
  <2>2. CASE loop.tid # t
    BY <1>1, <1>2, <2>1, <2>2, TellKept DEF Known
  <2>3. CASE loop.tid = t
    <3>1. Known(t) /\ loop.id = toVscode[t]
      BY <1>1, <2>1, <2>3 DEF TrackInv, LoopAt
    <3> QED
      BY <1>1, <1>2, <2>1, <2>3, <3>1 DEF TellInv, Known
  <2> QED
    BY <2>2, <2>3
<1>9. ASSUME NEW u \in Tid, Start(u) \/ Notice(u) \/ End(u) \/ NoticeEnd(u) \/ Suspend(u) \/ Resume(u)
      PROVE  UNCHANGED <<toVscode, idsOf>>
  BY <1>9 DEF Start, Notice, End, NoticeEnd, Suspend, Resume, map, client
<1>10. CASE \/ TakeCreate \/ TakeKill \/ KillSend \/ StopOrRunSend \/ TakeList
            \/ TakeStopOrRun("suspend", "stopped") \/ TakeStopOrRun("run", "continued")
  BY <1>3, <1>10 DEF TakeCreate, TakeKill, KillSend, StopOrRunSend, TakeList, TakeStopOrRun, map, client
<1>11. CASE \/ ListThreads \/ ThreadsRequest \/ UNCHANGED trackingVars
            \/ LoopTake \/ LoopFail \/ (\E u \in loop.todo : LoopLookup(u)) \/ LoopAgain \/ LoopRespond
  BY <1>3, <1>11 DEF ListThreads, ThreadsRequest, trackingVars, LoopTake, LoopFail, LoopLookup, LoopAgain,
     LoopRespond, map, client
<1> QED
  BY <1>3, <1>4, <1>5, <1>6, <1>7, <1>8, <1>9, <1>10, <1>11 DEF TrackingNext, WriterStep, LoopStep

\* For any number of threads and lists of them: an id that the client was told never stands
\* for two threads; and a thread whose create and kill cross no list is told under one id,
\* although on_threads and on_pydevd_thread_create both look it up before they add it.
THEOREM IdsStandForOneThread == TrackingSpec => []IdsTellThreadsApart
<1> DEFINE Inv == TrackingIInv /\ \A t \in Tid \ crossed : TellInv(t)
<1>1. TrackingInit => Inv
  <2> SUFFICES ASSUME TrackingInit PROVE \A t \in Tid : TellInv(t)
    BY TrackingInitInv
  <2> QED
    BY DEF TrackingInit, TellInv, Known
<1>2. Inv /\ [TrackingNext]_trackingVars => Inv'
  <2> SUFFICES ASSUME Inv, [TrackingNext]_trackingVars PROVE \A t \in Tid \ crossed' : TellInv(t)'
    BY TrackingStepInv
  <2>1. crossed \subseteq crossed'
    BY CrossedGrows
  <2> QED
    BY <2>1, NextTellInv
<1>3. Inv => IdsTellThreadsApart
  <2> SUFFICES ASSUME Inv PROVE IdsTellThreadsApart
    OBVIOUS
  <2>1. ASSUME NEW t \in Tid, NEW u \in Tid, NEW n \in idsOf[t] \cap idsOf[u]
        PROVE  t = u
    <3>1. n \in Id /\ Owns(t, n) /\ Owns(u, n)
      BY DEF TrackingIInv, TypeInv, TrackingTypeOK, Owns
    <3> QED
      BY <3>1 DEF TrackingIInv, OwnInv
  <2>2. ASSUME NEW t \in Tid \ crossed, NEW m \in idsOf[t], NEW n \in idsOf[t]
        PROVE  m = n
    BY <2>2 DEF TellInv
  <2> QED
    BY <2>1, <2>2 DEF IdsTellThreadsApart
<1> HIDE DEF Inv
<1> QED
  BY <1>1, <1>2, <1>3, PTL DEF TrackingSpec

-----------------------------------------------------------------------------
\* Shutdown

\* Stacks of return labels.
Push(x, s) == <<x>> \o s
In(s, x) == \E i \in DOMAIN s : s[i] = x

LEMMA Pushed ==
  ASSUME NEW x \in Label, NEW s \in Seq(Label)
  PROVE  /\ Push(x, s) \in Seq(Label) /\ Push(x, s) # <<>>
         /\ Head(Push(x, s)) = x /\ Tail(Push(x, s)) = s
         /\ Len(Push(x, s)) = Len(s) + 1 /\ Len(s) \in Nat
         /\ \A y : In(Push(x, s), y) <=> y = x \/ In(s, y)
<1> DEFINE p == Push(x, s)
<1>1. <<x>> \in Seq(Label) /\ Len(<<x>>) = 1 /\ <<x>>[1] = x
  OBVIOUS
<1>2. /\ p \in Seq(Label) /\ Len(p) = Len(s) + 1 /\ Len(s) \in Nat
      /\ \A i \in 1..(1 + Len(s)) : p[i] = IF i <= 1 THEN <<x>>[i] ELSE s[i - 1]
  BY <1>1, ConcatProperties, LenProperties DEF Push
<1>3. /\ p[1] = x
      /\ \A i \in 1..Len(s) : p[i + 1] = s[i]
      /\ \A i \in 2..(Len(s) + 1) : p[i] = s[i - 1]
  <2>1. p[1] = x
    <3>1. 1 \in 1..(1 + Len(s)) /\ 1 <= 1
      BY <1>2
    <3> QED
      BY <1>1, <1>2, <3>1
  <2>2. ASSUME NEW i \in 2..(Len(s) + 1) PROVE p[i] = s[i - 1]
    <3>1. i \in 1..(1 + Len(s)) /\ ~(i <= 1)
      BY <1>2
    <3> QED
      BY <1>2, <3>1
  <2>3. ASSUME NEW i \in 1..Len(s) PROVE p[i + 1] = s[i]
    <3>1. i + 1 \in 2..(Len(s) + 1) /\ (i + 1) - 1 = i
      BY <1>2
    <3> QED
      BY <2>2, <3>1
  <2> QED
    BY <2>1, <2>2, <2>3
<1>4. p # <<>>
  BY <1>2
<1>5. Head(p) = x
  BY <1>2, <1>3, <1>4, HeadTailProperties
<1>6. Tail(p) = s
  <2>1. /\ Tail(p) \in Seq(Label) /\ Len(Tail(p)) = Len(s)
        /\ \A i \in 1..Len(s) : Tail(p)[i] = p[i + 1]
    BY <1>2, <1>4, HeadTailProperties
  <2> QED
    BY <1>3, <2>1, SeqEqual
<1>7. ASSUME NEW y PROVE In(p, y) <=> y = x \/ In(s, y)
  <2>1. DOMAIN p = 1..(Len(s) + 1) /\ DOMAIN s = 1..Len(s)
    BY <1>2, LenProperties
  <2>2. \A i \in 1..(Len(s) + 1) : i = 1 \/ (i \in 2..(Len(s) + 1) /\ i - 1 \in 1..Len(s))
    BY <1>2
  <2>3. 1 \in 1..(Len(s) + 1) /\ \A i \in 1..Len(s) : i + 1 \in 1..(Len(s) + 1)
    BY <1>2
  <2>4. ASSUME In(p, y) PROVE y = x \/ In(s, y)
    BY <1>3, <2>1, <2>2, <2>4 DEF In
  <2>5. ASSUME y = x \/ In(s, y) PROVE In(p, y)
    BY <1>3, <2>1, <2>3, <2>5 DEF In
  <2> QED
    BY <2>4, <2>5
<1> QED
  BY <1>2, <1>4, <1>5, <1>6, <1>7

LEMMA NothingIn == \A x : ~In(<<>>, x)
  BY EmptySeq DEF In

LEMMA PushedAlone ==
  ASSUME NEW x \in Label
  PROVE  /\ Push(x, <<>>) \in Seq(Label) /\ Push(x, <<>>) # <<>>
         /\ Head(Push(x, <<>>)) = x /\ Tail(Push(x, <<>>)) = <<>>
         /\ Len(Push(x, <<>>)) = 1
         /\ \A y : In(Push(x, <<>>), y) <=> y = x
<1>1. Push(x, <<>>) = <<x>>
  BY ConcatEmptySeq DEF Push
<1>2. Len(Push(x, <<>>)) = 1
  BY <1>1
<1>3. <<>> \in Seq(Label)
  BY EmptySeq
<1>4. /\ Push(x, <<>>) \in Seq(Label) /\ Push(x, <<>>) # <<>>
      /\ Head(Push(x, <<>>)) = x /\ Tail(Push(x, <<>>)) = <<>>
  BY <1>3, Pushed
<1>5. \A y : In(Push(x, <<>>), y) <=> y = x
  BY <1>3, Pushed, NothingIn
<1> QED
  BY <1>2, <1>4, <1>5

-----------------------------------------------------------------------------
\* Where a thread may be.  The labels of VSCodeMessageProcessor.close and those of
\* PydevdSocket.close; what the outermost close of a thread returns to; what a thread
\* does outside of them; and what a signal has left on the stack of the main thread.
PLabel == {"pTest", "pMark", "pTake", "pExited", "pTerminated", "pAnswer", "pStop", "pDown"}
SLabel == {"sTest", "sLock", "sDone"}

OnlyJoin == Push("join", <<>>)
OnlyDone == Push("done", <<>>)
Bases(t) ==
  CASE t = "server" -> {Push("dKill", <<>>)}
    [] t = "writer" -> {Push("sDone", OnlyDone)}
    [] OTHER -> {OnlyJoin, Push("exiting", <<>>), Push("over", <<>>), Push("over", OnlyJoin)}
Rest(t) ==
  CASE t = "server" -> {"read", "handle", "refuse", "unknown", "pydevd", "packet", "reply",
                        "dTest", "dKill", "ended"}
    [] t = "writer" -> {"run", "done"}
    [] OTHER -> {"run", "exiting", "join", "over"}
Torn == {Push("pExited", OnlyJoin), Push("sDone", Push("pExited", OnlyJoin))}

\* Thread t at label p with stack s.
Shaped(t, p, s) ==
  \/ p \in Rest(t) /\ s = <<>>
  \/ p \in PLabel /\ s \in Bases(t)
  \/ t # "writer" /\ p \in SLabel /\ \E b \in Bases(t) : s = Push("pExited", b)
  \/ t # "writer" /\ p = "pTest" /\ \E b \in Bases(t) : s = Push("sDone", Push("pExited", b))
  \/ t = "writer" /\ p \in SLabel /\ s = OnlyDone
  \/ t = "writer" /\ p = "sTest" /\ \E b \in Bases(t) : s = Push("pExited", b)
  \/ t = "main" /\ p = "pTest" /\ \E b \in Torn : s = Push("over", b)
  \/ t = "main" /\ p = "over" /\ s \in Torn \cup {OnlyJoin}

\* Thread t is past the test of _closed; it has not announced anything yet; it is
\* through with the wait for the disconnect.
PastAt(p, s) ==
  p \in {"pTake", "pExited", "pTerminated", "pAnswer", "pStop", "pDown"} \/ In(s, "pExited")
EarlyAt(p, s) == p \in {"pTake", "pExited"} \/ In(s, "pExited")
Past(t) == PastAt(pc[t], stack[t])
Early(t) == EarlyAt(pc[t], stack[t])
Late(t) == pc[t] \in {"pStop", "pDown"}

\* Thread t is in the part of PydevdSocket.close that holds the lock.
LockedAt(p, s) == p = "sDone" \/ In(s, "sDone")

StackInv ==
  /\ pc \in [Thread -> Label] /\ stack \in [Thread -> Seq(Label)]
  /\ \A t \in Thread : Shaped(t, pc[t], stack[t])
LockInv ==
  /\ \A t \in Thread : LockedAt(pc[t], stack[t]) => lock = t
  /\ lock # None => closing
PastInv == \A t \in Thread : Past(t) => closed
ControlInv == TypeOK /\ StackInv /\ LockInv /\ PastInv

\* One thread moves.
Moves(t, p, s) ==
  /\ pc' = [pc EXCEPT ![t] = p]
  /\ stack' = [stack EXCEPT ![t] = s]

-----------------------------------------------------------------------------
\* What the outermost close returns to.
LEMMA BaseFacts ==
  ASSUME NEW t \in Thread, NEW b \in Bases(t)
  PROVE  /\ b \in Seq(Label) /\ b # <<>> /\ Len(b) <= 2 /\ Len(b) \in Nat
         /\ ~In(b, "pExited")
         /\ In(b, "sDone") <=> t = "writer"
         /\ In(b, "dKill") <=> t = "server"
         /\ t = "server" => Head(b) = "dKill" /\ Tail(b) = <<>>
         /\ t = "writer" => Head(b) = "sDone" /\ Tail(b) = OnlyDone
         /\ t = "main" => Head(b) \in {"join", "exiting", "over"} /\ Tail(b) \in {<<>>, OnlyJoin}
         /\ t = "main" /\ Head(b) # "over" => Tail(b) = <<>>
         /\ t = "main" /\ ~In(b, "over") /\ ~In(b, "exiting") => b = OnlyJoin
<1>1. /\ "join" \in Label /\ "exiting" \in Label /\ "over" \in Label /\ "done" \in Label
      /\ "sDone" \in Label /\ "dKill" \in Label
  BY DEF Label, CloseLabel
<1>2. /\ OnlyJoin \in Seq(Label) /\ OnlyJoin # <<>> /\ Len(OnlyJoin) = 1
      /\ Head(OnlyJoin) = "join" /\ Tail(OnlyJoin) = <<>>
      /\ \A y : In(OnlyJoin, y) <=> y = "join"
  BY <1>1, PushedAlone DEF OnlyJoin
<1>3. /\ OnlyDone \in Seq(Label) /\ Len(OnlyDone) = 1
      /\ \A y : In(OnlyDone, y) <=> y = "done"
  BY <1>1, PushedAlone DEF OnlyDone
<1>4. /\ Push("sDone", OnlyDone) \in Seq(Label) /\ Push("sDone", OnlyDone) # <<>>
      /\ Head(Push("sDone", OnlyDone)) = "sDone" /\ Tail(Push("sDone", OnlyDone)) = OnlyDone
      /\ Len(Push("sDone", OnlyDone)) = 2
  <2>1. /\ Push("sDone", OnlyDone) \in Seq(Label) /\ Push("sDone", OnlyDone) # <<>>
        /\ Head(Push("sDone", OnlyDone)) = "sDone" /\ Tail(Push("sDone", OnlyDone)) = OnlyDone
        /\ Len(Push("sDone", OnlyDone)) = Len(OnlyDone) + 1
    BY <1>1, <1>3, Pushed
  <2> QED
    BY <1>3, <2>1
<1>5. \A y : In(Push("sDone", OnlyDone), y) <=> y = "sDone" \/ y = "done"
  <2>1. \A y : In(Push("sDone", OnlyDone), y) <=> y = "sDone" \/ In(OnlyDone, y)
    BY <1>1, <1>3, Pushed
  <2> QED
    BY <1>3, <2>1
<1>6. /\ Push("over", OnlyJoin) \in Seq(Label) /\ Push("over", OnlyJoin) # <<>>
      /\ Head(Push("over", OnlyJoin)) = "over" /\ Tail(Push("over", OnlyJoin)) = OnlyJoin
      /\ Len(Push("over", OnlyJoin)) = 2
  <2>1. /\ Push("over", OnlyJoin) \in Seq(Label) /\ Push("over", OnlyJoin) # <<>>
        /\ Head(Push("over", OnlyJoin)) = "over" /\ Tail(Push("over", OnlyJoin)) = OnlyJoin
        /\ Len(Push("over", OnlyJoin)) = Len(OnlyJoin) + 1
    BY <1>1, <1>2, Pushed
  <2> QED
    BY <1>2, <2>1
<1>7. \A y : In(Push("over", OnlyJoin), y) <=> y = "over" \/ y = "join"
  <2>1. \A y : In(Push("over", OnlyJoin), y) <=> y = "over" \/ In(OnlyJoin, y)
    BY <1>1, <1>2, Pushed
  <2> QED
    BY <1>2, <2>1
<1>8. CASE t = "server"
  <2>1. b = Push("dKill", <<>>)
    BY <1>8 DEF Bases
  <2>2. /\ b \in Seq(Label) /\ b # <<>> /\ Len(b) = 1
        /\ Head(b) = "dKill" /\ Tail(b) = <<>>
        /\ \A y : In(b, y) <=> y = "dKill"
    BY <1>1, <2>1, PushedAlone
  <2> QED
    BY <1>8, <2>2
<1>9. CASE t = "writer"
  <2>1. b = Push("sDone", OnlyDone)
    BY <1>9 DEF Bases
  <2>2. /\ b \in Seq(Label) /\ b # <<>> /\ Len(b) = 2
        /\ Head(b) = "sDone" /\ Tail(b) = OnlyDone
        /\ \A y : In(b, y) <=> y = "sDone" \/ y = "done"
    BY <1>4, <1>5, <2>1
  <2> QED
    BY <1>9, <2>2
<1>10. CASE t = "main"
  <2>1. b \in {OnlyJoin, Push("exiting", <<>>), Push("over", <<>>), Push("over", OnlyJoin)}
    BY <1>10 DEF Bases
  <2>2. ASSUME b = OnlyJoin
        PROVE  /\ b \in Seq(Label) /\ b # <<>> /\ Len(b) = 1
               /\ Head(b) = "join" /\ Tail(b) = <<>>
               /\ \A y : In(b, y) <=> y = "join"
    BY <1>2, <2>2
  <2>3. ASSUME NEW x \in {"exiting", "over"}, b = Push(x, <<>>)
        PROVE  /\ b \in Seq(Label) /\ b # <<>> /\ Len(b) = 1
               /\ Head(b) = x /\ Tail(b) = <<>>
               /\ \A y : In(b, y) <=> y = x
    <3>1. x \in Label
      BY <1>1
    <3>2. /\ Push(x, <<>>) \in Seq(Label) /\ Push(x, <<>>) # <<>> /\ Len(Push(x, <<>>)) = 1
          /\ Head(Push(x, <<>>)) = x /\ Tail(Push(x, <<>>)) = <<>>
          /\ \A y : In(Push(x, <<>>), y) <=> y = x
      BY <3>1, PushedAlone
    <3> QED
      BY <2>3, <3>2
  <2>4. ASSUME b = Push("over", OnlyJoin)
        PROVE  /\ b \in Seq(Label) /\ b # <<>> /\ Len(b) = 2
               /\ Head(b) = "over" /\ Tail(b) = OnlyJoin
               /\ \A y : In(b, y) <=> y = "over" \/ y = "join"
    BY <1>6, <1>7, <2>4
  <2>5. b \in Seq(Label) /\ b # <<>> /\ Len(b) <= 2 /\ Len(b) \in Nat
    <3>1. b \in Seq(Label) /\ b # <<>>
      BY <2>1, <2>2, <2>3, <2>4
    <3>2. Len(b) = 1 \/ Len(b) = 2
      <4>1. b \in {OnlyJoin, Push("over", OnlyJoin)} => Len(b) = 1 \/ Len(b) = 2
        BY <2>2, <2>4
      <4>2. \A x \in {"exiting", "over"} : b = Push(x, <<>>) => Len(b) = 1
        BY <2>3
      <4> QED
        BY <2>1, <4>1, <4>2
    <3>3. \A n : n = 1 \/ n = 2 => n <= 2 /\ n \in Nat
      OBVIOUS
    <3> QED
      BY <3>1, <3>2, <3>3, Zenon
  <2>6. \A y : In(b, y) => y \in {"join", "exiting", "over"}
    BY <2>1, <2>2, <2>3, <2>4
  <2>7. /\ Head(b) \in {"join", "exiting", "over"} /\ Tail(b) \in {<<>>, OnlyJoin}
        /\ Head(b) # "over" => Tail(b) = <<>>
    BY <2>1, <2>2, <2>3, <2>4
  <2>8. In(b, "over") \/ In(b, "exiting") \/ b = OnlyJoin
    BY <2>1, <2>3, <2>4
  <2> QED
    BY <1>10, <2>5, <2>6, <2>7, <2>8
<1> QED
  BY <1>8, <1>9, <1>10 DEF Thread

\* The stacks that the two close methods build on it.
LEMMA NestFacts ==
  ASSUME NEW t \in Thread, NEW b \in Bases(t)
  PROVE  /\ Push("pExited", b) \in Seq(Label) /\ Push("pExited", b) # <<>>
         /\ Len(Push("pExited", b)) <= 3 /\ Len(Push("pExited", b)) \in Nat
         /\ Head(Push("pExited", b)) = "pExited" /\ Tail(Push("pExited", b)) = b
         /\ \A y : In(Push("pExited", b), y) <=> y = "pExited" \/ In(b, y)
         /\ Push("sDone", Push("pExited", b)) \in Seq(Label)
         /\ Push("sDone", Push("pExited", b)) # <<>>
         /\ Len(Push("sDone", Push("pExited", b))) <= 4
         /\ Len(Push("sDone", Push("pExited", b))) \in Nat
         /\ Head(Push("sDone", Push("pExited", b))) = "sDone"
         /\ Tail(Push("sDone", Push("pExited", b))) = Push("pExited", b)
         /\ \A y : In(Push("sDone", Push("pExited", b)), y)
                     <=> y = "sDone" \/ y = "pExited" \/ In(b, y)
<1> DEFINE n == Push("pExited", b)
           m == Push("sDone", n)
<1>1. "pExited" \in Label /\ "sDone" \in Label
  BY DEF Label, CloseLabel
<1>2. b \in Seq(Label) /\ Len(b) <= 2 /\ Len(b) \in Nat
  BY BaseFacts
<1>3. /\ n \in Seq(Label) /\ n # <<>> /\ Head(n) = "pExited" /\ Tail(n) = b
      /\ Len(n) = Len(b) + 1
      /\ \A y : In(n, y) <=> y = "pExited" \/ In(b, y)
  BY <1>1, <1>2, Pushed
<1>4. Len(n) <= 3 /\ Len(n) \in Nat
  BY <1>2, <1>3
<1> HIDE DEF n
<1>5. /\ m \in Seq(Label) /\ m # <<>> /\ Head(m) = "sDone" /\ Tail(m) = n
      /\ Len(m) = Len(n) + 1
      /\ \A y : In(m, y) <=> y = "sDone" \/ In(n, y)
  BY <1>1, <1>3, Pushed
<1>6. Len(m) <= 4 /\ Len(m) \in Nat
  BY <1>4, <1>5
<1>7. \A y : In(m, y) <=> y = "sDone" \/ y = "pExited" \/ In(b, y)
  BY <1>3, <1>5
<1> QED
  BY <1>3, <1>4, <1>5, <1>6, <1>7 DEF n

LEMMA TornFacts ==
  ASSUME NEW b \in Torn
  PROVE  /\ b \in Seq(Label) /\ Len(b) <= 4
         /\ Push("over", b) \in Seq(Label) /\ Push("over", b) # <<>> /\ Len(Push("over", b)) <= 5
         /\ Head(Push("over", b)) = "over" /\ Tail(Push("over", b)) = b
         /\ \A y : In(Push("over", b), y) <=> y = "over" \/ In(b, y)
         /\ In(b, "pExited") /\ ~In(b, "dKill")
<1>1. OnlyJoin \in Bases("main") /\ "over" \in Label /\ "main" \in Thread
  BY DEF Bases, Label, Thread
<1>2. /\ b \in Seq(Label) /\ Len(b) <= 4 /\ Len(b) \in Nat
      /\ In(b, "pExited") /\ ~In(b, "dKill")
  BY <1>1, BaseFacts, NestFacts DEF Torn
<1>3. /\ Push("over", b) \in Seq(Label) /\ Push("over", b) # <<>>
      /\ Len(Push("over", b)) = Len(b) + 1
      /\ Head(Push("over", b)) = "over" /\ Tail(Push("over", b)) = b
      /\ \A y : In(Push("over", b), y) <=> y = "over" \/ In(b, y)
  BY <1>1, <1>2, Pushed
<1>4. Len(Push("over", b)) <= 5
  BY <1>2, <1>3
<1> QED
  BY <1>2, <1>3, <1>4

LEMMA ShapeTypes ==
  ASSUME NEW t \in Thread, NEW p, NEW s, Shaped(t, p, s)
  PROVE  p \in Label /\ s \in Seq(Label) /\ Len(s) <= 5
<1>1. p \in Label
  BY DEF Shaped, Rest, PLabel, SLabel, Label, CloseLabel
<1>2. /\ OnlyJoin \in Bases("main") /\ "main" \in Thread /\ "done" \in Label
      /\ OnlyDone \in Seq(Label) /\ Len(OnlyDone) = 1
  BY PushedAlone DEF Bases, Thread, Label, OnlyDone
<1>3. CASE s = <<>>
  BY <1>1, <1>3, EmptySeq
<1>4. CASE s = OnlyDone
  BY <1>1, <1>2, <1>4
<1>5. CASE s \in Torn \/ \E b \in Torn : s = Push("over", b)
  <2>1. s \in Seq(Label) /\ Len(s) <= 5 /\ Len(s) \in Nat
    BY <1>5, TornFacts, LenProperties
  <2> QED
    BY <1>1, <2>1
<1>6. CASE \E u \in Thread : s \in Bases(u)
  <2>1. s \in Seq(Label) /\ Len(s) <= 2 /\ Len(s) \in Nat
    BY <1>6, BaseFacts
  <2> QED
    BY <1>1, <2>1
<1>7. CASE \E b \in Bases(t) : s = Push("pExited", b) \/ s = Push("sDone", Push("pExited", b))
  <2>1. s \in Seq(Label) /\ Len(s) <= 4 /\ Len(s) \in Nat
    BY <1>7, NestFacts
  <2> QED
    BY <1>1, <2>1
<1> QED
  BY <1>2, <1>3, <1>4, <1>5, <1>6, <1>7 DEF Shaped

\* A thread that returns finds in its stack what it goes on with and what is left.
LEMMA Popped ==
  ASSUME NEW s \in Seq(Label), s # <<>>
  PROVE  /\ Head(s) \in Label /\ Tail(s) \in Seq(Label)
         /\ \A y : In(s, y) <=> y = Head(s) \/ In(Tail(s), y)
<1>1. /\ Head(s) \in Label /\ Tail(s) \in Seq(Label) /\ Len(s) \in Nat \ {0}
      /\ DOMAIN s = 1..Len(s) /\ DOMAIN Tail(s) = 1..(Len(s) - 1)
      /\ \A i \in 1..(Len(s) - 1) : Tail(s)[i] = s[i + 1]
      /\ Head(s) = s[1]
  BY HeadTailProperties, LenProperties, EmptySeq
<1>2. ASSUME NEW y, In(s, y), y # Head(s) PROVE In(Tail(s), y)
  <2>1. PICK i \in 1..Len(s) : s[i] = y
    BY <1>1, <1>2 DEF In
  <2>2. i - 1 \in 1..(Len(s) - 1) /\ (i - 1) + 1 = i
    BY <1>1, <1>2, <2>1
  <2>3. Tail(s)[i - 1] = y
    BY <1>1, <2>1, <2>2
  <2> QED
    BY <1>1, <2>2, <2>3 DEF In
<1>3. ASSUME NEW y, In(Tail(s), y) PROVE In(s, y)
  <2>1. PICK i \in 1..(Len(s) - 1) : Tail(s)[i] = y
    BY <1>1, <1>3 DEF In
  <2>2. i + 1 \in 1..Len(s)
    BY <1>1, <2>1
  <2> QED
    BY <1>1, <2>1, <2>2 DEF In
<1>4. In(s, Head(s))
  <2>1. 1 \in 1..Len(s)
    BY <1>1
  <2> QED
    BY <1>1, <2>1 DEF In
<1> QED
  BY <1>1, <1>2, <1>3, <1>4
-----------------------------------------------------------------------------
\* What the shapes say of a thread that is about to move.
LEMMA AtRest ==
  ASSUME StackInv, NEW t \in Thread, pc[t] \in Rest(t), pc[t] # "over"
  PROVE  stack[t] = <<>>
BY DEF StackInv, Shaped, Rest, PLabel, SLabel, Thread

LEMMA AtClose ==
  ASSUME StackInv, PastInv, NEW t \in Thread, pc[t] \in PLabel, pc[t] # "pTest" \/ ~closed
  PROVE  stack[t] \in Bases(t)
<1>1. Shaped(t, pc[t], stack[t])
  BY DEF StackInv
<1>2. CASE pc[t] # "pTest"
  BY <1>1, <1>2 DEF Shaped, Rest, PLabel, SLabel, Thread
<1>3. CASE ~closed
  <2>1. ~In(stack[t], "pExited")
    BY <1>3 DEF PastInv, Past, PastAt
  <2>2. \A b \in Bases(t) : stack[t] # Push("sDone", Push("pExited", b))
    BY <2>1, NestFacts
  <2>3. \A b \in Torn : stack[t] # Push("over", b)
    BY <2>1, TornFacts
  <2> QED
    BY <1>1, <2>2, <2>3 DEF Shaped, Rest, PLabel, SLabel, Thread
<1> QED
  BY <1>2, <1>3

\* The end of a close of the processor.
LEMMA BaseReturn ==
  ASSUME NEW t \in Thread, NEW b \in Bases(t)
  PROVE  /\ b \in Seq(Label) /\ b # <<>> /\ Shaped(t, Head(b), Tail(b))
         /\ ~PastAt(Head(b), Tail(b))
         /\ Head(b) \in {"join", "exiting", "over", "dKill", "sDone"}
<1>1. /\ b \in Seq(Label) /\ b # <<>>
      /\ t = "server" => Head(b) = "dKill" /\ Tail(b) = <<>>
      /\ t = "writer" => Head(b) = "sDone" /\ Tail(b) = OnlyDone
      /\ t = "main" => Head(b) \in {"join", "exiting", "over"} /\ Tail(b) \in {<<>>, OnlyJoin}
      /\ t = "main" /\ Head(b) # "over" => Tail(b) = <<>>
      /\ ~In(b, "pExited")
  BY BaseFacts
<1>2. \A y : In(b, y) <=> y = Head(b) \/ In(Tail(b), y)
  BY <1>1, Popped
<1>3. ~PastAt(Head(b), Tail(b))
  BY <1>1, <1>2 DEF PastAt, Thread
<1>4. Shaped(t, Head(b), Tail(b))
  BY <1>1 DEF Shaped, Rest, SLabel, Thread
<1> QED
  BY <1>1, <1>3, <1>4 DEF Thread

LEMMA AtTest ==
  ASSUME StackInv, NEW t \in Thread, pc[t] = "pTest"
  PROVE  /\ stack[t] # <<>> /\ Shaped(t, Head(stack[t]), Tail(stack[t]))
         /\ Head(stack[t]) \in {"join", "exiting", "over", "dKill", "sDone"}
<1>1. Shaped(t, pc[t], stack[t])
  BY DEF StackInv
<1>2. CASE stack[t] \in Bases(t)
  BY <1>2, BaseReturn
<1>3. CASE t # "writer" /\ \E b \in Bases(t) : stack[t] = Push("sDone", Push("pExited", b))
  <2>1. PICK b \in Bases(t) : stack[t] = Push("sDone", Push("pExited", b))
    BY <1>3
  <2>2. /\ stack[t] # <<>> /\ Head(stack[t]) = "sDone" /\ Tail(stack[t]) = Push("pExited", b)
    BY <2>1, NestFacts
  <2> QED
    BY <1>3, <2>2 DEF Shaped, SLabel
<1>4. CASE t = "main" /\ \E b \in Torn : stack[t] = Push("over", b)
  <2>1. PICK b \in Torn : stack[t] = Push("over", b)
    BY <1>4
  <2>2. stack[t] # <<>> /\ Head(stack[t]) = "over" /\ Tail(stack[t]) = b
    BY <2>1, TornFacts
  <2> QED
    BY <1>4, <2>2 DEF Shaped
<1> QED
  BY <1>1, <1>2, <1>3, <1>4 DEF Shaped, Rest, SLabel, Thread

LEMMA AtSocket ==
  ASSUME StackInv, LockInv, NEW t \in Thread, pc[t] \in SLabel
  PROVE  /\ stack[t] # <<>> /\ Shaped(t, Head(stack[t]), Tail(stack[t]))
         /\ Head(stack[t]) \in {"pExited", "done"}
         /\ \/ t # "writer" /\ \E b \in Bases(t) : stack[t] = Push("pExited", b)
            \/ t = "writer" /\ stack[t] = OnlyDone
            \/ t = "writer" /\ pc[t] = "sTest" /\ closing
         /\ pc[t] = "sDone" => ~LockedAt(Head(stack[t]), Tail(stack[t]))
<1>1. Shaped(t, pc[t], stack[t])
  BY DEF StackInv
<1>2. CASE t # "writer" /\ \E b \in Bases(t) : stack[t] = Push("pExited", b)
  <2>1. PICK b \in Bases(t) : stack[t] = Push("pExited", b)
    BY <1>2
  <2>2. stack[t] # <<>> /\ Head(stack[t]) = "pExited" /\ Tail(stack[t]) = b
    BY <2>1, NestFacts
  <2>3. ~In(b, "sDone")
    BY <1>2, BaseFacts
  <2> QED
    BY <1>2, <2>1, <2>2, <2>3 DEF Shaped, PLabel, LockedAt
<1>3. CASE t = "writer" /\ stack[t] = OnlyDone
  <2>1. "done" \in Label
    BY DEF Label
  <2>2. stack[t] # <<>> /\ Head(stack[t]) = "done" /\ Tail(stack[t]) = <<>>
    BY <1>3, <2>1, PushedAlone DEF OnlyDone
  <2> QED
    BY <1>3, <2>2, NothingIn DEF Shaped, Rest, LockedAt
<1>4. CASE t = "writer" /\ pc[t] = "sTest" /\ \E b \in Bases(t) : stack[t] = Push("pExited", b)
  <2>1. PICK b \in Bases(t) : stack[t] = Push("pExited", b)
    BY <1>4
  <2>2. stack[t] # <<>> /\ Head(stack[t]) = "pExited" /\ Tail(stack[t]) = b
    BY <2>1, NestFacts
  <2>3. In(stack[t], "sDone")
    BY <1>4, <2>1, NestFacts, BaseFacts
  <2>4. lock = t /\ t # None
    BY <2>3 DEF LockInv, LockedAt, None, Thread
  <2>5. closing
    BY <2>4 DEF LockInv
  <2> QED
    BY <1>4, <2>1, <2>2, <2>5 DEF Shaped, PLabel
<1> QED
  BY <1>1, <1>2, <1>3, <1>4 DEF Shaped, Rest, PLabel, SLabel, Thread

-----------------------------------------------------------------------------
\* A step of thread t to label p with stack s, as far as the control goes.
Locks(p, s) == p \in {"sDone", "over"} \/ In(s, "sDone") \/ In(s, "over")
Steps(t, p, s) ==
  /\ Moves(t, p, s) /\ Shaped(t, p, s)
  /\ closed => closed'
  /\ PastAt(p, s) => Past(t) \/ (p = "pTake" /\ closed')
  /\ EarlyAt(p, s) => Early(t) \/ p = "pTake"
  /\ In(s, "dKill") => In(stack[t], "dKill") \/ pc[t] = "dTest"
  /\ p = "dKill" => In(stack[t], "dKill")
  /\ lock' \in Thread \cup {None}
  /\ \A u \in Thread \ {t} : lock' = u <=> lock = u
  /\ LockedAt(p, s) => lock' = t
  /\ lock' = t => Locks(p, s)
  /\ lock' # None => closing'

Standing == UNCHANGED <<pc, stack, closed, lock, closing>>

LEMMA Moved ==
  ASSUME StackInv, NEW t \in Thread, NEW p, NEW s, Moves(t, p, s)
  PROVE  /\ pc'[t] = p /\ stack'[t] = s
         /\ \A u \in Thread \ {t} : pc'[u] = pc[u] /\ stack'[u] = stack[u]
BY DEF StackInv, Moves

LEMMA HeldBy == LockHeld <=> (lock # None => Locks(pc[lock], stack[lock]))
BY DEF LockHeld, Locks, In

\* It keeps the control invariants.
LEMMA ControlKept ==
  ASSUME StackInv, LockInv, PastInv, LockHeld, NEW t \in Thread, NEW p, NEW s, Steps(t, p, s)
  PROVE  /\ StackInv' /\ LockInv' /\ PastInv' /\ LockHeld'
         /\ \A u \in Thread : stack'[u] \in Seq(Label) /\ Len(stack'[u]) <= 5
<1>1. /\ pc'[t] = p /\ stack'[t] = s
      /\ \A u \in Thread \ {t} : pc'[u] = pc[u] /\ stack'[u] = stack[u]
  BY Moved DEF Steps
<1>2. \A u \in Thread : Shaped(u, pc'[u], stack'[u])
  BY <1>1 DEF Steps, StackInv
<1>3. \A u \in Thread : pc'[u] \in Label /\ stack'[u] \in Seq(Label) /\ Len(stack'[u]) <= 5
  BY <1>2, ShapeTypes
<1>4. pc' \in [Thread -> Label] /\ stack' \in [Thread -> Seq(Label)]
  BY <1>1, <1>3 DEF Steps, Moves, StackInv
<1>5. LockInv'
  BY <1>1 DEF Steps, LockInv
<1>6. PastInv'
  BY <1>1 DEF Steps, PastInv, Past
<1>7. lock' # None => Locks(pc'[lock'], stack'[lock'])
  <2>1. lock # None => Locks(pc[lock], stack[lock])
    BY HeldBy
  <2>2. CASE lock' = t
    BY <1>1, <2>2 DEF Steps
  <2>3. CASE lock' # t /\ lock' # None
    BY <1>1, <2>1, <2>3 DEF Steps
  <2> QED
    BY <2>2, <2>3
<1>8. LockHeld'
  BY <1>7 DEF LockHeld, Locks, In
<1> QED
  BY <1>2, <1>3, <1>4, <1>5, <1>6, <1>8 DEF StackInv

LEMMA ControlStands ==
  ASSUME StackInv, LockInv, PastInv, LockHeld, Standing
  PROVE  StackInv' /\ LockInv' /\ PastInv' /\ LockHeld'
BY DEF Standing, StackInv, LockInv, PastInv, Past, LockHeld
-----------------------------------------------------------------------------
\* The four ways in which the code of a thread goes on.
Control == StackInv /\ LockInv /\ PastInv /\ LockHeld /\ lock \in Thread \cup {None}
Unlocked == UNCHANGED <<lock, closing>>

LEMMA GotoSteps ==
  ASSUME Control, NEW t \in Thread, NEW p, Goto(t, p), Unlocked, closed => closed',
         Shaped(t, p, stack[t]),
         pc[t] \notin {"sDone", "over"}, p \notin {"sDone", "dKill"},
         p \in {"pTake", "pExited", "pTerminated", "pAnswer", "pStop", "pDown"}
           => Past(t) \/ (p = "pTake" /\ closed'),
         p \in {"pTake", "pExited"} => Early(t) \/ p = "pTake"
  PROVE  Steps(t, p, stack[t])
<1>1. Moves(t, p, stack[t])
  BY DEF Goto, Moves, Control, StackInv
<1>2. lock # None => Locks(pc[lock], stack[lock])
  BY HeldBy DEF Control
<1>3. LockedAt(p, stack[t]) => lock' = t
  BY DEF LockedAt, Control, LockInv, Unlocked
<1>4. lock' = t => Locks(p, stack[t])
  <2>1. t # None
    BY DEF Thread, None
  <2> QED
    BY <1>2, <2>1 DEF Locks, Unlocked
<1>5. lock' \in Thread \cup {None} /\ lock' # None => closing'
  BY DEF Control, LockInv, Unlocked
<1>6. /\ PastAt(p, stack[t]) => Past(t) \/ (p = "pTake" /\ closed')
      /\ EarlyAt(p, stack[t]) => Early(t) \/ p = "pTake"
  BY DEF PastAt, Past, EarlyAt, Early
<1> QED
  BY <1>1, <1>3, <1>4, <1>5, <1>6 DEF Steps, Control, LockInv, Unlocked

LEMMA CallSteps ==
  ASSUME Control, NEW t \in Thread, NEW p, NEW x \in Label, Call(t, p, x), Unlocked,
         closed' = closed, Shaped(t, p, Push(x, stack[t])),
         pc[t] = "sDone" => x = "over", pc[t] # "over", p \in {"pTest", "sTest"},
         x # "sDone", x = "pExited" => Early(t), x = "dKill" => pc[t] = "dTest"
  PROVE  Steps(t, p, Push(x, stack[t]))
<1>1. Moves(t, p, Push(x, stack[t]))
  BY DEF Call, Moves, Push, Control, StackInv
<1>2. \A y : In(Push(x, stack[t]), y) <=> y = x \/ In(stack[t], y)
  BY Pushed DEF Control, StackInv
<1>3. lock # None => Locks(pc[lock], stack[lock])
  BY HeldBy DEF Control
<1>4. LockedAt(p, Push(x, stack[t])) => lock' = t
  BY <1>2 DEF LockedAt, Control, LockInv, Unlocked
<1>5. lock' = t => Locks(p, Push(x, stack[t]))
  <2>1. t # None
    BY DEF Thread, None
  <2> QED
    BY <1>2, <1>3, <2>1 DEF Locks, Unlocked
<1>6. lock' \in Thread \cup {None} /\ lock' # None => closing'
  BY DEF Control, LockInv, Unlocked
<1>7. /\ PastAt(p, Push(x, stack[t])) => Past(t)
      /\ EarlyAt(p, Push(x, stack[t])) => Early(t)
  BY <1>2 DEF PastAt, Past, EarlyAt, Early
<1> QED
  BY <1>1, <1>2, <1>4, <1>5, <1>6, <1>7 DEF Steps, Control, LockInv, Unlocked

LEMMA ReturnSteps ==
  ASSUME Control, NEW t \in Thread, Return(t), closed' = closed, stack[t] # <<>>,
         Shaped(t, Head(stack[t]), Tail(stack[t])),
         Head(stack[t]) \in {"join", "exiting", "over", "dKill", "sDone", "pExited", "done"},
         \/ Unlocked /\ pc[t] \notin {"sDone", "over"}
         \/ /\ lock = t /\ lock' = None
            /\ ~LockedAt(Head(stack[t]), Tail(stack[t]))
  PROVE  Steps(t, Head(stack[t]), Tail(stack[t]))
<1> DEFINE p == Head(stack[t])
           s == Tail(stack[t])
<1>1. Moves(t, p, s)
  BY DEF Return, Moves, Control, StackInv
<1>2. \A y : In(stack[t], y) <=> y = p \/ In(s, y)
  BY Popped DEF Control, StackInv
<1>3. t # None
  BY DEF Thread, None
<1>4. /\ PastAt(p, s) => Past(t)
      /\ EarlyAt(p, s) => Early(t)
      /\ In(s, "dKill") \/ p = "dKill" => In(stack[t], "dKill")
  BY <1>2 DEF PastAt, Past, EarlyAt, Early
<1> HIDE DEF p, s
<1>5. CASE Unlocked /\ pc[t] \notin {"sDone", "over"}
  <2>1. lock # None => Locks(pc[lock], stack[lock])
    BY HeldBy DEF Control
  <2>2. LockedAt(p, s) => lock' = t
    BY <1>2, <1>5 DEF LockedAt, Control, LockInv, Unlocked
  <2>3. lock' = t => Locks(p, s)
    BY <1>2, <1>3, <1>5, <2>1 DEF Locks, Unlocked
  <2> QED
    BY <1>1, <1>4, <1>5, <2>2, <2>3 DEF Steps, Control, LockInv, Unlocked, p, s
<1>6. CASE lock = t /\ lock' = None /\ ~LockedAt(p, s)
  <2>1. \A u \in Thread : u # None
    BY DEF Thread, None
  <2> QED
    BY <1>1, <1>4, <1>6, <2>1 DEF Steps, Control, p, s
<1> QED
  BY <1>5, <1>6 DEF p, s

LEMMA RaiseSteps ==
  ASSUME Control, NEW t \in Thread, Raise(t), closed' = closed
  PROVE  Steps(t, Handler(t), <<>>) /\ Handler(t) \in Rest(t)
         /\ ~PastAt(Handler(t), <<>>) /\ Handler(t) \in {"refuse", "done", "exiting", "over"}
<1>1. Moves(t, Handler(t), <<>>)
  BY DEF Raise, Moves, Control, StackInv
<1>2. Handler(t) \in Rest(t) /\ Handler(t) \in {"refuse", "done", "exiting", "over"}
  BY DEF Handler, Rest, Thread
<1>3. ~PastAt(Handler(t), <<>>) /\ ~EarlyAt(Handler(t), <<>>) /\ ~LockedAt(Handler(t), <<>>)
  BY <1>2, NothingIn DEF PastAt, EarlyAt, LockedAt
<1>4. Shaped(t, Handler(t), <<>>)
  BY <1>2 DEF Shaped
<1>5. /\ lock' \in Thread \cup {None} /\ lock' # t
      /\ \A u \in Thread \ {t} : lock' = u <=> lock = u
      /\ lock' # None => closing'
  <2>1. \A u \in Thread : u # None
    BY DEF Thread, None
  <2> QED
    BY <2>1 DEF Raise, Control, LockInv
<1>6. ~In(<<>>, "dKill")
  BY NothingIn
<1> QED
  BY <1>1, <1>2, <1>3, <1>4, <1>5, <1>6 DEF Steps
-----------------------------------------------------------------------------
\* The steps of the two close methods.
Step(t) == Steps(t, pc'[t], stack'[t])

LEMMA Arrived ==
  ASSUME Control, NEW t \in Thread, NEW p, NEW s, Steps(t, p, s)
  PROVE  Step(t) /\ pc'[t] = p /\ stack'[t] = s
BY Moved DEF Control, Step, Steps

LEMMA Threads == ASSUME Control, NEW t \in Thread
                 PROVE stack[t] \in Seq(Label) /\ pc[t] \in Label /\ Shaped(t, pc[t], stack[t])
BY DEF Control, StackInv

\* From one label of VSCodeMessageProcessor.close to another.
LEMMA GoOn ==
  ASSUME Control, NEW t \in Thread, NEW p \in PLabel, Goto(t, p), Unlocked, closed' = closed,
         pc[t] \in PLabel \ {"pTest", "pMark"}, p # "pTake", EarlyAt(p, stack[t]) => Early(t)
  PROVE  Step(t) /\ pc'[t] = p /\ stack'[t] = stack[t] /\ stack[t] \in Bases(t)
<1>1. stack[t] \in Bases(t)
  BY AtClose DEF Control
<1>2. Shaped(t, p, stack[t])
  BY <1>1 DEF Shaped
<1>3. Past(t)
  BY DEF Past, PastAt, PLabel
<1>4. Steps(t, p, stack[t])
  BY <1>2, <1>3, GotoSteps DEF PLabel, EarlyAt
<1> QED
  BY <1>1, <1>4, Arrived

\* The exception.
LEMMA Fall ==
  ASSUME Control, NEW t \in Thread, Raise(t), closed' = closed
  PROVE  /\ Step(t) /\ stack'[t] = <<>> /\ ~PastAt(pc'[t], stack'[t])
         /\ pc'[t] \in {"refuse", "done", "exiting", "over"} /\ (pc'[t] = "refuse" <=> t = "server")
<1>1. Steps(t, Handler(t), <<>>) /\ ~PastAt(Handler(t), <<>>)
      /\ Handler(t) \in {"refuse", "done", "exiting", "over"}
  BY RaiseSteps
<1>2. Handler(t) = "refuse" <=> t = "server"
  BY DEF Handler
<1> QED
  BY <1>1, <1>2, Arrived

LEMMA PTestSteps ==
  ASSUME Control, NEW t \in Thread, PTest(t)
  PROVE  /\ Step(t) /\ UNCHANGED <<conn, socket>>
         /\ \/ closed /\ pc'[t] = Head(stack[t]) /\ stack'[t] = Tail(stack[t])
               /\ pc'[t] \in {"join", "exiting", "over", "dKill", "sDone"}
            \/ ~closed /\ pc'[t] = "pMark" /\ stack'[t] = stack[t] /\ stack[t] \in Bases(t)
<1>1. pc[t] = "pTest" /\ closed' = closed /\ Unlocked /\ UNCHANGED <<conn, socket>>
  BY DEF PTest, At, Unlocked, processor, socket
<1>2. CASE closed
  <2>1. Return(t)
    BY <1>2 DEF PTest
  <2>2. /\ stack[t] # <<>> /\ Shaped(t, Head(stack[t]), Tail(stack[t]))
        /\ Head(stack[t]) \in {"join", "exiting", "over", "dKill", "sDone"}
    BY <1>1, AtTest DEF Control
  <2>3. Steps(t, Head(stack[t]), Tail(stack[t]))
    BY <1>1, <2>1, <2>2, ReturnSteps
  <2> QED
    BY <1>1, <1>2, <2>2, <2>3, Arrived
<1>3. CASE ~closed
  <2>1. Goto(t, "pMark")
    BY <1>3 DEF PTest
  <2>2. stack[t] \in Bases(t)
    BY <1>1, <1>3, AtClose DEF Control, PLabel
  <2>3. Shaped(t, "pMark", stack[t])
    BY <2>2 DEF Shaped, PLabel
  <2>4. Steps(t, "pMark", stack[t])
    BY <1>1, <2>1, <2>3, GotoSteps
  <2> QED
    BY <1>1, <1>3, <2>2, <2>4, Arrived
<1> QED
  BY <1>2, <1>3

LEMMA PMarkSteps ==
  ASSUME Control, NEW t \in Thread, PMark(t)
  PROVE  Step(t) /\ pc[t] = "pMark" /\ pc'[t] = "pTake" /\ stack'[t] = stack[t] /\ stack[t] \in Bases(t)
<1>1. pc[t] = "pMark" /\ closed' = TRUE /\ Unlocked /\ Goto(t, "pTake")
  BY DEF PMark, At, Unlocked, socket
<1>2. stack[t] \in Bases(t)
  BY <1>1, AtClose DEF Control, PLabel
<1>3. Shaped(t, "pTake", stack[t])
  BY <1>2 DEF Shaped, PLabel
<1>4. Steps(t, "pTake", stack[t])
  BY <1>1, <1>3, GotoSteps
<1> QED
  BY <1>1, <1>2, <1>4, Arrived

LEMMA PTakeSteps ==
  ASSUME Control, NEW t \in Thread, PTake(t)
  PROVE  /\ Step(t) /\ Past(t)
         /\ \/ pc'[t] = "sTest" /\ UNCHANGED socket
            \/ Raise(t) /\ ~PastAt(pc'[t], stack'[t]) /\ stack'[t] = <<>>
               /\ pc'[t] \in {"refuse", "done", "exiting", "over"} /\ (pc'[t] = "refuse" <=> t = "server")
<1>1. pc[t] = "pTake" /\ closed' = closed
  BY DEF PTake, At
<1>2. Past(t) /\ Early(t)
  BY <1>1 DEF Past, PastAt, Early, EarlyAt
<1>3. CASE Call(t, "sTest", "pExited") /\ UNCHANGED socket
  <2>1. stack[t] \in Bases(t)
    BY <1>1, AtClose DEF Control, PLabel
  <2>2. Shaped(t, "sTest", Push("pExited", stack[t]))
    BY <2>1 DEF Shaped, SLabel
  <2>3. "pExited" \in Label
    BY DEF Label, CloseLabel
  <2>4. Steps(t, "sTest", Push("pExited", stack[t]))
    BY <1>1, <1>2, <1>3, <2>2, <2>3, CallSteps DEF Unlocked, socket
  <2> QED
    BY <1>2, <1>3, <2>4, Arrived
<1>4. CASE Raise(t)
  BY <1>1, <1>2, <1>4, Fall
<1> QED
  BY <1>3, <1>4 DEF PTake

LEMMA PEventSteps ==
  ASSUME Control, NEW t \in Thread, NEW at, NEW event, NEW next, PEvent(t, at, event, next),
         <<at, next>> \in {<<"pExited", "pTerminated">>, <<"pTerminated", "pAnswer">>}
  PROVE  /\ Step(t) /\ Past(t) /\ pc[t] = at /\ stack[t] \in Bases(t)
         /\ \/ /\ Sends /\ Announce(event) /\ UNCHANGED <<answers, conn, socket>>
               /\ pc'[t] = next /\ stack'[t] = stack[t]
            \/ /\ Fails /\ UNCHANGED <<answers, announced>>
               /\ Raise(t) /\ ~PastAt(pc'[t], stack'[t]) /\ stack'[t] = <<>>
               /\ pc'[t] \in {"refuse", "done", "exiting", "over"} /\ (pc'[t] = "refuse" <=> t = "server")
<1>1. pc[t] = at /\ closed' = closed
  BY DEF PEvent, At, processor
<1>2. Past(t) /\ at \in PLabel \ {"pTest", "pMark"} /\ next \in {"pTerminated", "pAnswer"}
  BY <1>1 DEF Past, PastAt, PLabel
<1>3. stack[t] \in Bases(t)
  BY <1>1, <1>2, AtClose DEF Control
<1>4. CASE Sends /\ Announce(event) /\ UNCHANGED answers /\ Goto(t, next) /\ UNCHANGED <<conn, socket>>
  <2>1. ~EarlyAt(next, stack[t])
    BY <1>2, <1>3, BaseFacts DEF EarlyAt
  <2>2. Step(t) /\ pc'[t] = next /\ stack'[t] = stack[t]
    BY <1>1, <1>2, <1>4, <2>1, GoOn DEF Unlocked, socket, PLabel
  <2> QED
    BY <1>1, <1>2, <1>3, <1>4, <2>2
<1>5. CASE Fails /\ Raise(t) /\ UNCHANGED <<answers, announced>>
  BY <1>1, <1>2, <1>3, <1>5, Fall
<1> QED
  BY <1>4, <1>5 DEF PEvent, SendThen

LEMMA PAnswerSteps ==
  ASSUME Control, NEW t \in Thread, PAnswer(t)
  PROVE  /\ Step(t) /\ Past(t) /\ pc[t] = "pAnswer" /\ stack[t] \in Bases(t)
         /\ \/ /\ pending /\ Sends /\ Answer("disconnect") /\ UNCHANGED <<conn, socket>>
               /\ pc'[t] = "pStop" /\ stack'[t] = stack[t]
            \/ /\ ~pending /\ UNCHANGED <<conn, socket, answers, announced>>
               /\ pc'[t] = "pStop" /\ stack'[t] = stack[t]
            \/ /\ pending /\ Fails /\ UNCHANGED <<answers, announced>>
               /\ Raise(t) /\ ~PastAt(pc'[t], stack'[t]) /\ stack'[t] = <<>>
               /\ pc'[t] \in {"refuse", "done", "exiting", "over"} /\ (pc'[t] = "refuse" <=> t = "server")
<1>1. pc[t] = "pAnswer" /\ closed' = closed
  BY DEF PAnswer, At, processor
<1>2. Past(t) /\ "pAnswer" \in PLabel
  BY <1>1 DEF Past, PastAt, PLabel
<1>3. stack[t] \in Bases(t)
  BY <1>1, <1>2, AtClose DEF Control
<1>4. ASSUME Goto(t, "pStop"), UNCHANGED <<conn, socket>>
      PROVE  Step(t) /\ pc'[t] = "pStop" /\ stack'[t] = stack[t]
  <2>1. ~EarlyAt("pStop", stack[t])
    BY <1>3, BaseFacts DEF EarlyAt
  <2> QED
    BY <1>1, <1>2, <1>4, <2>1, GoOn DEF Unlocked, socket, PLabel
<1>5. CASE pending /\ SendThen(t, Answer("disconnect"), "pStop")
  <2>1. CASE Sends /\ Answer("disconnect") /\ Goto(t, "pStop") /\ UNCHANGED <<conn, socket>>
    BY <1>1, <1>2, <1>3, <1>4, <1>5, <2>1
  <2>2. CASE Fails /\ Raise(t) /\ UNCHANGED <<answers, announced>>
    BY <1>1, <1>2, <1>3, <1>5, <2>2, Fall
  <2> QED
    BY <1>5, <2>1, <2>2 DEF SendThen
<1>6. CASE ~pending /\ Goto(t, "pStop") /\ UNCHANGED <<socket, conn, answers, announced>>
  BY <1>1, <1>2, <1>3, <1>4, <1>6
<1> QED
  BY <1>5, <1>6 DEF PAnswer

LEMMA PStopSteps ==
  ASSUME Control, NEW t \in Thread, PStop(t)
  PROVE  /\ Step(t) /\ Past(t) /\ pc[t] = "pStop" /\ stack[t] \in Bases(t)
         /\ pc'[t] = "pDown" /\ stack'[t] = stack[t]
<1>1. pc[t] = "pStop" /\ closed' = closed /\ Goto(t, "pDown") /\ Unlocked
  BY DEF PStop, At, Unlocked, socket
<1>2. Past(t) /\ "pStop" \in PLabel
  BY <1>1 DEF Past, PastAt, PLabel
<1>3. stack[t] \in Bases(t)
  BY <1>1, <1>2, AtClose DEF Control
<1>4. ~EarlyAt("pDown", stack[t])
  BY <1>3, BaseFacts DEF EarlyAt
<1> QED
  BY <1>1, <1>2, <1>3, <1>4, GoOn DEF PLabel

LEMMA PDownSteps ==
  ASSUME Control, NEW t \in Thread, PDown(t)
  PROVE  /\ Step(t) /\ Past(t) /\ pc[t] = "pDown" /\ stack[t] \in Bases(t) /\ ~PastAt(pc'[t], stack'[t])
         /\ \/ /\ conn # "closed" /\ conn' = "closed" /\ UNCHANGED socket
               /\ pc'[t] = Head(stack[t]) /\ stack'[t] = Tail(stack[t])
               /\ pc'[t] \in {"join", "exiting", "over", "dKill", "sDone"}
            \/ /\ conn # "open" /\ conn' = (IF conn = "reset" THEN "eof" ELSE conn) /\ Raise(t)
               /\ stack'[t] = <<>>
               /\ pc'[t] \in {"refuse", "done", "exiting", "over"} /\ (pc'[t] = "refuse" <=> t = "server")
<1>1. pc[t] = "pDown" /\ closed' = closed
  BY DEF PDown, At, processor
<1>2. Past(t)
  BY <1>1 DEF Past, PastAt
<1>3. stack[t] \in Bases(t)
  BY <1>1, AtClose DEF Control, PLabel
<1>4. CASE conn # "reset" /\ conn # "closed" /\ conn' = "closed" /\ Return(t) /\ UNCHANGED socket
  <2>1. /\ stack[t] # <<>> /\ Shaped(t, Head(stack[t]), Tail(stack[t]))
        /\ ~PastAt(Head(stack[t]), Tail(stack[t]))
        /\ Head(stack[t]) \in {"join", "exiting", "over", "dKill", "sDone"}
    BY <1>3, BaseReturn
  <2>2. Steps(t, Head(stack[t]), Tail(stack[t]))
    BY <1>1, <1>4, <2>1, ReturnSteps DEF Unlocked, socket
  <2> QED
    BY <1>1, <1>2, <1>3, <1>4, <2>1, <2>2, Arrived
<1>5. CASE conn # "open" /\ conn' = (IF conn = "reset" THEN "eof" ELSE conn) /\ Raise(t)
  BY <1>1, <1>2, <1>3, <1>5, Fall
<1> QED
  BY <1>4, <1>5 DEF PDown
LEMMA STestSteps ==
  ASSUME Control, NEW t \in Thread, STest(t)
  PROVE  Step(t) /\ pc[t] = "sTest" /\ pc'[t] \in {"pExited", "done", "sLock"}
<1>1. pc[t] = "sTest" /\ closed' = closed /\ Unlocked
  BY DEF STest, At, processor, Unlocked, socket
<1>2. pc[t] \in SLabel
  BY <1>1 DEF SLabel
<1>3. CASE closing /\ Return(t)
  <2>1. /\ stack[t] # <<>> /\ Shaped(t, Head(stack[t]), Tail(stack[t]))
        /\ Head(stack[t]) \in {"pExited", "done"}
    BY <1>2, AtSocket DEF Control
  <2>2. Steps(t, Head(stack[t]), Tail(stack[t]))
    BY <1>1, <1>3, <2>1, ReturnSteps
  <2> QED
    BY <1>1, <2>1, <2>2, Arrived
<1>4. CASE ~closing /\ Goto(t, "sLock")
  <2>1. \/ t # "writer" /\ \E b \in Bases(t) : stack[t] = Push("pExited", b)
        \/ t = "writer" /\ stack[t] = OnlyDone
    BY <1>2, <1>4, AtSocket DEF Control
  <2>2. Shaped(t, "sLock", stack[t])
    BY <2>1 DEF Shaped, SLabel
  <2>3. Steps(t, "sLock", stack[t])
    BY <1>1, <1>4, <2>2, GotoSteps
  <2> QED
    BY <1>1, <2>3, Arrived
<1> QED
  BY <1>3, <1>4 DEF STest

LEMMA SLockSteps ==
  ASSUME Control, NEW t \in Thread, SLock(t)
  PROVE  Step(t) /\ pc[t] = "sLock" /\ pc'[t] \in {"pExited", "done", "pTest", "sDone"}
<1>1. pc[t] = "sLock" /\ closed' = closed /\ lock = None
  BY DEF SLock, At, processor
<1>2. pc[t] \in SLabel
  BY <1>1 DEF SLabel
<1>3. CASE sockClosed /\ Return(t) /\ UNCHANGED socket
  <2>1. /\ stack[t] # <<>> /\ Shaped(t, Head(stack[t]), Tail(stack[t]))
        /\ Head(stack[t]) \in {"pExited", "done"}
    BY <1>2, AtSocket DEF Control
  <2>2. Steps(t, Head(stack[t]), Tail(stack[t]))
    BY <1>1, <1>3, <2>1, ReturnSteps DEF Unlocked, socket
  <2> QED
    BY <1>1, <2>1, <2>2, Arrived
<1>4. CASE /\ lock' = t /\ closing' = TRUE
           /\ IF hasProc THEN Call(t, "pTest", "sDone") ELSE Goto(t, "sDone")
  <2>1. \/ t # "writer" /\ \E b \in Bases(t) : stack[t] = Push("pExited", b)
        \/ t = "writer" /\ stack[t] = OnlyDone
    BY <1>1, <1>2, AtSocket DEF Control
  <2>2. \A u \in Thread : u # None
    BY DEF Thread, None
  <2>3. ASSUME Call(t, "pTest", "sDone")
        PROVE  Step(t) /\ pc'[t] = "pTest"
    <3>1. Shaped(t, "pTest", Push("sDone", stack[t]))
      BY <2>1 DEF Shaped, PLabel, Bases
    <3>2. Moves(t, "pTest", Push("sDone", stack[t]))
      BY <2>3 DEF Call, Moves, Push, Control, StackInv
    <3>3. "sDone" \in Label /\ stack[t] \in Seq(Label)
      BY Threads DEF Label, CloseLabel
    <3>4. \A y : In(Push("sDone", stack[t]), y) <=> y = "sDone" \/ In(stack[t], y)
      BY <3>3, Pushed
    <3>5. /\ PastAt("pTest", Push("sDone", stack[t])) => Past(t)
          /\ EarlyAt("pTest", Push("sDone", stack[t])) => Early(t)
          /\ In(Push("sDone", stack[t]), "dKill") => In(stack[t], "dKill")
          /\ Locks("pTest", Push("sDone", stack[t]))
      BY <3>4 DEF PastAt, Past, EarlyAt, Early, Locks
    <3>6. Steps(t, "pTest", Push("sDone", stack[t]))
      BY <1>1, <1>4, <2>2, <3>1, <3>2, <3>5 DEF Steps
    <3> QED
      BY <3>6, Arrived
  <2>4. ASSUME Goto(t, "sDone")
        PROVE  Step(t) /\ pc'[t] = "sDone"
    <3>1. Shaped(t, "sDone", stack[t])
      BY <2>1 DEF Shaped, SLabel
    <3>2. Moves(t, "sDone", stack[t])
      BY <2>4 DEF Goto, Moves, Control, StackInv
    <3>3. /\ PastAt("sDone", stack[t]) => Past(t)
          /\ EarlyAt("sDone", stack[t]) => Early(t)
          /\ Locks("sDone", stack[t])
      BY DEF PastAt, Past, EarlyAt, Early, Locks
    <3>4. Steps(t, "sDone", stack[t])
      BY <1>1, <1>4, <2>2, <3>1, <3>2, <3>3 DEF Steps
    <3> QED
      BY <3>4, Arrived
  <2> QED
    BY <1>1, <1>4, <2>3, <2>4
<1> QED
  BY <1>3, <1>4 DEF SLock

LEMMA SDoneSteps ==
  ASSUME Control, NEW t \in Thread, SDone(t)
  PROVE  Step(t) /\ pc[t] = "sDone" /\ pc'[t] \in {"pExited", "done"}
<1>1. pc[t] = "sDone" /\ closed' = closed /\ lock' = None /\ Return(t)
  BY DEF SDone, At, processor
<1>2. /\ stack[t] # <<>> /\ Shaped(t, Head(stack[t]), Tail(stack[t]))
      /\ Head(stack[t]) \in {"pExited", "done"}
      /\ ~LockedAt(Head(stack[t]), Tail(stack[t]))
  BY <1>1, AtSocket DEF Control, SLabel
<1>3. lock = t
  BY <1>1 DEF Control, LockInv, LockedAt
<1>4. Steps(t, Head(stack[t]), Tail(stack[t]))
  BY <1>1, <1>2, <1>3, ReturnSteps
<1> QED
  BY <1>1, <1>2, <1>4, Arrived

-----------------------------------------------------------------------------
\* The steps of the threads outside of close.
LEMMA ExitSteps ==
  ASSUME Control, Exit
  PROVE  Step("main") /\ pc'["main"] = "pTest"
<1> DEFINE t == "main"
<1>1. /\ pc[t] \in {"run", "exiting"} /\ t \in Thread /\ Call(t, "pTest", "join")
      /\ closed' = closed /\ Unlocked
  BY DEF Exit, At, Thread, processor, Unlocked, socket
<1>2. stack[t] = <<>>
  BY <1>1, AtRest DEF Control, Rest
<1>3. Shaped(t, "pTest", Push("join", stack[t]))
  BY <1>2 DEF Shaped, PLabel, Bases, OnlyJoin
<1>4. "join" \in Label
  BY DEF Label
<1>5. Steps(t, "pTest", Push("join", stack[t]))
  BY <1>1, <1>3, <1>4, CallSteps
<1> QED
  BY <1>1, <1>5, Arrived

LEMMA HangupSteps ==
  ASSUME Control, Hangup
  PROVE  Step("main") /\ pc'["main"] = "pTest"
<1> DEFINE t == "main"
           x == IF pc[t] = "run" THEN "exiting" ELSE "over"
<1>1. /\ pc[t] \notin {"exiting", "over"} /\ t \in Thread /\ Call(t, "pTest", x)
      /\ ~In(stack[t], "exiting") /\ ~In(stack[t], "over")
      /\ closed' = closed /\ Unlocked
  BY DEF Hangup, Thread, processor, Unlocked, socket, In
<1>2. Shaped(t, pc[t], stack[t])
  BY <1>1, Threads
<1>3. \A b \in Bases(t) : ~In(b, "exiting") /\ ~In(b, "over") => b = OnlyJoin
  BY BaseFacts DEF Thread
<1>4. Shaped(t, "pTest", Push(x, stack[t]))
  <2>1. CASE pc[t] \in Rest(t) /\ stack[t] = <<>>
    BY <1>1, <2>1 DEF Shaped, PLabel, Bases, Rest
  <2>2. CASE pc[t] \in PLabel /\ stack[t] \in Bases(t)
    BY <1>1, <1>3, <2>2 DEF Shaped, PLabel, Bases
  <2>3. CASE pc[t] \in SLabel /\ \E b \in Bases(t) : stack[t] = Push("pExited", b)
    <3>1. PICK b \in Bases(t) : stack[t] = Push("pExited", b)
      BY <2>3
    <3>2. b = OnlyJoin
      BY <1>1, <1>3, <3>1, NestFacts
    <3> QED
      BY <2>3, <3>1, <3>2 DEF Shaped, SLabel, Torn
  <2>4. CASE pc[t] = "pTest" /\ \E b \in Bases(t) : stack[t] = Push("sDone", Push("pExited", b))
    <3>1. PICK b \in Bases(t) : stack[t] = Push("sDone", Push("pExited", b))
      BY <2>4
    <3>2. b = OnlyJoin
      BY <1>1, <1>3, <3>1, NestFacts
    <3> QED
      BY <2>4, <3>1, <3>2 DEF Shaped, Torn
  <2>5. CASE \E b \in Torn : stack[t] = Push("over", b)
    BY <1>1, <2>5, TornFacts
  <2> QED
    BY <1>1, <1>2, <2>1, <2>2, <2>3, <2>4, <2>5 DEF Shaped
<1>5. x \in Label /\ x \in {"exiting", "over"} /\ (pc[t] = "sDone" => x = "over")
  BY DEF Label
<1> HIDE DEF x
<1>6. Steps(t, "pTest", Push(x, stack[t]))
  BY <1>1, <1>4, <1>5, CallSteps
<1> QED
  BY <1>1, <1>6, Arrived

LEMMA WriterCloseSteps ==
  ASSUME Control, WriterClose
  PROVE  Step("writer") /\ pc'["writer"] = "sTest"
<1> DEFINE t == "writer"
<1>1. /\ pc[t] = "run" /\ t \in Thread /\ Call(t, "sTest", "done")
      /\ closed' = closed /\ Unlocked
  BY DEF WriterClose, At, Thread, processor, Unlocked, socket
<1>2. stack[t] = <<>>
  BY <1>1, AtRest DEF Control, Rest
<1>3. Shaped(t, "sTest", Push("done", stack[t]))
  BY <1>2 DEF Shaped, SLabel, OnlyDone
<1>4. "done" \in Label
  BY DEF Label
<1>5. Steps(t, "sTest", Push("done", stack[t]))
  BY <1>1, <1>3, <1>4, CallSteps
<1> QED
  BY <1>1, <1>5, Arrived

\* The server thread goes from one request to the next with an empty stack.
LEMMA ServerGoto ==
  ASSUME Control, NEW p \in Rest("server") \ {"dKill"}, pc["server"] \in Rest("server"),
         Goto("server", p), Unlocked, closed' = closed
  PROVE  Step("server") /\ pc'["server"] = p /\ stack'["server"] = <<>> /\ stack["server"] = <<>>
<1> DEFINE t == "server"
<1>1. t \in Thread /\ pc[t] # "over"
  BY DEF Thread, Rest
<1>2. stack[t] = <<>>
  BY <1>1, AtRest DEF Control
<1>3. Shaped(t, p, stack[t])
  BY <1>2 DEF Shaped
<1>4. Steps(t, p, stack[t])
  BY <1>1, <1>3, GotoSteps DEF Rest
<1> QED
  BY <1>1, <1>2, <1>4, Arrived

LEMMA KillTestSteps ==
  ASSUME Control, KillTest
  PROVE  /\ Step("server") /\ pc["server"] = "dTest" /\ pc'["server"] = "pTest"
         /\ stack["server"] = <<>> /\ stack'["server"] = Push("dKill", <<>>)
<1> DEFINE t == "server"
<1>1. /\ pc[t] = "dTest" /\ t \in Thread /\ Call(t, "pTest", "dKill")
      /\ closed' = closed /\ Unlocked
  BY DEF KillTest, At, Thread, processor, Unlocked, socket
<1>2. stack[t] = <<>>
  BY <1>1, AtRest DEF Control, Rest
<1>3. Shaped(t, "pTest", Push("dKill", stack[t]))
  BY <1>2 DEF Shaped, PLabel, Bases
<1>4. "dKill" \in Label
  BY DEF Label
<1>5. Steps(t, "pTest", Push("dKill", stack[t]))
  BY <1>1, <1>3, <1>4, CallSteps
<1> QED
  BY <1>1, <1>2, <1>5, Arrived
Handlers ==
  \/ Read \/ ReadEnd \/ Refuse \/ OnUnknown \/ SetExit \/ OnConfigurationDone \/ OnPause
  \/ UsePydevd \/ Packet \/ Reply \/ OnDisconnect \/ OnDisconnectLaunch \/ Kill

LEMMA ServerSends ==
  ASSUME Control, NEW p \in Rest("server") \ {"dKill"}, pc["server"] \in Rest("server"),
         closed' = closed,
         \/ Goto("server", p) /\ Unlocked
         \/ Raise("server")
  PROVE  /\ Step("server") /\ stack'["server"] = <<>> /\ stack["server"] = <<>>
         /\ pc'["server"] \in Rest("server") \ {"dKill"}
         /\ pc'["server"] = p \/ (pc'["server"] = "refuse" /\ Raise("server"))
<1> DEFINE t == "server"
<1>1. t \in Thread /\ pc[t] # "over"
  BY DEF Thread, Rest
<1>2. stack[t] = <<>>
  BY <1>1, AtRest DEF Control
<1>3. CASE Goto(t, p) /\ Unlocked
  BY <1>3, ServerGoto
<1>4. CASE Raise(t)
  <2>1. Step(t) /\ stack'[t] = <<>> /\ pc'[t] = "refuse"
    BY <1>1, <1>4, Fall
  <2> QED
    BY <1>2, <1>4, <2>1 DEF Rest
<1> QED
  BY <1>3, <1>4

LEMMA HandlerSteps ==
  ASSUME Control, Handlers
  PROVE  /\ Step("server") /\ stack'["server"] = <<>> /\ stack["server"] = <<>>
         /\ pc["server"] \in Rest("server") /\ pc'["server"] \in Rest("server") \ {"dKill"}
<1> DEFINE P(p) == /\ pc["server"] \in Rest("server") /\ p \in Rest("server") \ {"dKill"}
                   /\ closed' = closed
                   /\ \/ Goto("server", p) /\ Unlocked
                      \/ Raise("server")
<1>1. Read => P("handle")
  BY DEF Read, At, Rest, processor, Unlocked, socket
<1>2. ReadEnd => P("ended")
  BY DEF ReadEnd, At, Rest, processor, Unlocked, socket
<1>3. Refuse => P(After)
  BY DEF Refuse, After, At, Rest, processor, Unlocked, socket
<1>4. OnUnknown => P("unknown")
  BY DEF OnUnknown, Handle, SendThen, At, Rest, processor, Unlocked, socket
<1>5. SetExit => P("ended")
  BY DEF SetExit, At, Rest, processor, Unlocked, socket
<1>6. OnConfigurationDone => P("pydevd")
  BY DEF OnConfigurationDone, Handle, SendThen, At, Rest, processor, Unlocked, socket
<1>7. OnPause => P("pydevd")
  BY DEF OnPause, Handle, At, Rest, processor, Unlocked, socket
<1>8. UsePydevd => P("packet") \/ P("refuse")
  BY DEF UsePydevd, At, Rest, processor, Unlocked, socket
<1>9. Packet => P("reply") \/ P("refuse")
  BY DEF Packet, At, Rest, processor, Unlocked, socket
<1>10. Reply => P("refuse") \/ P(After)
  BY DEF Reply, After, SendThen, At, Rest, processor, Unlocked, socket
<1>11. OnDisconnect => P("refuse") \/ P(After)
  BY DEF OnDisconnect, Handle, After, SendThen, At, Rest, processor, Unlocked, socket
<1>12. OnDisconnectLaunch => P("dTest")
  BY DEF OnDisconnectLaunch, Handle, At, Rest, Unlocked, socket
<1>13. Kill => P(After)
  BY DEF Kill, After, At, Rest, processor, Unlocked, socket
<1>14. ASSUME NEW p, P(p)
       PROVE  /\ Step("server") /\ stack'["server"] = <<>> /\ stack["server"] = <<>>
              /\ pc["server"] \in Rest("server") /\ pc'["server"] \in Rest("server") \ {"dKill"}
  BY <1>14, ServerSends
<1> HIDE DEF P
<1> QED
  BY <1>1, <1>2, <1>3, <1>4, <1>5, <1>6, <1>7, <1>8, <1>9, <1>10, <1>11, <1>12, <1>13, <1>14
     DEF Handlers

\* A step of the program is a step of one thread or leaves the control as it is.
LEMMA NextSteps ==
  ASSUME Control, Next
  PROVE  (\E t \in Thread : Step(t)) \/ Standing
<1>1. ASSUME NEW t \in Thread, CloseStep(t) PROVE Step(t)
  <2>1. PTest(t) => Step(t)
    BY PTestSteps
  <2>2. PMark(t) => Step(t)
    BY PMarkSteps
  <2>3. PTake(t) => Step(t)
    BY PTakeSteps
  <2>4. PEvent(t, "pExited", "exited", "pTerminated") => Step(t)
    BY PEventSteps
  <2>5. PEvent(t, "pTerminated", "terminated", "pAnswer") => Step(t)
    BY PEventSteps
  <2>6. PAnswer(t) => Step(t)
    BY PAnswerSteps
  <2>7. PStop(t) => Step(t)
    BY PStopSteps
  <2>8. PDown(t) => Step(t)
    BY PDownSteps
  <2>9. STest(t) \/ SLock(t) \/ SDone(t) => Step(t)
    BY STestSteps, SLockSteps, SDoneSteps
  <2> QED
    BY <1>1, <2>1, <2>2, <2>3, <2>4, <2>5, <2>6, <2>7, <2>8, <2>9 DEF CloseStep
<1>2. Exit \/ Hangup => Step("main")
  BY ExitSteps, HangupSteps
<1>3. WriterClose => Step("writer")
  BY WriterCloseSteps
<1>4. ServerStep => Step("server")
  BY HandlerSteps, KillTestSteps DEF ServerStep, Handlers
<1>5. EndOfProcess \/ ClientLeaves => Standing
  BY DEF EndOfProcess, ClientLeaves, Standing, control, processor, socket
<1>6. ASSUME NEW k \in Requests, ClientRequest(k) PROVE Standing
  BY <1>6 DEF ClientRequest, Standing, control, processor, socket
<1>7. "main" \in Thread /\ "writer" \in Thread /\ "server" \in Thread
  BY DEF Thread
<1> QED
  BY <1>1, <1>2, <1>3, <1>4, <1>5, <1>6, <1>7 DEF Next

LEMMA NextControl ==
  ASSUME Control, [Next]_vars
  PROVE  Control' /\ \A t \in Thread : stack'[t] \in Seq(Label) /\ Len(stack'[t]) <= 5
<1>1. CASE UNCHANGED vars
  <2>1. Standing
    BY <1>1 DEF vars, Standing, control, processor, socket
  <2>2. Control'
    BY <2>1, ControlStands DEF Control, Standing
  <2> QED
    BY <2>2, ShapeTypes DEF Control, StackInv
<1>2. ASSUME NEW t \in Thread, Step(t)
      PROVE  Control' /\ \A u \in Thread : stack'[u] \in Seq(Label) /\ Len(stack'[u]) <= 5
  <2>1. lock' \in Thread \cup {None}
    BY <1>2 DEF Step, Steps
  <2> QED
    BY <1>2, <2>1, ControlKept DEF Control, Step
<1>3. CASE Standing
  <2>1. Control'
    BY <1>3, ControlStands DEF Control, Standing
  <2> QED
    BY <2>1, ShapeTypes DEF Control, StackInv
<1> QED
  BY <1>1, <1>2, <1>3, NextSteps
-----------------------------------------------------------------------------
\* The rest of the state.
DataInv ==
  /\ holds \subseteq Thread
  /\ {closed, hasPydevd, pending, closing, sockClosed, pipe, hasProc, exit, kill,
      waited, raced, overtaken} \subseteq BOOLEAN
  /\ reason \in {None, "launch", "attach"}
  /\ conn \in {"open", "eof", "cut", "reset", "closed"}
  /\ inbox \in Seq(Requests) /\ msg \in Requests \cup {None} /\ sent \subseteq Requests
  /\ process \in {"running", "exited", "killed"}
  /\ answers \in [Kind -> 0..2]
  /\ told \subseteq {"exited", "terminated"} /\ disorder \in BOOLEAN
  /\ stored \in {"no", "inTime", "late"}

LEMMA InitControl == Init => Control /\ DataInv /\ TypeOK
<1> SUFFICES ASSUME Init PROVE Control /\ DataInv /\ TypeOK
  OBVIOUS
<1>1. /\ pc \in [Thread -> Label] /\ <<>> \in Seq(Label) /\ <<>> \in Seq(Requests)
      /\ stack \in [Thread -> Seq(Label)]
      /\ \A t \in Thread : pc[t] \in Rest(t) /\ stack[t] = <<>> /\ pc[t] \in {"read", "run"}
  BY EmptySeq DEF Init, Thread, Label, Rest
<1>2. StackInv
  BY <1>1 DEF StackInv, Shaped
<1>3. LockInv /\ PastInv
  BY <1>1, NothingIn DEF Init, LockInv, PastInv, Past, PastAt, LockedAt
<1>4. LockHeld /\ lock \in Thread \cup {None}
  BY DEF Init, LockHeld
<1>5. DataInv
  <2>1. answers \in [Kind -> 0..2]
    BY DEF Init
  <2>2. /\ {closed, hasPydevd, pending, closing, sockClosed, pipe, hasProc, exit, kill,
           waited, raced, overtaken} \subseteq BOOLEAN
        /\ holds \subseteq Thread /\ told \subseteq {"exited", "terminated"}
    BY DEF Init
  <2> QED
    BY <1>1, <2>1, <2>2 DEF Init, DataInv
<1>6. \A t \in Thread : stack[t] \in Seq(Label) /\ Len(stack[t]) <= 5
  BY <1>2, ShapeTypes DEF StackInv
<1> QED
  BY <1>1, <1>2, <1>3, <1>4, <1>5, <1>6 DEF Control, TypeOK, DataInv

LEMMA AnswerData ==
  ASSUME DataInv, NEW k, Answer(k)
  PROVE  answers' \in [Kind -> 0..2] /\ UNCHANGED <<told, disorder>>
<1>1. answers \in [Kind -> 0..2]
  BY DEF DataInv
<1>2. answers' = [answers EXCEPT ![k] = IF answers[k] < 2 THEN answers[k] + 1 ELSE answers[k]]
  BY DEF Answer
<1>3. CASE k \in Kind
  <2>1. (IF answers[k] < 2 THEN answers[k] + 1 ELSE answers[k]) \in 0..2
    BY <1>1, <1>3
  <2> QED
    BY <1>1, <1>2, <2>1 DEF Answer, announced
<1>4. CASE k \notin Kind
  BY <1>1, <1>2, <1>4 DEF Answer, announced
<1> QED
  BY <1>3, <1>4

LEMMA AnnounceData ==
  ASSUME DataInv, NEW event \in {"exited", "terminated"}, Announce(event)
  PROVE  told' \subseteq {"exited", "terminated"} /\ disorder' \in BOOLEAN
BY DEF DataInv, Announce

LEMMA SendData ==
  ASSUME DataInv, Fails
  PROVE  conn' \in {"open", "eof", "cut", "reset", "closed"}
BY DEF DataInv, Fails

\* The fields of the socket.
SocketOK == {closing, sockClosed, pipe, hasProc} \subseteq BOOLEAN
LEMMA SocketData ==
  ASSUME DataInv
  PROVE  /\ UNCHANGED socket => SocketOK'
         /\ \A t \in Thread : Raise(t) => SocketOK'
BY DEF DataInv, SocketOK, socket, Raise

LEMMA CloseData ==
  ASSUME DataInv, NEW t \in Thread, CloseStep(t)
  PROVE  DataInv'
<1>1. CASE PTest(t)
  <2>1. overtaken' \in BOOLEAN
    BY <1>1 DEF PTest, DataInv
  <2> QED
    BY <1>1, <2>1 DEF PTest, DataInv, processor, socket, announced
<1>2. CASE PMark(t)
  <2>1. holds' \subseteq Thread
    BY <1>2 DEF PMark, DataInv
  <2> QED
    BY <1>2, <2>1 DEF PMark, DataInv, socket, announced
<1>3. CASE PTake(t)
  <2>1. SocketOK'
    BY <1>3, SocketData DEF PTake
  <2>2. holds' \subseteq Thread
    BY <1>3 DEF PTake, DataInv
  <2> QED
    BY <1>3, <2>1, <2>2 DEF PTake, DataInv, SocketOK, history, announced
<1>4. ASSUME NEW at, NEW next, NEW event \in {"exited", "terminated"}, PEvent(t, at, event, next)
      PROVE  DataInv'
  <2>1. SocketOK'
    BY <1>4, SocketData DEF PEvent, SendThen
  <2>2. /\ conn' \in {"open", "eof", "cut", "reset", "closed"}
        /\ answers' \in [Kind -> 0..2]
        /\ told' \subseteq {"exited", "terminated"} /\ disorder' \in BOOLEAN
    <3>1. CASE Announce(event) /\ UNCHANGED <<answers, conn>>
      BY <3>1, AnnounceData DEF DataInv
    <3>2. CASE Fails /\ UNCHANGED <<answers, announced>>
      BY <3>2, SendData DEF DataInv, announced
    <3> QED
      BY <1>4, <3>1, <3>2 DEF PEvent, SendThen
  <2> QED
    BY <1>4, <2>1, <2>2 DEF PEvent, DataInv, SocketOK, processor, history
<1>5. CASE PAnswer(t)
  <2>1. SocketOK'
    BY <1>5, SocketData DEF PAnswer, SendThen
  <2>2. /\ conn' \in {"open", "eof", "cut", "reset", "closed"}
        /\ answers' \in [Kind -> 0..2] /\ UNCHANGED announced
    <3>1. CASE Answer("disconnect") /\ UNCHANGED conn
      BY <3>1, AnswerData DEF DataInv, announced
    <3>2. CASE Fails /\ UNCHANGED <<answers, announced>>
      BY <3>2, SendData DEF DataInv
    <3>3. CASE UNCHANGED <<conn, answers, announced>>
      BY <3>3 DEF DataInv
    <3> QED
      BY <1>5, <3>1, <3>2, <3>3 DEF PAnswer, SendThen
  <2> QED
    BY <1>5, <2>1, <2>2 DEF PAnswer, DataInv, SocketOK, processor, announced
<1>6. CASE PStop(t)
  BY <1>6 DEF PStop, DataInv, socket, history, announced
<1>7. CASE PDown(t)
  <2>1. SocketOK'
    BY <1>7, SocketData DEF PDown
  <2>2. conn' \in {"open", "eof", "cut", "reset", "closed"}
    BY <1>7 DEF PDown, DataInv
  <2> QED
    BY <1>7, <2>1, <2>2 DEF PDown, DataInv, SocketOK, processor, history, announced
<1>8. CASE STest(t)
  BY <1>8 DEF STest, DataInv, processor, socket, history, announced
<1>9. CASE SLock(t)
  <2>1. SocketOK'
    BY <1>9 DEF SLock, DataInv, SocketOK, socket
  <2> QED
    BY <1>9, <2>1 DEF SLock, DataInv, SocketOK, processor, history, announced
<1>10. CASE SDone(t)
  BY <1>10 DEF SDone, DataInv, processor, history, announced
<1> QED
  BY <1>1, <1>2, <1>3, <1>4, <1>5, <1>6, <1>7, <1>8, <1>9, <1>10 DEF CloseStep

\* What a handler that sends leaves behind.
Sent == /\ SocketOK' /\ conn' \in {"open", "eof", "cut", "reset", "closed"}
        /\ answers' \in [Kind -> 0..2]
        /\ told' \subseteq {"exited", "terminated"} /\ disorder' \in BOOLEAN

LEMMA HandlerSends ==
  ASSUME DataInv,
         \/ \E k : Answer(k) /\ UNCHANGED <<conn, socket>>
         \/ Fails /\ (Raise("server") \/ UNCHANGED socket) /\ UNCHANGED <<answers, announced>>
         \/ UNCHANGED <<conn, socket, answers, announced>>
  PROVE  Sent
<1>1. SocketOK'
  <2>1. "server" \in Thread
    BY DEF Thread
  <2> QED
    BY <2>1, SocketData
<1>2. CASE \E k : Answer(k) /\ UNCHANGED conn
  BY <1>1, <1>2, AnswerData DEF DataInv, Sent
<1>3. CASE Fails /\ UNCHANGED <<answers, announced>>
  BY <1>1, <1>3, SendData DEF DataInv, Sent, announced
<1>4. CASE UNCHANGED <<conn, answers, announced>>
  BY <1>1, <1>4 DEF DataInv, Sent, announced
<1> QED
  BY <1>2, <1>3, <1>4

LEMMA ServerData ==
  ASSUME DataInv, ServerStep
  PROVE  DataInv'
<1>1. CASE Read
  <2>1. inbox \in Seq(Requests) /\ inbox # <<>> /\ msg' = Head(inbox) /\ inbox' = Tail(inbox)
    BY <1>1 DEF Read, DataInv
  <2>2. msg' \in Requests /\ inbox' \in Seq(Requests)
    BY <2>1, HeadTailProperties
  <2> QED
    BY <1>1, <2>2 DEF Read, DataInv, processor, socket, history, announced
<1>2. CASE ReadEnd
  <2>1. conn' \in {"open", "eof", "cut", "reset", "closed"}
    BY <1>2 DEF ReadEnd, DataInv
  <2> QED
    BY <1>2, <2>1 DEF ReadEnd, DataInv, processor, socket, history, announced
<1>3. CASE Refuse
  <2>1. Sent
    BY <1>3, HandlerSends DEF Refuse
  <2> QED
    BY <1>3, <2>1 DEF Refuse, Sent, SocketOK, DataInv, processor, history
<1>4. CASE OnUnknown
  <2>1. Sent
    BY <1>4, HandlerSends DEF OnUnknown, SendThen
  <2> QED
    BY <1>4, <2>1 DEF OnUnknown, Sent, SocketOK, DataInv, processor, history
<1>5. CASE SetExit
  BY <1>5 DEF SetExit, DataInv, processor, socket, history, announced
<1>6. CASE OnConfigurationDone
  <2>1. Sent
    BY <1>6, HandlerSends DEF OnConfigurationDone, SendThen
  <2> QED
    BY <1>6, <2>1 DEF OnConfigurationDone, Sent, SocketOK, DataInv, processor, history
<1>7. CASE OnPause
  BY <1>7 DEF OnPause, DataInv, processor, socket, history, announced
<1>8. CASE UsePydevd
  BY <1>8 DEF UsePydevd, DataInv, processor, socket, history, announced
<1>9. CASE Packet
  BY <1>9 DEF Packet, DataInv, processor, socket, history, announced
<1>10. CASE Reply
  <2>1. Sent
    BY <1>10, HandlerSends DEF Reply, SendThen
  <2> QED
    BY <1>10, <2>1 DEF Reply, Sent, SocketOK, DataInv, processor, history
<1>11. CASE OnDisconnect
  <2>1. Sent
    BY <1>11, HandlerSends DEF OnDisconnect, SendThen
  <2> QED
    BY <1>11, <2>1 DEF OnDisconnect, Sent, SocketOK, DataInv, processor, history
<1>12. CASE OnDisconnectLaunch
  BY <1>12 DEF OnDisconnectLaunch, DataInv, socket, announced
<1>13. CASE KillTest
  BY <1>13 DEF KillTest, DataInv, processor, socket, history, announced
<1>14. CASE Kill
  BY <1>14 DEF Kill, DataInv, processor, socket, history, announced
<1> QED
  BY <1>1, <1>2, <1>3, <1>4, <1>5, <1>6, <1>7, <1>8, <1>9, <1>10, <1>11, <1>12, <1>13, <1>14
     DEF ServerStep

LEMMA NextData ==
  ASSUME Control, DataInv, [Next]_vars
  PROVE  DataInv'
<1>1. CASE UNCHANGED vars
  BY <1>1 DEF vars, DataInv, control, processor, socket, announced, history
<1>2. CASE \E t \in Thread : CloseStep(t)
  BY <1>2, CloseData
<1>3. CASE ServerStep
  BY <1>3, ServerData
<1>4. CASE Exit
  BY <1>4 DEF Exit, DataInv, processor, socket, announced, history
<1>5. CASE EndOfProcess
  BY <1>5 DEF EndOfProcess, DataInv, control, processor, socket, announced, history
<1>6. CASE Hangup
  BY <1>6 DEF Hangup, DataInv, processor, socket, announced, history
<1>7. CASE WriterClose
  BY <1>7 DEF WriterClose, DataInv, processor, socket, announced, history
<1>8. ASSUME NEW k \in Requests, ClientRequest(k) PROVE DataInv'
  <2>1. inbox' \in Seq(Requests)
    BY <1>8, AppendProperties DEF ClientRequest, DataInv
  <2> QED
    BY <1>8, <2>1 DEF ClientRequest, DataInv, control, processor, socket, announced, history
<1>9. CASE ClientLeaves
  <2>1. conn' \in {"open", "eof", "cut", "reset", "closed"}
    BY <1>9, LeavesAssumption DEF ClientLeaves
  <2> QED
    BY <1>9, <2>1 DEF ClientLeaves, DataInv, control, processor, socket, announced, history
<1> QED
  BY <1>1, <1>2, <1>3, <1>4, <1>5, <1>6, <1>7, <1>8, <1>9 DEF Next

\* The control and the data of the program together.
StateInv == Control /\ DataInv

LEMMA NextState == StateInv /\ [Next]_vars => StateInv' /\ TypeOK'
<1> SUFFICES ASSUME StateInv, [Next]_vars PROVE StateInv' /\ TypeOK'
  OBVIOUS
<1>1. Control' /\ \A t \in Thread : stack'[t] \in Seq(Label) /\ Len(stack'[t]) <= 5
  BY NextControl DEF StateInv
<1>2. DataInv'
  BY NextData DEF StateInv
<1>3. TypeOK'
  BY <1>1, <1>2 DEF Control, StackInv, DataInv, TypeOK
<1> QED
  BY <1>1, <1>2, <1>3 DEF StateInv

LEMMA StateTypes == StateInv => TypeOK
<1> SUFFICES ASSUME StateInv PROVE TypeOK
  OBVIOUS
<1>1. \A t \in Thread : stack[t] \in Seq(Label) /\ Len(stack[t]) <= 5
  BY ShapeTypes DEF StateInv, Control, StackInv
<1> QED
  BY <1>1 DEF StateInv, Control, StackInv, DataInv, TypeOK

\* The fields have their types, the nesting of the two close methods is bounded, and the
\* lock of PydevdSocket is only ever held by a thread inside of its close.
THEOREM ShutdownTypeCorrect == Spec => []TypeOK
<1>1. Init => StateInv
  BY InitControl DEF StateInv
<1>2. StateInv /\ [Next]_vars => StateInv'
  BY NextState
<1> QED
  BY <1>1, <1>2, StateTypes, PTL DEF Spec

-----------------------------------------------------------------------------
\* While no two threads have got past the test of _closed at once: only one is past it, it
\* announces the two events one after the other, and it is through when the connection
\* has been closed.
Alone ==
  /\ \A t, u \in Thread : Past(t) /\ Past(u) => t = u
  /\ ~closed => told = {}
  /\ \A t \in Thread : Early(t) => told = {}
  /\ \A t \in Thread : pc[t] = "pTerminated" => told = {"exited"}
  /\ ~disorder
  /\ conn = "closed" => \A t \in Thread : ~Past(t)
RaceInv == (conn = "closed" => closed) /\ (~raced => Alone)

LEMMA EarlyPast == \A t \in Thread : (Early(t) => Past(t)) /\ (pc[t] = "pTerminated" => Past(t))
BY DEF Early, EarlyAt, Past, PastAt

\* What a step of thread t does to the others, and to itself unless it sets _closed.
LEMMA Onward ==
  ASSUME Control, NEW t \in Thread, Step(t)
  PROVE  /\ \A u \in Thread \ {t} :
               /\ pc'[u] = pc[u] /\ stack'[u] = stack[u]
               /\ Past(u)' <=> Past(u)
               /\ Early(u)' <=> Early(u)
               /\ Late(u)' <=> Late(u)
         /\ pc'[t] # "pTake" => (Past(t)' => Past(t)) /\ (Early(t)' => Early(t))
         /\ closed => closed'
<1>1. \A u \in Thread \ {t} : pc'[u] = pc[u] /\ stack'[u] = stack[u]
  BY Moved DEF Control, Step, Steps
<1>2. /\ PastAt(pc'[t], stack'[t]) => Past(t) \/ pc'[t] = "pTake"
      /\ EarlyAt(pc'[t], stack'[t]) => Early(t) \/ pc'[t] = "pTake"
      /\ closed => closed'
  BY DEF Step, Steps
<1> QED
  BY <1>1, <1>2 DEF Past, Early, Late

\* Most steps announce nothing.
LEMMA AloneKept ==
  ASSUME Control, RaceInv, NEW t \in Thread, Step(t), pc'[t] \notin {"pTake", "pTerminated"},
         UNCHANGED <<told, disorder, raced, closed>>,
         conn' = "closed" => conn = "closed" \/ (Past(t) /\ ~PastAt(pc'[t], stack'[t]))
  PROVE  RaceInv'
<1>1. /\ \A u \in Thread : (Past(u)' => Past(u)) /\ (Early(u)' => Early(u))
      /\ \A u \in Thread : pc'[u] = "pTerminated" => pc[u] = "pTerminated"
  BY Onward
<1>2. conn' = "closed" => closed
  BY DEF RaceInv, Control, PastInv
<1>3. ASSUME ~raced PROVE Alone'
  <2>1. Alone
    BY <1>3 DEF RaceInv
  <2>2. conn' = "closed" => \A u \in Thread : ~Past(u)'
    <3>1. CASE conn = "closed"
      BY <1>1, <2>1, <3>1 DEF Alone
    <3>2. CASE Past(t) /\ ~PastAt(pc'[t], stack'[t])
      BY <1>1, <2>1, <3>2 DEF Alone, Past
    <3> QED
      BY <3>1, <3>2
  <2> QED
    BY <1>1, <2>1, <2>2 DEF Alone
<1> QED
  BY <1>2, <1>3 DEF RaceInv

LEMMA AloneStands ==
  ASSUME RaceInv, Standing, UNCHANGED <<told, disorder, raced>>, conn' = "closed" => conn = "closed"
  PROVE  RaceInv'
BY DEF RaceInv, Alone, Standing, Past, Early

LEMMA MarkAlone ==
  ASSUME Control, RaceInv, NEW t \in Thread, PMark(t)
  PROVE  RaceInv'
<1>1. /\ Step(t) /\ pc'[t] = "pTake" /\ closed' = TRUE /\ raced' = (raced \/ closed)
      /\ UNCHANGED <<told, disorder, conn>>
  BY PMarkSteps DEF PMark, announced
<1>2. ASSUME ~raced' PROVE Alone'
  <2>1. Alone /\ ~closed /\ told = {}
    BY <1>1, <1>2 DEF RaceInv, Alone
  <2>2. \A u \in Thread : ~Past(u)
    BY <2>1 DEF Control, PastInv
  <2>3. \A u \in Thread \ {t} : ~Past(u)' /\ pc'[u] # "pTerminated"
    BY <1>1, <2>2, Onward, EarlyPast
  <2>4. conn # "closed"
    BY <2>1 DEF RaceInv
  <2> QED
    BY <1>1, <2>1, <2>3, <2>4 DEF Alone
<1> QED
  BY <1>1, <1>2 DEF RaceInv

LEMMA EventAlone ==
  ASSUME Control, RaceInv, NEW t \in Thread, NEW at, NEW event, NEW next,
         PEvent(t, at, event, next),
         <<at, event, next>> \in {<<"pExited", "exited", "pTerminated">>,
                                  <<"pTerminated", "terminated", "pAnswer">>}
  PROVE  RaceInv'
<1>1. /\ Step(t) /\ Past(t) /\ pc[t] = at /\ stack[t] \in Bases(t)
      /\ \/ /\ Sends /\ Announce(event) /\ UNCHANGED conn
            /\ pc'[t] = next /\ stack'[t] = stack[t]
         \/ /\ Fails /\ UNCHANGED announced
            /\ pc'[t] \in {"refuse", "done", "exiting", "over"}
  BY PEventSteps
<1>2. UNCHANGED <<raced, closed>>
  BY DEF PEvent, processor, history
<1>3. CASE Fails /\ UNCHANGED announced /\ pc'[t] \in {"refuse", "done", "exiting", "over"}
  <2>1. conn' = "closed" => conn = "closed"
    BY <1>3 DEF Fails
  <2> QED
    BY <1>1, <1>2, <1>3, <2>1, AloneKept DEF announced
<1>4. CASE Sends /\ Announce(event) /\ UNCHANGED conn /\ pc'[t] = next /\ stack'[t] = stack[t]
  <2>1. conn' # "closed"
    BY <1>4 DEF Sends
  <2>2. ASSUME ~raced PROVE Alone'
    <3>1. Alone
      BY <2>2 DEF RaceInv
    <3>2. \A u \in Thread \ {t} : ~Past(u)' /\ ~Early(u)' /\ pc'[u] # "pTerminated"
      BY <1>1, <3>1, Onward, EarlyPast DEF Alone
    <3>3. ~EarlyAt(next, stack[t])
      BY <1>1, BaseFacts DEF EarlyAt
    <3>4. told' = told \cup {event} /\ disorder' = (event \in told \/ (event = "terminated" /\ told = {}))
      BY <1>4, <3>1 DEF Announce, Alone
    <3>5. CASE at = "pExited" /\ event = "exited" /\ next = "pTerminated"
      <4>1. told = {}
        BY <1>1, <3>1, <3>5 DEF Alone, Early, EarlyAt
      <4>2. told' = {"exited"} /\ ~disorder'
        BY <3>4, <3>5, <4>1
      <4> QED
        BY <1>1, <1>2, <1>4, <2>1, <3>1, <3>2, <3>3, <4>2 DEF Alone, Early, Control, PastInv
    <3>6. CASE at = "pTerminated" /\ event = "terminated" /\ next = "pAnswer"
      <4>1. told = {"exited"}
        BY <1>1, <3>1, <3>6 DEF Alone
      <4>2. ~disorder'
        BY <3>4, <3>6, <4>1
      <4> QED
        BY <1>1, <1>2, <1>4, <2>1, <3>1, <3>2, <3>3, <3>6, <4>2 DEF Alone, Early, Control, PastInv
    <3> QED
      BY <3>5, <3>6
  <2> QED
    BY <1>2, <2>1, <2>2 DEF RaceInv
<1> QED
  BY <1>1, <1>3, <1>4

LEMMA NextRace ==
  ASSUME Control, RaceInv, [Next]_vars
  PROVE  RaceInv'
<1> USE DEF announced, history, processor
<1>1. CASE UNCHANGED vars
  BY <1>1, AloneStands DEF vars, Standing, control, socket
<1>2. ASSUME NEW t \in Thread, CloseStep(t) PROVE RaceInv'
  <2>1. CASE PTest(t)
    <3>1. Step(t) /\ pc'[t] \notin {"pTake", "pTerminated"}
      BY <2>1, PTestSteps DEF PTest, At
    <3> QED
      BY <2>1, <3>1, AloneKept DEF PTest
  <2>2. CASE PMark(t)
    BY <2>2, MarkAlone
  <2>3. CASE PTake(t)
    <3>1. Step(t) /\ pc'[t] \notin {"pTake", "pTerminated"}
      BY <2>3, PTakeSteps DEF PTake, At
    <3> QED
      BY <2>3, <3>1, AloneKept DEF PTake
  <2>4. CASE PEvent(t, "pExited", "exited", "pTerminated")
    BY <2>4, EventAlone
  <2>5. CASE PEvent(t, "pTerminated", "terminated", "pAnswer")
    BY <2>5, EventAlone
  <2>6. CASE PAnswer(t)
    <3>1. Step(t) /\ pc'[t] \notin {"pTake", "pTerminated"}
      BY <2>6, PAnswerSteps
    <3>2. UNCHANGED <<told, disorder>> /\ (conn' = "closed" => conn = "closed")
      BY <2>6 DEF PAnswer, SendThen, Answer, Fails
    <3>3. UNCHANGED <<raced, closed>>
      BY <2>6 DEF PAnswer
    <3> QED
      BY <3>1, <3>2, <3>3, AloneKept
  <2>7. CASE PStop(t)
    <3>1. Step(t) /\ pc'[t] \notin {"pTake", "pTerminated"}
      BY <2>7, PStopSteps
    <3> QED
      BY <2>7, <3>1, AloneKept DEF PStop
  <2>8. CASE PDown(t)
    <3>1. /\ Step(t) /\ pc'[t] \notin {"pTake", "pTerminated"}
          /\ Past(t) /\ ~PastAt(pc'[t], stack'[t])
      BY <2>8, PDownSteps
    <3> QED
      BY <2>8, <3>1, AloneKept DEF PDown
  <2>9. CASE STest(t) \/ SLock(t) \/ SDone(t)
    <3>1. Step(t) /\ pc'[t] \notin {"pTake", "pTerminated"}
      BY <2>9, STestSteps, SLockSteps, SDoneSteps
    <3>2. UNCHANGED <<told, disorder, raced, closed, conn>>
      BY <2>9 DEF STest, SLock, SDone
    <3> QED
      BY <3>1, <3>2, AloneKept
  <2> QED
    BY <1>2, <2>1, <2>2, <2>3, <2>4, <2>5, <2>6, <2>7, <2>8, <2>9 DEF CloseStep
<1>3. CASE Exit \/ Hangup \/ WriterClose
  <2>1. \E t \in Thread : Step(t) /\ pc'[t] \notin {"pTake", "pTerminated"}
    <3>1. "main" \in Thread /\ "writer" \in Thread
      BY DEF Thread
    <3> QED
      BY <1>3, <3>1, ExitSteps, HangupSteps, WriterCloseSteps
  <2>2. UNCHANGED <<told, disorder, raced, closed, conn>>
    BY <1>3 DEF Exit, Hangup, WriterClose
  <2> QED
    BY <2>1, <2>2, AloneKept
<1>4. CASE Handlers
  <2>1. "server" \in Thread /\ Step("server") /\ pc'["server"] \notin {"pTake", "pTerminated"}
    BY <1>4, HandlerSteps DEF Rest, Thread
  <2>2. UNCHANGED <<told, disorder, raced, closed>> /\ (conn' = "closed" => conn = "closed")
    BY <1>4 DEF Handlers, Read, ReadEnd, Refuse, OnUnknown, SetExit, OnConfigurationDone, OnPause,
                UsePydevd, Packet, Reply, OnDisconnect, OnDisconnectLaunch, Kill, SendThen, Answer,
                Fails
  <2> QED
    BY <2>1, <2>2, AloneKept
<1>5. CASE KillTest
  <2>1. "server" \in Thread /\ Step("server") /\ pc'["server"] = "pTest"
    BY <1>5, KillTestSteps DEF Thread
  <2> QED
    BY <1>5, <2>1, AloneKept DEF KillTest
<1>6. CASE EndOfProcess
  BY <1>6, AloneStands DEF EndOfProcess, Standing, control, socket
<1>7. ASSUME NEW k \in Requests, ClientRequest(k) PROVE RaceInv'
  BY <1>7, AloneStands DEF ClientRequest, Standing, control, socket
<1>8. CASE ClientLeaves
  <2>1. conn' # "closed"
    BY <1>8, LeavesAssumption DEF ClientLeaves
  <2> QED
    BY <1>8, <2>1, AloneStands DEF ClientLeaves, Standing, control, socket
<1> QED
  BY <1>1, <1>2, <1>3, <1>4, <1>5, <1>6, <1>7, <1>8 DEF Next, ServerStep, Handlers

\* However many threads close, each of the two events is announced once and in order, as
\* long as two of them have not been past the unlocked test of _closed at the same time.
THEOREM SessionEndAnnouncedOnce == Spec => []AnnouncedOnce
<1>1. Init => StateInv /\ RaceInv
  <2> SUFFICES ASSUME Init PROVE RaceInv
    BY InitControl DEF StateInv
  <2>1. \A t \in Thread : ~Past(t) /\ ~Early(t) /\ pc[t] # "pTerminated"
    BY NothingIn DEF Init, Past, PastAt, Early, EarlyAt
  <2> QED
    BY <2>1 DEF Init, RaceInv, Alone
<1>2. StateInv /\ RaceInv /\ [Next]_vars => StateInv' /\ RaceInv'
  BY NextState, NextRace DEF StateInv
<1>3. RaceInv => AnnouncedOnce
  BY DEF RaceInv, Alone, AnnouncedOnce
<1> QED
  BY <1>1, <1>2, <1>3, PTL DEF Spec

-----------------------------------------------------------------------------
\* What lasts.
Lasting ==
  /\ told \subseteq told' /\ (waited => waited') /\ (overtaken => overtaken')
  /\ answers["disconnect"] # 0 => answers'["disconnect"] # 0
  /\ conn = "closed" => conn' = "closed"

LEMMA AnswerLasts ==
  ASSUME DataInv, NEW k, Answer(k)
  PROVE  /\ answers["disconnect"] # 0 => answers'["disconnect"] # 0
         /\ k = "disconnect" => answers'["disconnect"] # 0
         /\ UNCHANGED <<told, disorder>>
<1>1. answers["disconnect"] \in 0..2 /\ "disconnect" \in DOMAIN answers
  BY DEF DataInv, Kind
<1>2. answers' = [answers EXCEPT ![k] = IF answers[k] < 2 THEN answers[k] + 1 ELSE answers[k]]
  BY DEF Answer
<1> QED
  BY <1>1, <1>2 DEF Answer, announced

LEMMA SendLasts ==
  ASSUME DataInv,
         \/ \E k : Answer(k) /\ UNCHANGED <<conn, waited, overtaken>>
         \/ Fails /\ UNCHANGED <<answers, told, waited, overtaken>>
         \/ UNCHANGED <<conn, answers, told, waited, overtaken>>
  PROVE  Lasting /\ UNCHANGED told /\ (conn' = "closed" => conn = "closed")
<1>1. CASE \E k : Answer(k) /\ UNCHANGED <<conn, waited, overtaken>>
  BY <1>1, AnswerLasts DEF Lasting
<1>2. CASE Fails /\ UNCHANGED <<answers, told, waited, overtaken>>
  BY <1>2 DEF Lasting, Fails
<1> QED
  BY <1>1, <1>2 DEF Lasting

-----------------------------------------------------------------------------
\* The disconnect and the wait of close for it.  Before a close has ended its wait nobody
\* is past that wait and the connection is open; a disconnect that was stored before and
\* is not answered yet is still there, with the connection; the handler of a disconnect
\* that ends the process has stored it in time; and when it does end the process, the
\* close it called has been run in full, unless it was overtaken.
Full == {"exited", "terminated"}
Unanswered == answers["disconnect"] = 0
InKill == pc["server"] = "dKill" \/ In(stack["server"], "dKill")
SeenThrough == told = Full /\ conn = "closed" /\ ~Unanswered

WaitInv ==
  /\ ~waited => conn # "closed" /\ \A t \in Thread : ~Late(t)
  /\ waited => closed
EventInv == \A t \in Thread : /\ pc[t] = "pTerminated" => "exited" \in told
                              /\ pc[t] = "pAnswer" \/ Late(t) => told = Full
StoredInv ==
  stored = "inTime" /\ Unanswered => pending /\ conn # "closed" /\ \A t \in Thread : ~Late(t)
KillInv ==
  /\ pc["server"] = "dTest" => stored = "inTime" \/ closed
  /\ InKill /\ kill => stored = "inTime"
  /\ pc["server"] = "dKill" /\ kill /\ ~overtaken => SeenThrough
  /\ process = "killed" /\ ~overtaken => SeenThrough
HonourInv == WaitInv /\ EventInv /\ StoredInv /\ KillInv

\* A step of thread t that neither ends a wait nor comes after one, does not touch the
\* disconnect, and leaves the handler of the disconnect alone.
KillQuiet(t) ==
  /\ t \in Thread /\ Step(t) /\ Lasting
  /\ UNCHANGED <<stored, kill, process>>
  /\ pc'[t] # "dTest" /\ pc[t] # "dTest"
  /\ pc'[t] = "dKill" /\ kill => overtaken'
WaitQuiet(t) ==
  /\ UNCHANGED <<waited, pending>>
  /\ conn' = "closed" => conn = "closed"
  /\ pc'[t] \notin {"pStop", "pDown"}
Quiet(t) == KillQuiet(t) /\ WaitQuiet(t) /\ pc'[t] \notin {"pTerminated", "pAnswer"}

LEMMA SeenThroughLasts == ASSUME DataInv, DataInv', Lasting, SeenThrough PROVE SeenThrough'
BY DEF DataInv, Lasting, SeenThrough, Full, Unanswered

LEMMA StackDelta ==
  ASSUME Control, NEW t \in Thread, Step(t)
  PROVE  /\ In(stack'["server"], "dKill") => In(stack["server"], "dKill") \/ (t = "server" /\ pc[t] = "dTest")
         /\ pc'["server"] = "dKill" => In(stack["server"], "dKill") \/ (t # "server" /\ pc["server"] = "dKill")
<1>1. "server" \in Thread
  BY DEF Thread
<1>2. \A u \in Thread \ {t} : pc'[u] = pc[u] /\ stack'[u] = stack[u]
  BY Onward
<1> QED
  BY <1>1, <1>2 DEF Step, Steps

LEMMA KillKept ==
  ASSUME StateInv, DataInv', HonourInv, NEW t, KillQuiet(t)
  PROVE  KillInv'
<1>1. /\ t \in Thread /\ Step(t) /\ Control
      /\ \A u \in Thread \ {t} : pc'[u] = pc[u] /\ stack'[u] = stack[u]
      /\ closed => closed'
  BY Onward DEF KillQuiet, StateInv
<1>2. "server" \in Thread
  BY DEF Thread
<1>3. pc'["server"] = "dTest" => pc["server"] = "dTest"
  BY <1>1, <1>2 DEF KillQuiet
<1>4. InKill' => InKill
  BY <1>1, StackDelta DEF KillQuiet, InKill
<1>5. pc'["server"] = "dKill" /\ kill /\ ~overtaken' => pc["server"] = "dKill"
  BY <1>1, <1>2 DEF KillQuiet
<1>6. ~overtaken' => ~overtaken
  BY DEF KillQuiet, Lasting
<1>7. SeenThrough => SeenThrough'
  BY SeenThroughLasts DEF KillQuiet, StateInv
<1> QED
  BY <1>1, <1>3, <1>4, <1>5, <1>6, <1>7 DEF KillQuiet, HonourInv, KillInv

LEMMA WaitKept ==
  ASSUME StateInv, HonourInv, NEW t \in Thread, Step(t), Lasting, stored' = stored, WaitQuiet(t)
  PROVE  /\ WaitInv' /\ StoredInv'
         /\ \A u \in Thread : Late(u)' => Late(u)
<1>1. /\ \A u \in Thread \ {t} : pc'[u] = pc[u]
      /\ closed => closed'
  BY Onward DEF StateInv
<1>2. \A u \in Thread : Late(u)' => Late(u)
  BY <1>1 DEF WaitQuiet, Late
<1>3. WaitInv'
  BY <1>1, <1>2 DEF WaitQuiet, HonourInv, WaitInv
<1>4. Unanswered' => Unanswered
  BY DEF Lasting, Unanswered
<1>5. StoredInv'
  BY <1>2, <1>4 DEF WaitQuiet, HonourInv, StoredInv
<1> QED
  BY <1>2, <1>3, <1>5

LEMMA EventKept ==
  ASSUME StateInv, DataInv', HonourInv, NEW t \in Thread, Step(t), Lasting,
         pc'[t] \notin {"pTerminated", "pAnswer", "pStop", "pDown"}
  PROVE  EventInv'
<1>1. \A u \in Thread \ {t} : pc'[u] = pc[u]
  BY Onward DEF StateInv
<1>2. told' \subseteq Full /\ told \subseteq told'
  BY DEF Lasting, DataInv, Full
<1> QED
  BY <1>1, <1>2 DEF HonourInv, EventInv, Late

LEMMA QuietKept ==
  ASSUME StateInv, DataInv', HonourInv, NEW t, Quiet(t)
  PROVE  HonourInv'
BY WaitKept, EventKept, KillKept DEF Quiet, KillQuiet, WaitQuiet, HonourInv

LEMMA HonourStands ==
  ASSUME StateInv, StateInv', HonourInv, Standing, Lasting, UNCHANGED <<stored, waited, kill, pending>>,
         conn' = "closed" => conn = "closed", process' = "killed" => process = "killed"
  PROVE  HonourInv'
<1>1. told' \subseteq Full /\ told \subseteq told' /\ (Unanswered' => Unanswered)
  BY DEF Lasting, StateInv, DataInv, Full, Unanswered
<1>2. \A u \in Thread : Late(u)' <=> Late(u)
  BY DEF Standing, Late
<1>3. WaitInv' /\ EventInv' /\ StoredInv'
  BY <1>1, <1>2 DEF HonourInv, WaitInv, EventInv, StoredInv, Standing
<1>4. (InKill' => InKill) /\ (~overtaken' => ~overtaken) /\ (SeenThrough => SeenThrough')
  BY SeenThroughLasts DEF Standing, InKill, Lasting, StateInv
<1>5. KillInv'
  BY <1>4 DEF HonourInv, KillInv, Standing
<1> QED
  BY <1>3, <1>5 DEF HonourInv

LEMMA EventHonour ==
  ASSUME StateInv, DataInv', HonourInv, NEW t \in Thread, NEW at, NEW event, NEW next,
         PEvent(t, at, event, next),
         <<at, event, next>> \in {<<"pExited", "exited", "pTerminated">>,
                                  <<"pTerminated", "terminated", "pAnswer">>}
  PROVE  HonourInv'
<1>1. /\ Step(t) /\ pc[t] = at
      /\ \/ /\ Sends /\ Announce(event) /\ UNCHANGED <<answers, conn>>
            /\ pc'[t] = next
         \/ /\ Fails /\ UNCHANGED <<answers, announced>>
            /\ pc'[t] \in {"refuse", "done", "exiting", "over"}
  BY PEventSteps DEF StateInv
<1>2. UNCHANGED <<stored, waited, kill, pending, process, overtaken>>
  BY DEF PEvent, processor, history
<1>3. CASE Fails /\ UNCHANGED <<answers, announced>> /\ pc'[t] \in {"refuse", "done", "exiting", "over"}
  <2>1. Lasting /\ (conn' = "closed" => conn = "closed")
    BY <1>2, <1>3 DEF Lasting, Fails, announced
  <2>2. Quiet(t)
    BY <1>1, <1>2, <1>3, <2>1 DEF Quiet, KillQuiet, WaitQuiet
  <2> QED
    BY <2>2, QuietKept
<1>4. CASE Announce(event) /\ UNCHANGED <<answers, conn>> /\ pc'[t] = next
  <2>1. told' = told \cup {event}
    BY <1>4 DEF Announce
  <2>2. KillQuiet(t) /\ WaitQuiet(t)
    BY <1>1, <1>2, <1>4, <2>1 DEF KillQuiet, WaitQuiet, Lasting
  <2>3. /\ WaitInv' /\ StoredInv' /\ KillInv'
        /\ \A u \in Thread : Late(u)' => Late(u)
    BY <2>2, WaitKept, KillKept DEF KillQuiet
  <2>4. \A u \in Thread \ {t} : pc'[u] = pc[u]
    BY <1>1, Onward DEF StateInv
  <2>5. told' \subseteq Full
    BY DEF DataInv, Full
  <2>6. at = "pTerminated" => told' = Full
    BY <1>1, <2>1, <2>5 DEF HonourInv, EventInv, Full
  <2>7. EventInv'
    BY <1>4, <2>1, <2>3, <2>4, <2>5, <2>6 DEF HonourInv, EventInv, Full
  <2> QED
    BY <2>3, <2>7 DEF HonourInv
<1> QED
  BY <1>1, <1>3, <1>4

LEMMA AnswerHonour ==
  ASSUME StateInv, DataInv', HonourInv, NEW t \in Thread, PAnswer(t)
  PROVE  HonourInv'
<1>1. /\ Step(t) /\ Past(t) /\ pc[t] = "pAnswer"
      /\ \/ /\ pending /\ Answer("disconnect") /\ UNCHANGED conn
            /\ pc'[t] = "pStop"
         \/ /\ ~pending /\ UNCHANGED <<conn, answers, announced>>
            /\ pc'[t] = "pStop"
         \/ /\ Fails /\ UNCHANGED <<answers, announced>>
            /\ pc'[t] \in {"refuse", "done", "exiting", "over"}
  BY PAnswerSteps DEF StateInv
<1>2. /\ UNCHANGED <<stored, kill, process, pending, overtaken>> /\ waited' = TRUE
      /\ closed' = closed
  BY DEF PAnswer, processor
<1>3. \A u \in Thread \ {t} : pc'[u] = pc[u]
  BY <1>1, Onward DEF StateInv
<1>4. Lasting /\ told' = told /\ (conn' = "closed" => conn = "closed")
      /\ (pending /\ pc'[t] = "pStop" => ~Unanswered')
  BY <1>1, <1>2, AnswerLasts DEF Lasting, StateInv, announced, Fails, Unanswered
<1>5. KillQuiet(t)
  BY <1>1, <1>2, <1>4 DEF KillQuiet
<1>6. WaitInv'
  BY <1>1, <1>2 DEF WaitInv, StateInv, Control, PastInv
<1>7. EventInv'
  BY <1>1, <1>3, <1>4 DEF HonourInv, EventInv, Late
<1>8. StoredInv'
  <2>1. Unanswered' => Unanswered
    BY <1>4 DEF Lasting, Unanswered
  <2>2. ASSUME stored = "inTime", Unanswered' PROVE pending /\ pc'[t] # "pStop"
    BY <1>4, <2>1, <2>2 DEF HonourInv, StoredInv
  <2> QED
    BY <1>1, <1>2, <1>3, <1>4, <2>1, <2>2 DEF HonourInv, StoredInv, Late
<1> QED
  BY <1>5, <1>6, <1>7, <1>8, KillKept DEF HonourInv

\* Behind the wait an answer is owed to nobody who was in time.
LEMMA LateFacts ==
  ASSUME HonourInv, NEW t \in Thread, Late(t)
  PROVE  waited /\ told = Full /\ ~(stored = "inTime" /\ Unanswered)
BY DEF HonourInv, WaitInv, EventInv, StoredInv

LEMMA StopHonour ==
  ASSUME StateInv, DataInv', HonourInv, NEW t \in Thread, PStop(t)
  PROVE  HonourInv'
<1>1. Step(t) /\ Past(t) /\ pc[t] = "pStop" /\ pc'[t] = "pDown"
  BY PStopSteps DEF StateInv
<1>2. UNCHANGED <<stored, kill, process, waited, overtaken, closed, conn, answers, told>>
  BY DEF PStop, history, announced
<1>3. \A u \in Thread \ {t} : pc'[u] = pc[u]
  BY <1>1, Onward DEF StateInv
<1>4. waited /\ told = Full /\ ~(stored = "inTime" /\ Unanswered)
  BY <1>1, LateFacts DEF Late
<1>5. WaitInv'
  BY <1>2, <1>4 DEF HonourInv, WaitInv
<1>6. EventInv'
  BY <1>1, <1>2, <1>3, <1>4 DEF HonourInv, EventInv, Late, Full
<1>7. StoredInv'
  BY <1>2, <1>4 DEF StoredInv, Unanswered
<1>8. KillQuiet(t)
  BY <1>1, <1>2 DEF KillQuiet, Lasting
<1> QED
  BY <1>5, <1>6, <1>7, <1>8, KillKept DEF HonourInv

LEMMA DownHonour ==
  ASSUME StateInv, DataInv', HonourInv, NEW t \in Thread, PDown(t)
  PROVE  HonourInv'
<1>1. /\ Step(t) /\ pc[t] = "pDown" /\ stack[t] \in Bases(t)
      /\ \/ /\ conn' = "closed"
            /\ pc'[t] \in {"join", "exiting", "over", "dKill", "sDone"}
         \/ /\ conn' = (IF conn = "reset" THEN "eof" ELSE conn)
            /\ pc'[t] \in {"refuse", "done", "exiting", "over"}
  BY PDownSteps DEF StateInv
<1>2. UNCHANGED <<stored, kill, process, waited, pending, overtaken, closed, answers, told>>
  BY DEF PDown, history, announced, processor
<1>3. \A u \in Thread \ {t} : pc'[u] = pc[u] /\ stack'[u] = stack[u]
  BY <1>1, Onward DEF StateInv
<1>4. waited /\ told = Full /\ ~(stored = "inTime" /\ Unanswered)
  BY <1>1, LateFacts DEF Late
<1>5. WaitInv'
  BY <1>2, <1>4 DEF HonourInv, WaitInv
<1>6. EventInv'
  BY <1>1, <1>2, <1>3, <1>4 DEF HonourInv, EventInv, Late, Full
<1>7. StoredInv'
  BY <1>2, <1>4 DEF StoredInv, Unanswered
<1>8. Lasting
  BY <1>1, <1>2 DEF Lasting
<1>9. ASSUME pc'[t] = "dKill" PROVE KillInv'
  <2>1. conn' = "closed" /\ t = "server"
    <3>1. "dKill" \in Rest("server")
      BY DEF Rest
    <3>2. Shaped(t, "dKill", stack'[t])
      BY <1>1, <1>9 DEF Step, Steps
    <3> QED
      BY <1>1, <1>9, <3>2 DEF Shaped, Rest, PLabel, SLabel
  <2>2. InKill
    BY <1>1, <2>1, BaseFacts DEF InKill
  <2>3. kill => SeenThrough'
    BY <1>2, <1>4, <2>1, <2>2 DEF HonourInv, KillInv, SeenThrough, Unanswered
  <2>4. SeenThrough => SeenThrough'
    BY <1>8, SeenThroughLasts DEF StateInv
  <2> QED
    BY <1>2, <1>9, <2>1, <2>2, <2>3, <2>4 DEF HonourInv, KillInv, InKill
<1>10. ASSUME pc'[t] # "dKill" PROVE KillInv'
  <2>1. KillQuiet(t)
    BY <1>1, <1>2, <1>8, <1>10 DEF KillQuiet
  <2> QED
    BY <2>1, KillKept
<1> QED
  BY <1>5, <1>6, <1>7, <1>9, <1>10 DEF HonourInv

\* The handler of a disconnect in the launch case.
LEMMA StoreHonour ==
  ASSUME StateInv, DataInv', HonourInv, OnDisconnectLaunch
  PROVE  HonourInv'
<1> DEFINE t == "server"
<1>1. /\ pc[t] = "handle" /\ pending' = TRUE
      /\ stored' = (IF waited THEN "late" ELSE "inTime")
      /\ Goto(t, "dTest")
      /\ UNCHANGED <<closed, conn, kill, process, waited, overtaken, told, answers>>
  BY DEF OnDisconnectLaunch, Handle, At, announced
<1>2. Step(t) /\ stack'[t] = <<>> /\ t \in Thread
  BY HandlerSteps DEF StateInv, Handlers, Thread
<1>3. \A u \in Thread \ {t} : pc'[u] = pc[u]
  BY <1>2, Onward DEF StateInv
<1>4. pc'[t] = "dTest"
  BY <1>1, <1>2 DEF Goto, StateInv, Control, StackInv
<1>5. Lasting
  BY <1>1 DEF Lasting
<1>6. \A u \in Thread : Late(u)' <=> Late(u)
  BY <1>1, <1>3, <1>4 DEF Late
<1>7. WaitInv'
  BY <1>1, <1>6 DEF HonourInv, WaitInv
<1>8. EventInv'
  BY <1>2, <1>4, <1>5, EventKept
<1>9. StoredInv'
  BY <1>1, <1>6 DEF HonourInv, WaitInv, StoredInv
<1>10. KillInv'
  <2>1. ~InKill'
    BY <1>2, <1>4, NothingIn DEF InKill
  <2>2. SeenThrough' <=> SeenThrough
    BY <1>1 DEF SeenThrough, Unanswered
  <2>3. stored' = "inTime" \/ closed'
    BY <1>1 DEF HonourInv, WaitInv
  <2> QED
    BY <1>1, <1>4, <2>1, <2>2, <2>3 DEF HonourInv, KillInv, InKill
<1> QED
  BY <1>7, <1>8, <1>9, <1>10 DEF HonourInv

LEMMA KillTestHonour ==
  ASSUME StateInv, DataInv', HonourInv, KillTest
  PROVE  HonourInv'
<1> DEFINE t == "server"
<1>1. /\ kill' = ~closed
      /\ UNCHANGED <<closed, conn, stored, pending, process, waited, overtaken, told, answers>>
  BY DEF KillTest, announced, history, processor
<1>2. Step(t) /\ t \in Thread /\ pc[t] = "dTest" /\ pc'[t] = "pTest"
  BY KillTestSteps DEF StateInv, Thread
<1>3. Lasting /\ WaitQuiet(t)
  BY <1>1, <1>2 DEF Lasting, WaitQuiet
<1>4. WaitInv' /\ StoredInv'
  BY <1>1, <1>2, <1>3, WaitKept
<1>5. EventInv'
  BY <1>2, <1>3, EventKept
<1>6. KillInv'
  <2>1. SeenThrough' <=> SeenThrough
    BY <1>1 DEF SeenThrough, Unanswered
  <2>2. kill' => stored' = "inTime"
    BY <1>1, <1>2 DEF HonourInv, KillInv
  <2> QED
    BY <1>1, <1>2, <2>1, <2>2 DEF HonourInv, KillInv
<1> QED
  BY <1>4, <1>5, <1>6 DEF HonourInv

LEMMA KillHonour ==
  ASSUME StateInv, DataInv', HonourInv, Kill
  PROVE  HonourInv'
<1> DEFINE t == "server"
<1>1. /\ pc[t] = "dKill" /\ process' = (IF kill THEN "killed" ELSE process) /\ kill' = FALSE
      /\ Goto(t, After)
      /\ UNCHANGED <<closed, conn, stored, pending, waited, overtaken, told, answers>>
  BY DEF Kill, At, announced, history, processor
<1>2. Step(t) /\ t \in Thread /\ stack'[t] = <<>>
  BY HandlerSteps DEF StateInv, Handlers, Thread
<1>3. pc'[t] \in {"read", "ended"}
  BY <1>1, <1>2 DEF Goto, After, StateInv, Control, StackInv
<1>4. Lasting /\ WaitQuiet(t)
  BY <1>1, <1>3 DEF Lasting, WaitQuiet
<1>5. WaitInv' /\ StoredInv'
  BY <1>1, <1>2, <1>4, WaitKept
<1>6. EventInv'
  BY <1>2, <1>3, <1>4, EventKept
<1>7. KillInv'
  <2>1. SeenThrough' <=> SeenThrough
    BY <1>1 DEF SeenThrough, Unanswered
  <2>2. ~InKill'
    BY <1>2, <1>3, NothingIn DEF InKill
  <2> QED
    BY <1>1, <1>3, <2>1, <2>2 DEF HonourInv, KillInv, InKill
<1> QED
  BY <1>5, <1>6, <1>7 DEF HonourInv

\* The handlers that have nothing to do with it.
Others ==
  \/ Read \/ ReadEnd \/ Refuse \/ OnUnknown \/ SetExit \/ OnConfigurationDone \/ OnPause
  \/ UsePydevd \/ Packet \/ Reply \/ OnDisconnect

LEMMA OthersHonour ==
  ASSUME StateInv, DataInv', HonourInv, Others
  PROVE  HonourInv'
<1> DEFINE t == "server"
<1>1. /\ Step(t) /\ t \in Thread
      /\ pc'[t] \in {"read", "handle", "refuse", "unknown", "pydevd", "packet", "reply", "dTest", "ended"}
  BY HandlerSteps DEF StateInv, Handlers, Others, Thread, Rest
<1>2. pc'[t] # "dTest" /\ pc[t] # "dTest"
  <2>1. pc \in [Thread -> Label] /\ t \in Thread
    BY <1>1 DEF StateInv, Control, StackInv
  <2> QED
    BY <2>1 DEF Others, Read, ReadEnd, Refuse, OnUnknown, SetExit, OnConfigurationDone, OnPause,
             UsePydevd, Packet, Reply, OnDisconnect, Handle, At, Goto, SendThen, After, Raise, Handler
<1>3. UNCHANGED <<stored, waited, kill, pending, process, overtaken, told>>
  BY DEF Others, Read, ReadEnd, Refuse, OnUnknown, SetExit, OnConfigurationDone, OnPause,
         UsePydevd, Packet, Reply, OnDisconnect, SendThen, Answer, history, processor, announced
<1>4. Lasting /\ (conn' = "closed" => conn = "closed")
  <2>1. CASE Read \/ SetExit \/ OnPause \/ UsePydevd \/ Packet
    <3>1. UNCHANGED <<conn, answers>>
      BY <2>1 DEF Read, SetExit, OnPause, UsePydevd, Packet
    <3> QED
      BY <1>3, <3>1 DEF Lasting
  <2>2. CASE ReadEnd
    <3>1. answers' = answers /\ conn' = (IF conn = "reset" THEN "eof" ELSE conn)
      BY <2>2 DEF ReadEnd
    <3> QED
      BY <1>3, <3>1 DEF Lasting
  <2>3. CASE Refuse
    BY <1>3, <2>3, SendLasts DEF Refuse, StateInv, announced
  <2>4. CASE OnUnknown
    BY <1>3, <2>4, SendLasts DEF OnUnknown, SendThen, StateInv, announced
  <2>5. CASE OnConfigurationDone
    BY <1>3, <2>5, SendLasts DEF OnConfigurationDone, SendThen, StateInv, announced
  <2>6. CASE Reply
    BY <1>3, <2>6, SendLasts DEF Reply, SendThen, StateInv, announced
  <2>7. CASE OnDisconnect
    BY <1>3, <2>7, SendLasts DEF OnDisconnect, SendThen, StateInv, announced
  <2> QED
    BY <2>1, <2>2, <2>3, <2>4, <2>5, <2>6, <2>7 DEF Others
<1>5. Quiet(t)
  BY <1>1, <1>2, <1>3, <1>4 DEF Quiet, KillQuiet, WaitQuiet
<1> QED
  BY <1>5, QuietKept

LEMMA CloseHonour ==
  ASSUME StateInv, DataInv', HonourInv, NEW t \in Thread, CloseStep(t)
  PROVE  HonourInv'
<1>1. CASE PTest(t)
  <2>1. /\ Step(t) /\ pc[t] = "pTest"
        /\ \/ closed /\ pc'[t] = Head(stack[t])
              /\ pc'[t] \in {"join", "exiting", "over", "dKill", "sDone"}
           \/ pc'[t] = "pMark"
    BY <1>1, PTestSteps DEF StateInv, PTest, At
  <2>2. /\ overtaken' = (overtaken \/ (Head(stack[t]) = "dKill" /\ kill /\ closed))
        /\ UNCHANGED <<stored, waited, kill, pending, process, told, answers, conn>>
    BY <1>1 DEF PTest, processor, announced
  <2>3. Quiet(t)
    BY <2>1, <2>2 DEF Quiet, KillQuiet, WaitQuiet, Lasting
  <2> QED
    BY <2>3, QuietKept
<1>2. CASE PMark(t)
  <2>1. Step(t) /\ pc[t] = "pMark" /\ pc'[t] = "pTake"
    BY <1>2, PMarkSteps DEF StateInv
  <2>2. UNCHANGED <<stored, waited, kill, pending, process, overtaken, told, answers, conn>>
    BY <1>2 DEF PMark, announced
  <2>3. Quiet(t)
    BY <2>1, <2>2 DEF Quiet, KillQuiet, WaitQuiet, Lasting
  <2> QED
    BY <2>3, QuietKept
<1>3. CASE PTake(t)
  <2>1. Step(t) /\ pc[t] = "pTake" /\ pc'[t] \in {"sTest", "refuse", "done", "exiting", "over"}
    BY <1>3, PTakeSteps DEF StateInv, PTake, At
  <2>2. UNCHANGED <<stored, waited, kill, pending, process, overtaken, told, answers, conn>>
    BY <1>3 DEF PTake, announced, history
  <2>3. Quiet(t)
    BY <2>1, <2>2 DEF Quiet, KillQuiet, WaitQuiet, Lasting
  <2> QED
    BY <2>3, QuietKept
<1>4. CASE PEvent(t, "pExited", "exited", "pTerminated")
  BY <1>4, EventHonour
<1>5. CASE PEvent(t, "pTerminated", "terminated", "pAnswer")
  BY <1>5, EventHonour
<1>6. CASE PAnswer(t)
  BY <1>6, AnswerHonour
<1>7. CASE PStop(t)
  BY <1>7, StopHonour
<1>8. CASE PDown(t)
  BY <1>8, DownHonour
<1>9. CASE STest(t) \/ SLock(t) \/ SDone(t)
  <2>1. /\ Step(t) /\ pc[t] \in {"sTest", "sLock", "sDone"}
        /\ pc'[t] \in {"pExited", "done", "sLock", "pTest", "sDone"}
    BY <1>9, STestSteps, SLockSteps, SDoneSteps DEF StateInv
  <2>2. UNCHANGED <<stored, waited, kill, pending, process, overtaken, told, answers, conn>>
    BY <1>9 DEF STest, SLock, SDone, announced, history, processor
  <2>3. Quiet(t)
    BY <2>1, <2>2 DEF Quiet, KillQuiet, WaitQuiet, Lasting
  <2> QED
    BY <2>3, QuietKept
<1> QED
  BY <1>1, <1>2, <1>3, <1>4, <1>5, <1>6, <1>7, <1>8, <1>9 DEF CloseStep

LEMMA NextHonour ==
  ASSUME StateInv, StateInv', HonourInv, [Next]_vars
  PROVE  HonourInv'
<1> USE DEF announced, history, processor
<1>1. DataInv'
  BY DEF StateInv
<1>2. CASE UNCHANGED vars
  <2>1. /\ Standing
        /\ UNCHANGED <<stored, waited, kill, pending, process, overtaken, told, answers, conn>>
    BY <1>2 DEF vars, Standing, control, socket
  <2> QED
    BY <2>1, HonourStands DEF Lasting
<1>3. CASE \E t \in Thread : CloseStep(t)
  BY <1>1, <1>3, CloseHonour
<1>4. CASE Exit \/ Hangup \/ WriterClose
  <2>1. PICK t \in Thread : Step(t) /\ pc'[t] \in {"pTest", "sTest"} /\ pc[t] # "dTest"
    <3>1. "main" \in Thread /\ "writer" \in Thread
      BY DEF Thread
    <3>2. pc["main"] # "dTest"
      <4>1. Shaped("main", pc["main"], stack["main"])
        BY <3>1 DEF StateInv, Control, StackInv
      <4> QED
        BY <4>1 DEF Shaped, Rest, PLabel, SLabel
    <3>3. WriterClose => pc["writer"] = "run"
      BY DEF WriterClose, At
    <3> QED
      BY <1>4, <3>1, <3>2, <3>3, ExitSteps, HangupSteps, WriterCloseSteps DEF StateInv
  <2>2. UNCHANGED <<stored, waited, kill, pending, process, overtaken, told, answers, conn>>
    BY <1>4 DEF Exit, Hangup, WriterClose
  <2>3. Quiet(t)
    BY <2>1, <2>2 DEF Quiet, KillQuiet, WaitQuiet, Lasting
  <2> QED
    BY <1>1, <2>3, QuietKept
<1>5. CASE Others
  BY <1>1, <1>5, OthersHonour
<1>6. CASE OnDisconnectLaunch
  BY <1>1, <1>6, StoreHonour
<1>7. CASE KillTest
  BY <1>1, <1>7, KillTestHonour
<1>8. CASE Kill
  BY <1>1, <1>8, KillHonour
<1>9. CASE EndOfProcess
  <2>1. /\ Standing /\ process' = "exited"
        /\ UNCHANGED <<stored, waited, kill, pending, overtaken, told, answers, conn>>
    BY <1>9 DEF EndOfProcess, Standing, control, socket
  <2> QED
    BY <2>1, HonourStands DEF Lasting
<1>10. ASSUME NEW k \in Requests, ClientRequest(k) PROVE HonourInv'
  <2>1. /\ Standing
        /\ UNCHANGED <<stored, waited, kill, pending, process, overtaken, told, answers, conn>>
    BY <1>10 DEF ClientRequest, Standing, control, socket
  <2> QED
    BY <2>1, HonourStands DEF Lasting
<1>11. CASE ClientLeaves
  <2>1. /\ Standing /\ conn' # "closed" /\ conn # "closed"
        /\ UNCHANGED <<stored, waited, kill, pending, process, overtaken, told, answers>>
    BY <1>11, LeavesAssumption DEF ClientLeaves, Standing, control, socket
  <2> QED
    BY <2>1, HonourStands DEF Lasting
<1> QED
  BY <1>2, <1>3, <1>4, <1>5, <1>6, <1>7, <1>8, <1>9, <1>10, <1>11 DEF Next, ServerStep, Others

\* A disconnect that was stored before the wait of close had ended is answered before the
\* connection is closed, races or not; and when it ends the process the client has had both
\* events and its answer and the connection has been closed, unless another close began
\* between the handler's look at _closed and its own close.
THEOREM DisconnectIsHonoured == Spec => []DisconnectHonoured
<1>1. Init => StateInv /\ HonourInv
  <2> SUFFICES ASSUME Init PROVE HonourInv
    BY InitControl DEF StateInv
  <2>1. \A t \in Thread : ~Late(t) /\ pc[t] \in {"run", "read"}
    BY DEF Init, Late
  <2>2. "server" \in Thread /\ ~InKill
    BY NothingIn DEF Init, InKill, Thread
  <2> QED
    BY <2>1, <2>2 DEF Init, HonourInv, WaitInv, EventInv, StoredInv, KillInv
<1>2. StateInv /\ HonourInv /\ [Next]_vars => StateInv' /\ HonourInv'
  BY NextState, NextHonour
<1>3. StateInv /\ HonourInv => DisconnectHonoured
  <2> SUFFICES ASSUME StateInv, HonourInv PROVE DisconnectHonoured
    OBVIOUS
  <2>1. answers["disconnect"] \in Nat
    BY DEF StateInv, DataInv, Kind
  <2> QED
    BY <2>1 DEF HonourInv, StoredInv, KillInv, SeenThrough, Unanswered, Full, DisconnectHonoured
<1> QED
  BY <1>1, <1>2, <1>3, PTL DEF Spec

-----------------------------------------------------------------------------
\* Queues without repetitions.
Distinct(q) == \A i, j \in DOMAIN q : q[i] = q[j] => i = j

LEMMA DistinctAppend ==
  ASSUME NEW S, NEW q \in Seq(S), NEW e \in S, Distinct(q), ~In(q, e)
  PROVE  /\ Distinct(Append(q, e))
         /\ \A y : In(Append(q, e), y) <=> In(q, y) \/ y = e
<1>1. /\ DOMAIN Append(q, e) = DOMAIN q \cup {Len(q) + 1}
      /\ \A i \in DOMAIN q : i < Len(q) + 1 /\ Append(q, e)[i] = q[i]
      /\ Append(q, e)[Len(q) + 1] = e
  BY AppendPositions
<1>2. Distinct(Append(q, e))
  BY <1>1 DEF Distinct, In
<1>3. \A y : In(Append(q, e), y) <=> In(q, y) \/ y = e
  BY <1>1 DEF In
<1> QED
  BY <1>2, <1>3

LEMMA DistinctTail ==
  ASSUME NEW S, NEW q \in Seq(S), q # <<>>, Distinct(q)
  PROVE  /\ Distinct(Tail(q)) /\ In(q, Head(q)) /\ ~In(Tail(q), Head(q))
         /\ \A y : In(Tail(q), y) => In(q, y)
<1>1. /\ 1 \in DOMAIN q /\ q[1] = Head(q)
      /\ \A i \in DOMAIN Tail(q) : /\ i \in Nat /\ 0 < i /\ 1 < i + 1
                                   /\ i + 1 \in DOMAIN q /\ Tail(q)[i] = q[i + 1]
  BY TailPositions
<1>2. Distinct(Tail(q))
  <2> SUFFICES ASSUME NEW i \in DOMAIN Tail(q), NEW j \in DOMAIN Tail(q), Tail(q)[i] = Tail(q)[j]
               PROVE  i = j
    BY DEF Distinct
  <2>1. i + 1 = j + 1
    BY <1>1 DEF Distinct
  <2> QED
    BY <1>1, <2>1
<1>3. \A y : In(Tail(q), y) => In(q, y)
  BY <1>1 DEF In
<1>4. ~In(Tail(q), Head(q))
  <2> SUFFICES ASSUME NEW i \in DOMAIN Tail(q), Tail(q)[i] = q[1] PROVE FALSE
    BY <1>1 DEF In
  <2>1. i + 1 = 1
    BY <1>1 DEF Distinct
  <2> QED
    BY <1>1, <2>1
<1> QED
  BY <1>1, <1>2, <1>3, <1>4 DEF In

-----------------------------------------------------------------------------
\* The requests: each is in one place, and until its handler starts nobody has answered it
\* or stored it.  What the server thread works on where; and the two requests that only
\* one handler answers.
Untouched(k) == k \notin sent \/ In(inbox, k) \/ (msg = k /\ pc["server"] = "handle")
Working == {"pydevd", "packet", "reply"}

InboxInv ==
  /\ Distinct(inbox)
  /\ \A k : In(inbox, k) => k \in sent /\ k # msg
  /\ msg # None => msg \in sent
LabelInv ==
  /\ pc["server"] \in {"dTest", "dKill"} \/ In(stack["server"], "dKill") => msg = "disconnect"
  /\ pc["server"] \in Working => msg \in {"config", "pause"}
UntouchedInv ==
  \A k \in Kind : Untouched(k) => answers[k] = 0 /\ (k = "disconnect" => ~pending)
OnceInv ==
  \A k \in {"pause", "unknown"} :
    /\ answers[k] <= 1
    /\ msg = k /\ pc["server"] \in Working \cup {"refuse"} => answers[k] = 0
RequestInv == InboxInv /\ LabelInv /\ UntouchedInv /\ OnceInv

LEMMA AnswerCounts ==
  ASSUME DataInv, NEW k, Answer(k)
  PROVE  /\ \A j \in Kind : j # k => answers'[j] = answers[j]
         /\ k \in Kind => answers'[k] = IF answers[k] < 2 THEN answers[k] + 1 ELSE answers[k]
<1>1. answers \in [Kind -> 0..2]
  BY DEF DataInv
<1>2. answers' = [answers EXCEPT ![k] = IF answers[k] < 2 THEN answers[k] + 1 ELSE answers[k]]
  BY DEF Answer
<1> QED
  BY <1>1, <1>2

LEMMA Kinds == None \notin Kind /\ "pause" \in Kind /\ "unknown" \in Kind /\ "disconnect" \in Kind
BY DEF None, Kind

\* Outside of the handlers only the disconnect is answered, and only when it is stored.
LEMMA CloseRequests ==
  ASSUME StateInv, RequestInv, NEW t \in Thread, Step(t), UNCHANGED <<inbox, msg, sent>>,
         pc'[t] \notin {"handle", "dTest"} \cup Working,
         pc'[t] = "refuse" => msg = "disconnect",
         pending' => pending,
         \A k \in Kind : answers'[k] = answers[k] \/ (k = "disconnect" /\ pending)
  PROVE  RequestInv'
<1>1. "server" \in Thread /\ Control
  BY DEF StateInv, Thread
<1>2. /\ pc'["server"] = pc["server"] \/ (t = "server" /\ pc'["server"] = pc'[t])
      /\ In(stack'["server"], "dKill") => In(stack["server"], "dKill") \/ pc["server"] = "dTest"
      /\ pc'["server"] = "dKill" => In(stack["server"], "dKill") \/ pc["server"] = "dKill"
  BY <1>1, Onward, StackDelta
<1>3. InboxInv'
  BY DEF RequestInv, InboxInv
<1>4. LabelInv'
  BY <1>2 DEF RequestInv, LabelInv
<1>5. \A k : Untouched(k)' => Untouched(k)
  BY <1>2 DEF Untouched
<1>6. UntouchedInv'
  BY <1>5 DEF RequestInv, UntouchedInv
<1>7. OnceInv'
  <2>1. \A k \in {"pause", "unknown"} : answers'[k] = answers[k] /\ k # "disconnect"
    BY Kinds
  <2> QED
    BY <1>2, <2>1 DEF RequestInv, OnceInv
<1> QED
  BY <1>3, <1>4, <1>6, <1>7 DEF RequestInv

\* A handler touches the request it works on and no other.
LEMMA HandlerRequests ==
  ASSUME StateInv, RequestInv, UNCHANGED <<inbox, msg, sent>>, stack'["server"] = <<>>,
         pc'["server"] \notin {"handle", "dKill"},
         pc'["server"] = "dTest" => msg = "disconnect",
         pc'["server"] \in Working => msg \in {"config", "pause"},
         \A k \in Kind : k # msg => /\ answers'[k] = answers[k]
                                    /\ k = "disconnect" => pending' = pending,
         \A k \in {"pause", "unknown"} :
            msg = k => /\ answers'[k] <= 1
                       /\ pc'["server"] \in Working \cup {"refuse"} => answers'[k] = 0
  PROVE  RequestInv'
<1>1. InboxInv'
  BY DEF RequestInv, InboxInv
<1>2. LabelInv'
  BY NothingIn DEF RequestInv, LabelInv
<1>3. \A k \in Kind : Untouched(k)' => Untouched(k) /\ k # msg
  BY Kinds DEF Untouched, RequestInv, InboxInv
<1>4. UntouchedInv'
  BY <1>3 DEF RequestInv, UntouchedInv
<1>5. OnceInv'
  BY Kinds DEF RequestInv, OnceInv
<1> QED
  BY <1>1, <1>2, <1>4, <1>5 DEF RequestInv

LEMMA ServerCloses ==
  ASSUME StateInv, RequestInv, pc["server"] \in PLabel, pc["server"] # "pTest"
  PROVE  msg = "disconnect" /\ In(stack["server"], "dKill")
<1>1. "server" \in Thread
  BY DEF Thread
<1>2. stack["server"] \in Bases("server")
  BY <1>1, AtClose DEF StateInv, Control
<1>3. In(stack["server"], "dKill")
  BY <1>1, <1>2, BaseFacts
<1> QED
  BY <1>3 DEF RequestInv, LabelInv

LEMMA CloseStepRequests ==
  ASSUME StateInv, RequestInv, NEW t \in Thread, CloseStep(t)
  PROVE  RequestInv'
<1> USE DEF Working
<1>1. UNCHANGED <<inbox, msg, sent>>
  BY DEF CloseStep, PTest, PMark, PTake, PEvent, PAnswer, PStop, PDown, STest, SLock, SDone
<1>3. CASE PTest(t)
  <2>1. Step(t) /\ pc'[t] \in {"join", "exiting", "over", "dKill", "sDone", "pMark"}
    BY <1>3, PTestSteps DEF StateInv
  <2>2. UNCHANGED <<answers, pending>>
    BY <1>3 DEF PTest, processor
  <2> QED
    BY <1>1, <2>1, <2>2, CloseRequests
<1>4. CASE PMark(t)
  <2>1. Step(t) /\ pc'[t] = "pTake"
    BY <1>4, PMarkSteps DEF StateInv
  <2>2. UNCHANGED <<answers, pending>>
    BY <1>4 DEF PMark
  <2> QED
    BY <1>1, <2>1, <2>2, CloseRequests
<1>5. CASE PTake(t)
  <2>1. /\ Step(t) /\ pc[t] = "pTake" /\ pc'[t] \in {"sTest", "refuse", "done", "exiting", "over"}
        /\ pc'[t] = "refuse" => t = "server"
    BY <1>5, PTakeSteps DEF StateInv, PTake, At
  <2>2. UNCHANGED <<answers, pending>>
    BY <1>5 DEF PTake
  <2>3. pc'[t] = "refuse" => msg = "disconnect"
    BY <2>1, ServerCloses DEF PLabel
  <2> QED
    BY <1>1, <2>1, <2>2, <2>3, CloseRequests
<1>6. ASSUME NEW at, NEW event, NEW next, PEvent(t, at, event, next),
             <<at, next>> \in {<<"pExited", "pTerminated">>, <<"pTerminated", "pAnswer">>}
      PROVE  RequestInv'
  <2>1. /\ Step(t) /\ pc[t] \in {"pExited", "pTerminated"} /\ answers' = answers
        /\ pc'[t] \in {"pTerminated", "pAnswer", "refuse", "done", "exiting", "over"}
        /\ pc'[t] = "refuse" => t = "server"
    BY <1>6, PEventSteps DEF StateInv
  <2>2. pending' = pending
    BY <1>6 DEF PEvent, processor
  <2>3. pc'[t] = "refuse" => msg = "disconnect"
    BY <2>1, ServerCloses DEF PLabel
  <2> QED
    BY <1>1, <2>1, <2>2, <2>3, CloseRequests
<1>7. CASE PAnswer(t)
  <2>1. /\ Step(t) /\ pc[t] = "pAnswer"
        /\ pc'[t] \in {"pStop", "refuse", "done", "exiting", "over"}
        /\ pc'[t] = "refuse" => t = "server"
        /\ (pending /\ Answer("disconnect")) \/ answers' = answers
    BY <1>7, PAnswerSteps DEF StateInv
  <2>2. pending' = pending
    BY <1>7 DEF PAnswer, processor
  <2>3. pc'[t] = "refuse" => msg = "disconnect"
    BY <2>1, ServerCloses DEF PLabel
  <2>4. \A k \in Kind : answers'[k] = answers[k] \/ (k = "disconnect" /\ pending)
    BY <2>1, AnswerCounts DEF StateInv
  <2> QED
    BY <1>1, <2>1, <2>2, <2>3, <2>4, CloseRequests
<1>8. CASE PStop(t)
  <2>1. Step(t) /\ pc'[t] = "pDown"
    BY <1>8, PStopSteps DEF StateInv
  <2>2. answers' = answers /\ pending' = FALSE
    BY <1>8 DEF PStop
  <2> QED
    BY <1>1, <2>1, <2>2, CloseRequests
<1>9. CASE PDown(t)
  <2>1. /\ Step(t) /\ pc[t] = "pDown"
        /\ pc'[t] \in {"join", "exiting", "over", "dKill", "sDone", "refuse", "done"}
        /\ pc'[t] = "refuse" => t = "server"
    BY <1>9, PDownSteps DEF StateInv
  <2>2. UNCHANGED <<answers, pending>>
    BY <1>9 DEF PDown, processor
  <2>3. pc'[t] = "refuse" => msg = "disconnect"
    BY <2>1, ServerCloses DEF PLabel
  <2> QED
    BY <1>1, <2>1, <2>2, <2>3, CloseRequests
<1>10. CASE STest(t) \/ SLock(t) \/ SDone(t)
  <2>1. Step(t) /\ pc'[t] \in {"pExited", "done", "sLock", "pTest", "sDone"}
    BY <1>10, STestSteps, SLockSteps, SDoneSteps DEF StateInv
  <2>2. UNCHANGED <<answers, pending>>
    BY <1>10 DEF STest, SLock, SDone, processor
  <2> QED
    BY <1>1, <2>1, <2>2, CloseRequests
<1> QED
  BY <1>3, <1>4, <1>5, <1>6, <1>7, <1>8, <1>9, <1>10 DEF CloseStep

\* A handler that answers the request it works on, which nobody has answered before.
LEMMA FirstAnswer ==
  ASSUME StateInv, RequestInv, NEW k \in Kind, Answer(k), msg = k,
         pc["server"] = "handle" \/ (k \in {"pause", "unknown"} /\ pc["server"] \in Working \cup {"refuse"})
  PROVE  /\ answers[k] = 0 /\ answers'[k] = 1
         /\ \A j \in Kind : j # msg => answers'[j] = answers[j]
<1>1. Untouched(k) \/ (k \in {"pause", "unknown"} /\ pc["server"] \in Working \cup {"refuse"})
  BY DEF Untouched
<1>2. answers[k] = 0
  BY <1>1 DEF RequestInv, UntouchedInv, OnceInv
<1> QED
  BY <1>2, AnswerCounts DEF StateInv

LEMMA HandlerStepRequests ==
  ASSUME StateInv, RequestInv, Handlers, ~Read
  PROVE  RequestInv'
<1> USE DEF Working
<1>1. /\ Step("server") /\ stack'["server"] = <<>> /\ "server" \in Thread
      /\ pc'["server"] \in Rest("server") \ {"dKill"} /\ pc \in [Thread -> Label]
  BY HandlerSteps DEF StateInv, Control, StackInv, Thread
<1>2. UNCHANGED <<inbox, msg, sent>>
  BY DEF Handlers, ReadEnd, Refuse, OnUnknown, SetExit, OnConfigurationDone, OnPause,
         UsePydevd, Packet, Reply, OnDisconnect, OnDisconnectLaunch, Kill
<1>3. CASE ReadEnd \/ SetExit \/ Kill
  <2>1. pc'["server"] \in {"read", "ended"} /\ UNCHANGED <<answers, pending>>
    BY <1>1, <1>3 DEF ReadEnd, SetExit, Kill, Goto, After, processor
  <2> QED
    BY <1>1, <1>2, <2>1, HandlerRequests DEF RequestInv, OnceInv
<1>4. CASE Refuse
  <2>1. /\ pc["server"] = "refuse" /\ pc'["server"] \in {"read", "ended"} /\ pending' = pending
        /\ Answer(msg) \/ answers' = answers
    BY <1>1, <1>4 DEF Refuse, At, Goto, After, processor
  <2>2. CASE answers' = answers
    BY <1>1, <1>2, <2>1, <2>2, HandlerRequests DEF RequestInv, OnceInv
  <2>3. CASE Answer(msg)
    <3>1. \A k \in Kind : k # msg => answers'[k] = answers[k]
      BY <2>3, AnswerCounts DEF StateInv
    <3>2. \A k \in {"pause", "unknown"} : msg = k => answers'[k] = 1
      BY <2>1, <2>3, FirstAnswer, Kinds
    <3> QED
      BY <1>1, <1>2, <2>1, <3>1, <3>2, HandlerRequests
  <2> QED
    BY <2>1, <2>2, <2>3
<1>5. CASE OnUnknown
  <2>1. /\ pc["server"] = "handle" /\ msg = "unknown" /\ pending' = pending
        /\ \/ Answer(msg) /\ pc'["server"] = "unknown"
           \/ answers' = answers /\ pc'["server"] = "refuse"
    BY <1>1, <1>5 DEF OnUnknown, Handle, At, SendThen, Goto, Raise, Handler, processor
  <2>2. answers[msg] = 0
    BY <2>1, Kinds DEF RequestInv, UntouchedInv, Untouched
  <2>3. CASE Answer(msg) /\ pc'["server"] = "unknown"
    BY <1>1, <1>2, <2>1, <2>3, FirstAnswer, HandlerRequests, Kinds
  <2>4. CASE answers' = answers /\ pc'["server"] = "refuse"
    BY <1>1, <1>2, <2>1, <2>2, <2>4, HandlerRequests
  <2> QED
    BY <2>1, <2>3, <2>4
<1>6. CASE OnConfigurationDone
  <2>1. /\ msg = "config" /\ pending' = pending
        /\ Answer(msg) \/ answers' = answers
        /\ pc'["server"] \in {"pydevd", "refuse"}
    BY <1>1, <1>6 DEF OnConfigurationDone, Handle, At, SendThen, Goto, Raise, Handler, processor
  <2>2. \A k \in Kind : k # msg => answers'[k] = answers[k]
    BY <2>1, AnswerCounts DEF StateInv
  <2> QED
    BY <1>1, <1>2, <2>1, <2>2, HandlerRequests
<1>7. CASE OnPause
  <2>1. /\ pc["server"] = "handle" /\ msg = "pause" /\ UNCHANGED <<answers, pending>>
        /\ pc'["server"] = "pydevd"
    BY <1>1, <1>7 DEF OnPause, Handle, At, Goto, processor
  <2>2. answers[msg] = 0
    BY <2>1, Kinds DEF RequestInv, UntouchedInv, Untouched
  <2> QED
    BY <1>1, <1>2, <2>1, <2>2, HandlerRequests
<1>8. CASE UsePydevd \/ Packet
  <2>1. /\ pc["server"] \in Working /\ UNCHANGED <<answers, pending>>
        /\ pc'["server"] \in {"packet", "reply", "refuse"}
    BY <1>1, <1>8 DEF UsePydevd, Packet, At, Goto, processor
  <2>2. msg \in {"config", "pause"}
    BY <2>1 DEF RequestInv, LabelInv
  <2> QED
    BY <1>1, <1>2, <2>1, <2>2, HandlerRequests DEF RequestInv, OnceInv
<1>9. CASE Reply
  <2>1. /\ pc["server"] = "reply" /\ pending' = pending
        /\ \/ pc'["server"] = "refuse" /\ answers' = answers
           \/ pc'["server"] \in {"read", "ended"} /\ (answers' = answers \/ Answer(msg))
    BY <1>1, <1>9 DEF Reply, After, At, SendThen, Goto, Raise, Handler, processor
  <2>2. msg \in {"config", "pause"}
    BY <2>1 DEF RequestInv, LabelInv
  <2>3. CASE answers' = answers
    BY <1>1, <1>2, <2>1, <2>2, <2>3, HandlerRequests DEF RequestInv, OnceInv
  <2>4. CASE Answer(msg) /\ pc'["server"] \in {"read", "ended"}
    <3>1. \A k \in Kind : k # msg => answers'[k] = answers[k]
      BY <2>4, AnswerCounts DEF StateInv
    <3>2. \A k \in {"pause", "unknown"} : msg = k => answers'[k] = 1
      BY <2>1, <2>4, FirstAnswer, Kinds
    <3> QED
      BY <1>1, <1>2, <2>1, <2>4, <3>1, <3>2, HandlerRequests
  <2> QED
    BY <2>1, <2>3, <2>4
<1>10. CASE OnDisconnect
  <2>1. /\ msg = "disconnect" /\ pending' = pending
        /\ Answer(msg) \/ answers' = answers
        /\ pc'["server"] \in {"read", "ended", "refuse"}
    BY <1>1, <1>10 DEF OnDisconnect, Handle, After, At, SendThen, Goto, Raise, Handler, processor
  <2>2. \A k \in Kind : k # msg => answers'[k] = answers[k]
    BY <2>1, AnswerCounts DEF StateInv
  <2> QED
    BY <1>1, <1>2, <2>1, <2>2, HandlerRequests
<1>11. CASE OnDisconnectLaunch
  <2>1. msg = "disconnect" /\ answers' = answers /\ pc'["server"] = "dTest"
    BY <1>1, <1>11 DEF OnDisconnectLaunch, Handle, At, Goto
  <2> QED
    BY <1>1, <1>2, <2>1, HandlerRequests
<1> QED
  BY <1>3, <1>4, <1>5, <1>6, <1>7, <1>8, <1>9, <1>10, <1>11 DEF Handlers

LEMMA ReadRequests ==
  ASSUME StateInv, RequestInv, Read
  PROVE  RequestInv'
<1>1. /\ inbox \in Seq(Requests) /\ inbox # <<>>
      /\ msg' = Head(inbox) /\ inbox' = Tail(inbox)
      /\ UNCHANGED <<sent, answers, pending>>
  BY DEF Read, StateInv, DataInv, processor
<1>2. /\ pc'["server"] = "handle" /\ stack'["server"] = <<>> /\ "server" \in Thread
  BY HandlerSteps DEF Read, StateInv, Control, StackInv, Goto, Handlers, Thread
<1>3. /\ Distinct(inbox') /\ In(inbox, msg') /\ ~In(inbox', msg')
      /\ \A y : In(inbox', y) => In(inbox, y)
  BY <1>1, DistinctTail DEF RequestInv, InboxInv
<1>4. InboxInv'
  BY <1>1, <1>3 DEF RequestInv, InboxInv
<1>5. LabelInv'
  BY <1>2, NothingIn DEF LabelInv, Working
<1>6. \A k : Untouched(k)' => Untouched(k)
  BY <1>1, <1>3 DEF Untouched
<1>7. UntouchedInv'
  BY <1>1, <1>6 DEF RequestInv, UntouchedInv
<1>8. OnceInv'
  BY <1>1, <1>2 DEF RequestInv, OnceInv, Working
<1> QED
  BY <1>4, <1>5, <1>7, <1>8 DEF RequestInv

LEMMA ClientRequests ==
  ASSUME StateInv, RequestInv, NEW k \in Requests, ClientRequest(k)
  PROVE  RequestInv'
<1>1. /\ inbox \in Seq(Requests) /\ inbox' = Append(inbox, k) /\ sent' = sent \cup {k} /\ k \notin sent
      /\ UNCHANGED <<msg, answers, pending, pc, stack>>
  BY DEF ClientRequest, StateInv, DataInv, processor, control
<1>2. k # None
  BY RequestsAssumption, Kinds
<1>3. ~In(inbox, k) /\ Distinct(inbox) /\ msg # k
  BY <1>1, <1>2 DEF RequestInv, InboxInv
<1>4. /\ Distinct(inbox')
      /\ \A y : In(inbox', y) <=> In(inbox, y) \/ y = k
  BY <1>1, <1>3, DistinctAppend
<1>5. InboxInv'
  BY <1>1, <1>3, <1>4 DEF RequestInv, InboxInv
<1>6. \A j : Untouched(j)' => Untouched(j)
  BY <1>1, <1>4 DEF Untouched
<1>7. UntouchedInv'
  BY <1>1, <1>6 DEF RequestInv, UntouchedInv
<1>8. LabelInv' /\ OnceInv'
  BY <1>1 DEF RequestInv, LabelInv, OnceInv
<1> QED
  BY <1>5, <1>7, <1>8 DEF RequestInv

LEMMA RequestsStand ==
  ASSUME RequestInv, UNCHANGED <<pc, stack, inbox, msg, sent, answers, pending>>
  PROVE  RequestInv'
<1>1. InboxInv' /\ LabelInv'
  BY DEF RequestInv, InboxInv, LabelInv
<1>2. UntouchedInv' /\ OnceInv'
  BY DEF RequestInv, UntouchedInv, OnceInv, Untouched
<1> QED
  BY <1>1, <1>2 DEF RequestInv

LEMMA NextRequests ==
  ASSUME StateInv, RequestInv, [Next]_vars
  PROVE  RequestInv'
<1>1. CASE UNCHANGED vars
  BY <1>1, RequestsStand DEF vars, control, processor
<1>2. CASE \E t \in Thread : CloseStep(t)
  BY <1>2, CloseStepRequests
<1>3. CASE Exit \/ Hangup \/ WriterClose \/ KillTest
  <2>1. \E t \in Thread : Step(t) /\ pc'[t] \in {"pTest", "sTest"}
    <3>1. "main" \in Thread /\ "writer" \in Thread /\ "server" \in Thread
      BY DEF Thread
    <3> QED
      BY <1>3, <3>1, ExitSteps, HangupSteps, WriterCloseSteps, KillTestSteps DEF StateInv
  <2>2. UNCHANGED <<inbox, msg, sent, answers, pending>>
    BY <1>3 DEF Exit, Hangup, WriterClose, KillTest, processor
  <2> QED
    BY <2>1, <2>2, CloseRequests DEF Working
<1>4. CASE Read
  BY <1>4, ReadRequests
<1>5. CASE Handlers /\ ~Read
  BY <1>5, HandlerStepRequests
<1>6. CASE EndOfProcess \/ ClientLeaves
  BY <1>6, RequestsStand DEF EndOfProcess, ClientLeaves, control, processor
<1>7. ASSUME NEW k \in Requests, ClientRequest(k) PROVE RequestInv'
  BY <1>7, ClientRequests
<1> QED
  BY <1>1, <1>2, <1>3, <1>4, <1>5, <1>6, <1>7 DEF Next, ServerStep, Handlers

LEMMA InitRequests == Init => RequestInv
<1> SUFFICES ASSUME Init PROVE RequestInv
  OBVIOUS
<1>1. /\ inbox = <<>> /\ msg = None /\ sent = {} /\ ~pending
      /\ \A k \in Kind : answers[k] = 0
      /\ pc["server"] = "read" /\ stack["server"] = <<>>
  BY DEF Init, Thread
<1>2. InboxInv
  <2>1. DOMAIN inbox = {}
    BY <1>1, EmptySeq
  <2> QED
    BY <1>1, <2>1 DEF InboxInv, Distinct, In
<1>3. LabelInv /\ UntouchedInv
  <2>1. pc["server"] \notin {"dTest", "dKill"} /\ pc["server"] \notin Working
    BY <1>1 DEF Working
  <2>2. ~In(stack["server"], "dKill")
    BY <1>1, NothingIn, Zenon
  <2> QED
    BY <1>1, <2>1, <2>2 DEF LabelInv, UntouchedInv
<1>4. OnceInv
  <2>1. \A k \in {"pause", "unknown"} : answers[k] = 0
    BY <1>1, Kinds
  <2> QED
    BY <1>1, <2>1 DEF OnceInv, Working
<1> QED
  BY <1>2, <1>3, <1>4 DEF RequestInv

-----------------------------------------------------------------------------
\* The answers to the disconnect, while no two threads have got past the test of _closed at
\* once.  It is answered twice at most, and twice only when the client has left and every
\* close is over; while it is stored and answered no close is before the end of its wait;
\* a handler that is about to refuse it has not been forestalled; and a close that the
\* handler has begun finds it stored until it has itself ended its wait.
Answered == answers["disconnect"]
Waits(t) == Past(t) /\ ~Late(t)
Passed == closed /\ \A t \in Thread : ~Waits(t)
Ended == closed /\ \A t \in Thread : ~Past(t)
Gone == conn \notin {"open", "closed"}
LeftBehind == Gone /\ Ended
Refusing == pc["server"] = "refuse" /\ msg = "disconnect"

TwiceInv ==
  /\ Answered <= 1 \/ LeftBehind
  /\ pending /\ Answered # 0 => Passed
  /\ Refusing => Answered = 0 \/ LeftBehind
  /\ Refusing /\ pending => Ended
  /\ In(stack["server"], "dKill") /\ pc["server"] # "pDown" /\ (~closed \/ Past("server")) => pending
  /\ pc["server"] = "dTest" /\ ~closed => pending
UnracedInv == ~raced => TwiceInv

\* The end of the session lasts.
LEMMA EndedLasts ==
  ASSUME StateInv, NEW t \in Thread, Step(t), pc'[t] # "pTake", Late(t) => Late(t)' \/ ~Past(t)'
  PROVE  /\ Ended => Ended'
         /\ Passed => Passed'
<1>1. /\ \A u \in Thread : Past(u)' => Past(u)
      /\ \A u \in Thread \ {t} : Late(u)' <=> Late(u)
      /\ closed => closed'
  BY Onward DEF StateInv
<1>2. \A u \in Thread : Waits(u)' => Waits(u)
  BY <1>1 DEF Waits
<1> QED
  BY <1>1, <1>2 DEF Ended, Passed

\* Most steps have nothing to do with the answer.
LEMMA TwiceKept ==
  ASSUME StateInv, RaceInv, UnracedInv, NEW t \in Thread, Step(t), UNCHANGED <<raced, closed, pending>>,
         pc'[t] \notin {"pTake", "dTest"}, Late(t) => Late(t)' \/ ~Past(t)',
         pc[t] \in {"pDown", "dTest"} => ~Past(t)',
         Answered' = Answered,
         Refusing' => \/ Refusing
                      \/ ~raced => /\ Answered = 0 \/ LeftBehind'
                                   /\ pending => Ended',
         conn' = conn \/ (conn = "reset" /\ conn' = "eof") \/ Past(t)
  PROVE  UnracedInv'
<1> SUFFICES ASSUME ~raced PROVE TwiceInv'
  BY DEF UnracedInv
<1>1. TwiceInv /\ Control /\ "server" \in Thread
  BY DEF UnracedInv, StateInv, Thread
<1>2. (Ended => Ended') /\ (Passed => Passed')
  BY EndedLasts
<1>3. LeftBehind => LeftBehind'
  BY <1>2 DEF LeftBehind, Gone, Ended
<1>4. /\ \A u \in Thread : Past(u)' => Past(u)
      /\ \A u \in Thread \ {t} : pc'[u] = pc[u] /\ stack'[u] = stack[u]
      /\ In(stack'["server"], "dKill") => In(stack["server"], "dKill") \/ (t = "server" /\ pc[t] = "dTest")
  BY <1>1, Onward, StackDelta
<1>5. ASSUME In(stack'["server"], "dKill"), pc'["server"] # "pDown", ~closed \/ Past("server")'
      PROVE  pending
  <2>1. CASE t = "server" /\ pc[t] = "dTest"
    BY <1>1, <1>5, <2>1 DEF TwiceInv
  <2>2. CASE In(stack["server"], "dKill") /\ pc["server"] # "pDown"
    BY <1>1, <1>4, <1>5, <2>2 DEF TwiceInv
  <2>3. CASE pc["server"] = "pDown"
    <3>1. closed
      BY <1>1, <2>3 DEF Control, PastInv, Past, PastAt
    <3>2. t # "server"
      BY <1>5, <2>3, <3>1
    <3> QED
      BY <1>1, <1>4, <1>5, <2>3, <3>2
  <2> QED
    BY <1>4, <1>5, <2>1, <2>2, <2>3
<1>6. pc'["server"] = "dTest" => pc["server"] = "dTest"
  BY <1>1, <1>4
<1> QED
  BY <1>1, <1>2, <1>3, <1>5, <1>6 DEF TwiceInv

LEMMA TwiceStands ==
  ASSUME UnracedInv, Standing, UNCHANGED <<raced, pending, answers, msg>>,
         conn' = conn \/ (conn = "open" /\ conn' # "closed")
  PROVE  UnracedInv'
<1>1. /\ \A u \in Thread : (Past(u)' <=> Past(u)) /\ (Late(u)' <=> Late(u))
      /\ Past("server")' <=> Past("server")
  BY DEF Standing, Past, Late
<1>2. /\ Ended' <=> Ended
      /\ Passed' <=> Passed
  BY <1>1 DEF Standing, Ended, Passed, Waits
<1>3. LeftBehind => LeftBehind'
  BY <1>2 DEF LeftBehind, Gone
<1> QED
  BY <1>1, <1>2, <1>3 DEF Standing, UnracedInv, TwiceInv, Answered, Refusing

\* An exception takes the server thread from close to the refusal.
LEMMA RaiseTwice ==
  ASSUME StateInv, RaceInv, RequestInv, UnracedInv, NEW t \in Thread, Step(t),
         UNCHANGED <<raced, closed, pending, msg>>, Answered' = Answered,
         pc[t] \in PLabel \ {"pTest"}, Past(t), ~Past(t)',
         pc'[t] \notin {"pTake", "dTest"}, pc'[t] = "refuse" => t = "server",
         pc[t] # "pDown" => ~Late(t) /\ (conn' = conn \/ (conn = "reset" /\ conn' = "eof")),
         pc[t] = "pDown" => conn # "open" /\ conn' = (IF conn = "reset" THEN "eof" ELSE conn)
  PROVE  UnracedInv'
<1>1. \A u \in Thread \ {t} : pc'[u] = pc[u] /\ (Past(u)' <=> Past(u))
  BY Onward DEF StateInv
<1>2. ASSUME Refusing', ~Refusing, ~raced
      PROVE  (Answered = 0 \/ LeftBehind') /\ (pending => Ended')
  <2>1. t = "server"
    BY <1>1, <1>2 DEF Refusing, Thread
  <2>2. Alone /\ TwiceInv /\ closed
    BY <1>2 DEF RaceInv, UnracedInv, StateInv, Control, PastInv
  <2>3. Ended'
    BY <1>1, <2>2 DEF Ended, Alone
  <2>4. In(stack["server"], "dKill")
    BY <2>1, ServerCloses
  <2>5. CASE pc[t] = "pDown"
    <3>1. conn # "closed" /\ conn # "open"
      BY <2>2, <2>5 DEF Alone
    <3>2. Gone'
      BY <2>5, <3>1 DEF Gone
    <3> QED
      BY <2>3, <3>2 DEF LeftBehind
  <2>6. CASE pc[t] # "pDown"
    <3>1. pending /\ Waits(t)
      BY <2>1, <2>2, <2>4, <2>6 DEF TwiceInv, Waits
    <3>2. Answered = 0
      BY <2>2, <3>1 DEF TwiceInv, Passed
    <3> QED
      BY <2>3, <3>2
  <2> QED
    BY <2>5, <2>6
<1>3. pc[t] # "dTest"
  BY DEF PLabel
<1> QED
  BY <1>2, <1>3, TwiceKept

LEMMA MarkTwice ==
  ASSUME StateInv, RaceInv, UnracedInv, NEW t \in Thread, PMark(t)
  PROVE  UnracedInv'
<1>1. /\ Step(t) /\ pc[t] = "pMark" /\ pc'[t] = "pTake" /\ closed' = TRUE
      /\ raced' = (raced \/ closed) /\ stack'[t] = stack[t]
      /\ UNCHANGED <<pending, answers, msg>>
  BY PMarkSteps DEF StateInv, PMark
<1> SUFFICES ASSUME ~raced' PROVE TwiceInv'
  BY DEF UnracedInv
<1>2. TwiceInv /\ ~closed /\ Control /\ "server" \in Thread
  BY <1>1 DEF UnracedInv, StateInv, Thread
<1>3. /\ Answered <= 1 /\ ~(pending /\ Answered # 0)
      /\ Refusing => Answered = 0 /\ ~pending
  BY <1>2 DEF TwiceInv, LeftBehind, Ended, Passed
<1>4. \A u \in Thread \ {t} : pc'[u] = pc[u] /\ stack'[u] = stack[u]
  BY <1>1, <1>2, Onward
<1>6. stack'["server"] = stack["server"]
  BY <1>1, <1>2, <1>4
<1>7. pc["server"] # "pDown"
  BY <1>2 DEF Control, PastInv, Past, PastAt
<1>8. In(stack'["server"], "dKill") => pending
  BY <1>2, <1>6, <1>7 DEF TwiceInv
<1>9. Refusing' => Refusing
  BY <1>1, <1>2, <1>4 DEF Refusing
<1> QED
  BY <1>1, <1>3, <1>8, <1>9 DEF TwiceInv, Answered

LEMMA AnswerTwice ==
  ASSUME StateInv, RaceInv, RequestInv, UnracedInv, NEW t \in Thread, PAnswer(t)
  PROVE  UnracedInv'
<1>1. UNCHANGED <<raced, closed, pending, msg>>
  BY DEF PAnswer, processor
<1>2. /\ Step(t) /\ Past(t) /\ pc[t] = "pAnswer"
      /\ \/ /\ pending /\ Answer("disconnect") /\ UNCHANGED conn
            /\ pc'[t] = "pStop"
         \/ /\ ~pending /\ UNCHANGED <<conn, answers>>
            /\ pc'[t] = "pStop"
         \/ /\ Fails /\ UNCHANGED answers
            /\ ~PastAt(pc'[t], stack'[t])
            /\ pc'[t] \in {"refuse", "done", "exiting", "over"} /\ (pc'[t] = "refuse" <=> t = "server")
  BY PAnswerSteps DEF StateInv
<1>3. ~Late(t) /\ Waits(t) /\ pc[t] \in PLabel \ {"pTest"}
  BY <1>2 DEF Late, Waits, PLabel
<1>4. CASE ~pending /\ UNCHANGED <<conn, answers>> /\ pc'[t] = "pStop"
  <2>1. Refusing' => Refusing
    BY <1>1, <1>2, <1>4, Onward DEF Refusing, StateInv, Thread
  <2> QED
    BY <1>1, <1>2, <1>3, <1>4, <2>1, TwiceKept DEF Answered
<1>5. CASE /\ Fails /\ UNCHANGED answers /\ ~PastAt(pc'[t], stack'[t])
           /\ pc'[t] \in {"refuse", "done", "exiting", "over"} /\ (pc'[t] = "refuse" <=> t = "server")
  <2>1. conn' = conn \/ (conn = "reset" /\ conn' = "eof")
    BY <1>5 DEF Fails
  <2>2. ~Past(t)'
    BY <1>5 DEF Past
  <2> QED
    BY <1>1, <1>2, <1>3, <1>5, <2>1, <2>2, RaiseTwice DEF Answered
<1>6. CASE pending /\ Answer("disconnect") /\ UNCHANGED conn /\ pc'[t] = "pStop"
  <2> SUFFICES ASSUME ~raced PROVE TwiceInv'
    BY <1>1 DEF UnracedInv
  <2>1. TwiceInv /\ Alone /\ closed /\ Control /\ "server" \in Thread
    BY <1>2 DEF UnracedInv, RaceInv, StateInv, Control, PastInv, Thread
  <2>2. Answered = 0 /\ ~Refusing
    BY <1>2, <1>3, <1>6, <2>1 DEF TwiceInv, Passed, Ended
  <2>3. Answered' = 1
    BY <1>6, <2>2, AnswerCounts, Kinds DEF Answered, StateInv
  <2>4. \A u \in Thread \ {t} : pc'[u] = pc[u] /\ stack'[u] = stack[u] /\ ~Past(u)'
    BY <1>2, <2>1, Onward DEF Alone
  <2>5. Passed'
    BY <1>1, <1>6, <2>1, <2>4 DEF Passed, Waits, Late
  <2>6. ~Refusing'
    BY <1>1, <1>6, <2>2, <2>4 DEF Refusing, Thread
  <2> QED
    BY <1>1, <1>6, <2>1, <2>3, <2>5, <2>6 DEF TwiceInv
<1> QED
  BY <1>2, <1>4, <1>5, <1>6

LEMMA StopTwice ==
  ASSUME StateInv, RaceInv, UnracedInv, NEW t \in Thread, PStop(t)
  PROVE  UnracedInv'
<1>1. /\ pending' = FALSE /\ UNCHANGED <<raced, closed, answers, msg>>
  BY DEF PStop, history
<1>2. Step(t) /\ Past(t) /\ pc[t] = "pStop" /\ pc'[t] = "pDown"
  BY PStopSteps DEF StateInv
<1> SUFFICES ASSUME ~raced PROVE TwiceInv'
  BY <1>1 DEF UnracedInv
<1>3. TwiceInv /\ Alone /\ closed /\ Control /\ "server" \in Thread
  BY <1>2 DEF UnracedInv, RaceInv, StateInv, Control, PastInv, Thread
<1>4. ~Ended
  BY <1>2 DEF Ended
<1>5. Answered <= 1 /\ (Refusing => Answered = 0)
  BY <1>3, <1>4 DEF TwiceInv, LeftBehind
<1>6. \A u \in Thread \ {t} : pc'[u] = pc[u] /\ ~Past(u)'
  BY <1>2, <1>3, Onward DEF Alone
<1>7. Refusing' => Refusing
  BY <1>1, <1>2, <1>3, <1>6 DEF Refusing
<1>8. pc'["server"] # "pDown" => ~Past("server")'
  BY <1>2, <1>3, <1>6
<1> QED
  BY <1>1, <1>3, <1>5, <1>7, <1>8 DEF TwiceInv, Answered

LEMMA EventTwice ==
  ASSUME StateInv, RaceInv, RequestInv, UnracedInv, NEW t \in Thread, NEW at, NEW event, NEW next,
         PEvent(t, at, event, next),
         <<at, next>> \in {<<"pExited", "pTerminated">>, <<"pTerminated", "pAnswer">>}
  PROVE  UnracedInv'
<1>1. UNCHANGED <<raced, closed, pending, msg>>
  BY DEF PEvent, processor, history
<1>2. /\ Step(t) /\ Past(t) /\ pc[t] \in {"pExited", "pTerminated"} /\ answers' = answers
      /\ \/ /\ conn' = conn
            /\ pc'[t] \in {"pTerminated", "pAnswer"}
         \/ /\ Fails /\ ~PastAt(pc'[t], stack'[t])
            /\ pc'[t] \in {"refuse", "done", "exiting", "over"} /\ (pc'[t] = "refuse" <=> t = "server")
  BY PEventSteps DEF StateInv
<1>3. ~Late(t) /\ pc[t] \in PLabel \ {"pTest"}
  BY <1>2 DEF Late, PLabel
<1>4. CASE conn' = conn /\ pc'[t] \in {"pTerminated", "pAnswer"}
  <2>1. Refusing' => Refusing
    BY <1>1, <1>2, <1>4, Onward DEF Refusing, StateInv, Thread
  <2> QED
    BY <1>1, <1>2, <1>3, <1>4, <2>1, TwiceKept DEF Answered
<1>5. CASE /\ Fails /\ ~PastAt(pc'[t], stack'[t])
           /\ pc'[t] \in {"refuse", "done", "exiting", "over"} /\ (pc'[t] = "refuse" <=> t = "server")
  <2>1. conn' = conn \/ (conn = "reset" /\ conn' = "eof")
    BY <1>5 DEF Fails
  <2>2. ~Past(t)'
    BY <1>5 DEF Past
  <2> QED
    BY <1>1, <1>2, <1>3, <1>5, <2>1, <2>2, RaiseTwice DEF Answered
<1> QED
  BY <1>2, <1>4, <1>5

LEMMA CloseTwice ==
  ASSUME StateInv, RaceInv, RequestInv, UnracedInv, NEW t \in Thread, CloseStep(t)
  PROVE  UnracedInv'
<1>1. ASSUME Step(t), UNCHANGED <<raced, closed, pending, answers, msg, conn>>,
             pc'[t] \notin {"pTake", "dTest", "refuse"}, pc[t] \notin {"pStop", "pDown", "dTest"}
      PROVE  UnracedInv'
  <2>1. Refusing' => Refusing
    BY <1>1, Onward DEF Refusing, StateInv, Thread
  <2>2. ~Late(t)
    BY <1>1 DEF Late
  <2> QED
    BY <1>1, <2>1, <2>2, TwiceKept DEF Answered
<1>2. CASE PTest(t)
  <2>1. /\ Step(t) /\ pc[t] = "pTest"
        /\ pc'[t] \in {"join", "exiting", "over", "dKill", "sDone", "pMark"}
    BY <1>2, PTestSteps DEF StateInv, PTest, At
  <2>2. UNCHANGED <<raced, closed, pending, answers, msg, conn>>
    BY <1>2 DEF PTest, processor
  <2> QED
    BY <1>1, <2>1, <2>2
<1>3. CASE PMark(t)
  BY <1>3, MarkTwice
<1>4. CASE PTake(t)
  <2>1. UNCHANGED <<raced, closed, pending, answers, msg, conn>>
    BY <1>4 DEF PTake, history
  <2>2. /\ Step(t) /\ Past(t) /\ pc[t] = "pTake"
        /\ \/ pc'[t] = "sTest"
           \/ /\ ~PastAt(pc'[t], stack'[t])
              /\ pc'[t] \in {"refuse", "done", "exiting", "over"} /\ (pc'[t] = "refuse" <=> t = "server")
    BY <1>4, PTakeSteps DEF StateInv, PTake, At
  <2>3. CASE pc'[t] = "sTest"
    BY <1>1, <2>1, <2>2, <2>3
  <2>4. CASE /\ ~PastAt(pc'[t], stack'[t])
             /\ pc'[t] \in {"refuse", "done", "exiting", "over"} /\ (pc'[t] = "refuse" <=> t = "server")
    <3>1. ~Late(t) /\ pc[t] \in PLabel \ {"pTest"} /\ ~Past(t)'
      BY <2>2, <2>4 DEF Late, PLabel, Past
    <3> QED
      BY <2>1, <2>2, <2>4, <3>1, RaiseTwice DEF Answered
  <2> QED
    BY <2>2, <2>3, <2>4
<1>5. CASE PEvent(t, "pExited", "exited", "pTerminated")
  BY <1>5, EventTwice
<1>6. CASE PEvent(t, "pTerminated", "terminated", "pAnswer")
  BY <1>6, EventTwice
<1>7. CASE PAnswer(t)
  BY <1>7, AnswerTwice
<1>8. CASE PStop(t)
  BY <1>8, StopTwice
<1>9. CASE PDown(t)
  <2>1. UNCHANGED <<raced, closed, pending, answers, msg>>
    BY <1>9 DEF PDown, history, processor
  <2>2. /\ Step(t) /\ Past(t) /\ pc[t] = "pDown" /\ ~PastAt(pc'[t], stack'[t])
        /\ \/ /\ conn' = "closed"
              /\ pc'[t] \in {"join", "exiting", "over", "dKill", "sDone"}
           \/ /\ conn # "open" /\ conn' = (IF conn = "reset" THEN "eof" ELSE conn)
              /\ pc'[t] \in {"refuse", "done", "exiting", "over"} /\ (pc'[t] = "refuse" <=> t = "server")
    BY <1>9, PDownSteps DEF StateInv
  <2>3. ~Past(t)'
    BY <2>2 DEF Past
  <2>4. CASE pc'[t] \in {"join", "exiting", "over", "dKill", "sDone"}
    <3>1. Refusing' => Refusing
      BY <2>1, <2>2, <2>4, Onward DEF Refusing, StateInv, Thread
    <3> QED
      BY <2>1, <2>2, <2>3, <2>4, <3>1, TwiceKept DEF Answered
  <2>5. CASE /\ conn # "open" /\ conn' = (IF conn = "reset" THEN "eof" ELSE conn)
             /\ pc'[t] \in {"refuse", "done", "exiting", "over"} /\ (pc'[t] = "refuse" <=> t = "server")
    <3>1. pc[t] \in PLabel \ {"pTest"}
      BY <2>2 DEF PLabel
    <3> QED
      BY <2>1, <2>2, <2>3, <2>5, <3>1, RaiseTwice DEF Answered
  <2> QED
    BY <2>2, <2>4, <2>5
<1>10. CASE STest(t) \/ SLock(t) \/ SDone(t)
  <2>1. Step(t) /\ pc[t] \in {"sTest", "sLock", "sDone"}
        /\ pc'[t] \in {"pExited", "done", "sLock", "pTest", "sDone"}
    BY <1>10, STestSteps, SLockSteps, SDoneSteps DEF StateInv
  <2>2. UNCHANGED <<raced, closed, pending, answers, msg, conn>>
    BY <1>10 DEF STest, SLock, SDone, processor, history
  <2> QED
    BY <1>1, <2>1, <2>2
<1> QED
  BY <1>2, <1>3, <1>4, <1>5, <1>6, <1>7, <1>8, <1>9, <1>10 DEF CloseStep

\* A signal that finds the main thread behind the wait takes it out of that close.
LEMMA HangupLate ==
  ASSUME Control, Hangup, Late("main")
  PROVE  ~Past("main")'
<1> DEFINE t == "main"
           x == IF pc[t] = "run" THEN "exiting" ELSE "over"
<1>1. t \in Thread /\ Call(t, "pTest", x) /\ pc[t] \in PLabel /\ pc[t] # "pTest"
  BY DEF Hangup, Thread, Late, PLabel
<1>2. stack[t] \in Bases(t) /\ stack[t] \in Seq(Label)
  BY <1>1, AtClose, Threads DEF Control
<1>3. ~In(stack[t], "pExited")
  BY <1>1, <1>2, BaseFacts
<1>4. x \in Label /\ x # "pExited"
  BY DEF Label
<1> HIDE DEF x
<1>5. stack'[t] = Push(x, stack[t]) /\ pc'[t] = "pTest"
  BY <1>1 DEF Call, Push, Control, StackInv
<1>6. ~In(stack'[t], "pExited")
  BY <1>2, <1>3, <1>4, <1>5, Pushed
<1> QED
  BY <1>5, <1>6 DEF Past, PastAt

\* The server thread outside of close.
LEMMA AtHome ==
  ASSUME StateInv, Handlers
  PROVE  /\ Step("server") /\ "server" \in Thread
         /\ stack'["server"] = <<>> /\ stack["server"] = <<>>
         /\ pc'["server"] # "pTake" /\ pc \in [Thread -> Label]
         /\ ~Late("server") /\ ~Past("server")'
         /\ \A u \in Thread : (Past(u)' <=> Past(u)) /\ (Late(u)' <=> Late(u))
<1>1. /\ Step("server") /\ stack'["server"] = <<>> /\ stack["server"] = <<>> /\ "server" \in Thread
      /\ pc["server"] \in Rest("server") /\ pc'["server"] \in Rest("server") \ {"dKill"}
  BY HandlerSteps DEF StateInv, Thread
<1>2. /\ ~Late("server") /\ ~Late("server")' /\ ~Past("server") /\ ~Past("server")'
      /\ pc'["server"] # "pTake"
  BY <1>1, NothingIn DEF Late, Past, PastAt, Rest
<1>3. \A u \in Thread \ {"server"} : (Past(u)' <=> Past(u)) /\ (Late(u)' <=> Late(u))
  BY <1>1, Onward DEF StateInv
<1> QED
  BY <1>1, <1>2, <1>3 DEF StateInv, Control, StackInv

LEMMA HandlerTwice ==
  ASSUME StateInv, RaceInv, RequestInv, UnracedInv, Handlers, ~Refuse, ~OnDisconnect, ~OnDisconnectLaunch
  PROVE  UnracedInv'
<1> DEFINE t == "server"
<1>1. UNCHANGED <<raced, closed, pending>>
  BY DEF Handlers, Read, ReadEnd, OnUnknown, SetExit, OnConfigurationDone, OnPause, UsePydevd, Packet,
         Reply, Kill, history, processor
<1>2. conn' = conn \/ (conn = "reset" /\ conn' = "eof")
  BY DEF Handlers, Read, ReadEnd, OnUnknown, SetExit, OnConfigurationDone, OnPause, UsePydevd, Packet,
         Reply, Kill, SendThen, Fails
<1>3. /\ Step(t) /\ t \in Thread /\ pc'[t] # "pTake" /\ ~Late(t) /\ ~Past(t)'
      /\ pc \in [Thread -> Label]
  BY AtHome
<1>4. pc'[t] # "dTest" /\ Answered' = Answered /\ (pc'[t] = "refuse" => msg' # "disconnect")
  <2>1. CASE Read
    BY <1>3, <2>1 DEF Read, Goto, Answered
  <2>2. CASE ReadEnd \/ SetExit \/ Kill
    BY <1>3, <2>2 DEF ReadEnd, SetExit, Kill, Goto, After, Answered
  <2>3. CASE OnPause
    BY <1>3, <2>3 DEF OnPause, Goto, Answered
  <2>4. CASE UsePydevd \/ Packet
    <3>1. pc[t] \in Working /\ msg' = msg /\ answers' = answers /\ pc'[t] \in {"packet", "reply", "refuse"}
      BY <1>3, <2>4 DEF UsePydevd, Packet, Goto, At, Working
    <3> QED
      BY <3>1 DEF RequestInv, LabelInv, Answered
  <2>5. CASE OnUnknown \/ OnConfigurationDone
    <3>1. /\ msg \in {"unknown", "config"} /\ msg' = msg
          /\ (Answer(msg) \/ answers' = answers)
          /\ pc'[t] \in {"unknown", "pydevd", "refuse"}
      BY <1>3, <2>5 DEF OnUnknown, OnConfigurationDone, Handle, SendThen, Goto, Raise, Handler
    <3> QED
      BY <3>1, AnswerCounts, Kinds DEF Answered, StateInv
  <2>6. CASE Reply
    <3>1. /\ pc[t] \in Working /\ msg' = msg
          /\ Answer(msg) \/ answers' = answers
          /\ pc'[t] \in {"read", "ended", "refuse"}
      BY <1>3, <2>6 DEF Reply, SendThen, Goto, Raise, Handler, After, At, Working
    <3>2. msg \in {"config", "pause"}
      BY <3>1 DEF RequestInv, LabelInv
    <3> QED
      BY <3>1, <3>2, AnswerCounts, Kinds DEF Answered, StateInv
  <2> QED
    BY <2>1, <2>2, <2>3, <2>4, <2>5, <2>6 DEF Handlers
<1>5. ~Refusing'
  BY <1>4 DEF Refusing
<1> QED
  BY <1>1, <1>2, <1>3, <1>4, <1>5, TwiceKept

\* What an answer to the disconnect by its own handler leaves behind.
LEMMA RefuseTwice ==
  ASSUME StateInv, RaceInv, RequestInv, UnracedInv, Refuse
  PROVE  UnracedInv'
<1> DEFINE t == "server"
<1>1. /\ UNCHANGED <<raced, closed, pending, msg>> /\ pc[t] = "refuse"
      /\ \/ Answer(msg) /\ conn' = conn
         \/ answers' = answers /\ (conn' = conn \/ (conn = "reset" /\ conn' = "eof"))
  BY DEF Refuse, At, history, processor, Fails
<1>2. /\ Step(t) /\ t \in Thread /\ stack'[t] = <<>> /\ pc'[t] # "pTake" /\ ~Late(t) /\ ~Past(t)'
      /\ pc \in [Thread -> Label]
      /\ \A u \in Thread : (Past(u)' <=> Past(u)) /\ (Late(u)' <=> Late(u))
  BY AtHome DEF Handlers
<1>3. pc'[t] \in {"read", "ended"}
  BY <1>2 DEF Refuse, Goto, After
<1>4. ~Refusing'
  BY <1>3 DEF Refusing
<1>5. CASE Answered' = Answered
  BY <1>1, <1>2, <1>3, <1>4, <1>5, TwiceKept
<1>6. CASE msg = "disconnect" /\ Answer(msg) /\ conn' = conn
  <2> SUFFICES ASSUME ~raced PROVE TwiceInv'
    BY <1>1 DEF UnracedInv
  <2>1. TwiceInv /\ Refusing
    BY <1>1, <1>6 DEF UnracedInv, Refusing
  <2>2. (Ended' <=> Ended) /\ (LeftBehind' <=> LeftBehind)
    BY <1>1, <1>2, <1>6 DEF Ended, LeftBehind, Gone
  <2>3. Answered' <= 1 \/ LeftBehind'
    BY <1>6, <2>1, <2>2, AnswerCounts, Kinds DEF TwiceInv, Answered, StateInv
  <2>4. pending => Passed'
    BY <1>2, <2>1, <2>2 DEF TwiceInv, Ended, Passed, Waits
  <2>5. ~In(stack'[t], "dKill") /\ pc'[t] # "dTest"
    BY <1>2, <1>3, NothingIn
  <2> QED
    BY <1>1, <1>4, <2>3, <2>4, <2>5 DEF TwiceInv
<1>7. Answered' = Answered \/ (msg = "disconnect" /\ Answer(msg) /\ conn' = conn)
  BY <1>1, AnswerCounts, Kinds DEF Answered, StateInv
<1> QED
  BY <1>5, <1>6, <1>7

LEMMA DisconnectTwice ==
  ASSUME StateInv, RaceInv, RequestInv, UnracedInv, OnDisconnect \/ OnDisconnectLaunch
  PROVE  UnracedInv'
<1> DEFINE t == "server"
<1>1. /\ UNCHANGED <<raced, closed, msg>> /\ pc[t] = "handle" /\ msg = "disconnect"
  BY DEF OnDisconnect, OnDisconnectLaunch, Handle, At, history, processor
<1>2. /\ Step(t) /\ t \in Thread /\ stack'[t] = <<>> /\ pc'[t] # "pTake" /\ ~Late(t) /\ ~Past(t)'
      /\ pc \in [Thread -> Label]
      /\ \A u \in Thread : (Past(u)' <=> Past(u)) /\ (Late(u)' <=> Late(u))
  BY AtHome DEF Handlers
<1>3. Answered = 0 /\ ~pending
  BY <1>1, Kinds DEF RequestInv, UntouchedInv, Untouched, Answered
<1>4. ~In(stack'[t], "dKill")
  BY <1>2, NothingIn
<1>5. CASE OnDisconnect
  <2>1. /\ pending' = pending /\ pc'[t] \in {"read", "ended", "refuse"}
        /\ \/ answers' = answers /\ (conn' = conn \/ (conn = "reset" /\ conn' = "eof"))
           \/ Answer("disconnect") /\ pc'[t] \in {"read", "ended"}
    BY <1>2, <1>5 DEF OnDisconnect, SendThen, Fails, Goto, Raise, Handler, After, processor
  <2>2. CASE answers' = answers /\ (conn' = conn \/ (conn = "reset" /\ conn' = "eof"))
    BY <1>1, <1>2, <1>3, <2>1, <2>2, TwiceKept DEF Answered
  <2>3. CASE Answer("disconnect") /\ pc'[t] \in {"read", "ended"}
    <3>1. Answered' = 1
      BY <1>3, <2>3, AnswerCounts, Kinds DEF Answered, StateInv
    <3> QED
      BY <1>3, <1>4, <2>1, <2>3, <3>1 DEF UnracedInv, TwiceInv, Refusing
  <2> QED
    BY <2>1, <2>2, <2>3
<1>6. CASE OnDisconnectLaunch
  <2>1. pending' = TRUE /\ answers' = answers /\ pc'[t] = "dTest"
    BY <1>2, <1>6 DEF OnDisconnectLaunch, Goto
  <2> QED
    BY <1>3, <1>4, <2>1 DEF UnracedInv, TwiceInv, Refusing, Answered
<1> QED
  BY <1>5, <1>6

\* A thread outside of close starts one: on the main thread a signal may do so anywhere.
LEMMA BeginTwice ==
  ASSUME StateInv, RaceInv, UnracedInv, Exit \/ Hangup \/ WriterClose \/ KillTest
  PROVE  UnracedInv'
<1>1. UNCHANGED <<raced, closed, pending, answers, msg, conn>>
  BY DEF Exit, Hangup, WriterClose, KillTest, history, processor
<1>2. PICK t \in Thread :
        /\ Step(t) /\ pc'[t] \in {"pTest", "sTest"}
        /\ Late(t) => ~Past(t)'
        /\ pc[t] \in {"pDown", "dTest"} => ~Past(t)'
  <2>1. "main" \in Thread /\ "writer" \in Thread /\ "server" \in Thread /\ Control
    BY DEF Thread, StateInv
  <2>2. CASE Exit
    <3>1. pc["main"] \in {"run", "exiting"}
      BY <2>2 DEF Exit, At
    <3> QED
      BY <2>1, <2>2, <3>1, ExitSteps DEF Late
  <2>3. CASE WriterClose
    <3>1. pc["writer"] = "run"
      BY <2>3 DEF WriterClose, At
    <3> QED
      BY <2>1, <2>3, <3>1, WriterCloseSteps DEF Late
  <2>4. CASE Hangup
    <3>1. pc["main"] # "dTest"
      BY <2>1 DEF Control, StackInv, Shaped, Rest, PLabel, SLabel
    <3>2. Late("main") => ~Past("main")'
      BY <2>1, <2>4, HangupLate
    <3> QED
      BY <2>1, <2>4, <3>1, <3>2, HangupSteps DEF Late
  <2>5. CASE KillTest
    <3>1. /\ Step("server") /\ pc["server"] = "dTest" /\ pc'["server"] = "pTest"
          /\ stack'["server"] = Push("dKill", <<>>)
      BY <2>1, <2>5, KillTestSteps
    <3>2. ~Past("server")'
      <4>1. "dKill" \in Label
        BY DEF Label
      <4> QED
        BY <3>1, <4>1, PushedAlone DEF Past, PastAt
    <3> QED
      BY <2>1, <3>1, <3>2
  <2> QED
    BY <2>2, <2>3, <2>4, <2>5
<1>3. Refusing' => Refusing
  <2>1. \A u \in Thread \ {t} : pc'[u] = pc[u]
    BY <1>2, Onward DEF StateInv
  <2> QED
    BY <1>1, <1>2, <2>1 DEF Refusing, Thread
<1> QED
  BY <1>1, <1>2, <1>3, TwiceKept DEF Answered

LEMMA NextTwice ==
  ASSUME StateInv, RaceInv, RequestInv, UnracedInv, [Next]_vars
  PROVE  UnracedInv'
<1>1. CASE UNCHANGED vars
  BY <1>1, TwiceStands DEF vars, Standing, control, processor, socket, history
<1>2. CASE \E t \in Thread : CloseStep(t)
  BY <1>2, CloseTwice
<1>3. CASE Exit \/ Hangup \/ WriterClose \/ KillTest
  BY <1>3, BeginTwice
<1>4. CASE Refuse
  BY <1>4, RefuseTwice
<1>5. CASE OnDisconnect \/ OnDisconnectLaunch
  BY <1>5, DisconnectTwice
<1>6. CASE Handlers /\ ~Refuse /\ ~OnDisconnect /\ ~OnDisconnectLaunch
  BY <1>6, HandlerTwice
<1>7. CASE EndOfProcess
  BY <1>7, TwiceStands DEF EndOfProcess, Standing, control, processor, socket, history
<1>8. ASSUME NEW k \in Requests, ClientRequest(k) PROVE UnracedInv'
  BY <1>8, TwiceStands DEF ClientRequest, Standing, control, processor, socket, history
<1>9. CASE ClientLeaves
  <2>1. conn = "open" /\ conn' # "closed"
    BY <1>9, LeavesAssumption DEF ClientLeaves
  <2> QED
    BY <1>9, <2>1, TwiceStands DEF ClientLeaves, Standing, control, processor, socket, history
<1> QED
  BY <1>1, <1>2, <1>3, <1>4, <1>5, <1>6, <1>7, <1>8, <1>9 DEF Next, ServerStep, Handlers

\* No request is answered twice while the client is there, whichever of the threads that
\* close and of the handlers answer it; only a configurationDone that fails after its
\* answer is.
THEOREM RequestsAnsweredOnce == Spec => []AnsweredOnce
<1> DEFINE Inv == StateInv /\ RaceInv /\ RequestInv /\ UnracedInv
<1>1. Init => Inv
  <2> SUFFICES ASSUME Init PROVE RaceInv /\ UnracedInv
    BY InitControl, InitRequests DEF StateInv
  <2>1. \A t \in Thread : ~Past(t) /\ ~Early(t) /\ pc[t] # "pTerminated"
    BY NothingIn DEF Init, Past, PastAt, Early, EarlyAt
  <2>2. RaceInv
    BY <2>1 DEF Init, RaceInv, Alone
  <2>3. Answered = 0 /\ ~pending /\ ~Refusing /\ pc["server"] = "read" /\ stack["server"] = <<>>
    BY Kinds DEF Init, Answered, Refusing, Thread
  <2>4. UnracedInv
    BY <2>3, NothingIn DEF UnracedInv, TwiceInv
  <2> QED
    BY <2>2, <2>4
<1>2. Inv /\ [Next]_vars => Inv'
  BY NextState, NextRace, NextRequests, NextTwice DEF StateInv
<1>3. Inv => AnsweredOnce
  <2> SUFFICES ASSUME Inv, ~raced, conn \in {"open", "closed"}, NEW k \in Requests
               PROVE  answers[k] <= IF k = "config" THEN 2 ELSE 1
    BY DEF AnsweredOnce
  <2>1. k \in Kind /\ answers[k] \in 0..2
    BY RequestsAssumption DEF StateInv, DataInv
  <2>2. CASE k = "config"
    BY <2>1, <2>2
  <2>3. CASE k \in {"pause", "unknown"}
    BY <2>3 DEF RequestInv, OnceInv
  <2>4. CASE k = "disconnect"
    BY <2>4 DEF UnracedInv, TwiceInv, LeftBehind, Gone, Answered
  <2> QED
    BY <2>1, <2>2, <2>3, <2>4 DEF Kind
<1> HIDE DEF Inv
<1> QED
  BY <1>1, <1>2, <1>3, PTL DEF Spec
=============================================================================
