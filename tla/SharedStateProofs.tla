--------------------------- MODULE SharedStateProofs ---------------------------
(***************************************************************************)
(* Proofs about the two data structures that the threads of ptvsd share:   *)
(* the queue of the event loop (EventLoop: types, no lost wake-up, the     *)
(* refinement of Executor) and the map of ids (IDMap: types, what an id    *)
(* means while threads add and remove), for every set of functions,        *)
(* threads and entities and every bound.  IDMap's names begin with Map.    *)
(***************************************************************************)
EXTENDS EventLoop, IDMap, SequenceTheorems, TLAPS

\* A batch is never replaced before it has been drained: what Swap took off the
\* shared queue is run to the end before the loop waits, tests stop or leaves.
\* The refinement needs it: Swap moves the queue behind an empty batch.
BatchDrained == pc \notin {"run", "call"} => batch = <<>>

IInv == TypeOK /\ NoLostWakeup /\ BatchDrained

\* The initial state of run_forever satisfies the inductive invariant.
LEMMA InitIInv == Init => IInv
<1> SUFFICES ASSUME Init PROVE IInv
    OBVIOUS
<1>1. queue \in Seq(Fn) /\ batch \in Seq(Fn)
  BY EmptySeq DEF Init
<1>2. TypeOK
  BY <1>1 DEF Init, TypeOK, LoopPc
<1> QED
  BY <1>2 DEF Init, IInv, NoLostWakeup, BatchDrained

\* Every step of a caller and of the loop thread preserves the inductive invariant.
LEMMA NextIInv == IInv /\ [Next]_vars => IInv'
<1> SUFFICES ASSUME IInv, [Next]_vars PROVE IInv'
    OBVIOUS
<1> USE NoFnAssumption DEF IInv, TypeOK, NoLostWakeup, BatchDrained, LoopPc
<1>1. ASSUME NEW f \in Fn, Post(f) PROVE IInv'
  BY <1>1 DEF Post, CallSoon
<1>2. CASE Stop
  BY <1>2 DEF Stop
<1>3. CASE TestStop
  BY <1>3 DEF TestStop
<1>4. CASE WaitWakes
  BY <1>4 DEF WaitWakes
<1>5. CASE WaitTimesOut
  BY <1>5 DEF WaitTimesOut
<1>6. CASE Swap
  BY <1>6 DEF Swap
<1>7. CASE StartFn
  BY <1>7, HeadTailProperties DEF StartFn
<1>8. CASE EndFn
  BY <1>8 DEF EndFn
<1>9. CASE BatchDone
  BY <1>9 DEF BatchDone
<1>10. CASE UNCHANGED vars
  BY <1>10 DEF vars
<1> QED
  BY <1>1, <1>2, <1>3, <1>4, <1>5, <1>6, <1>7, <1>8, <1>9, <1>10 DEF Next, LoopStep

\* The inductive invariant holds in every reachable state.
LEMMA Invariance == Spec => []IInv
  BY InitIInv, NextIInv, PTL DEF Spec

\* Queue, batch and current keep their types, and the loop thread is inside a
\* queued function exactly when run_forever is at its call.
THEOREM TypeCorrect == Spec => []TypeOK
<1>1. IInv => TypeOK
  BY DEF IInv
<1> QED
  BY <1>1, Invariance, PTL

\* No wake-up of call_soon is lost between the swap and the clearing of the event.
THEOREM WakeupKept == Spec => []NoLostWakeup
<1>1. IInv => NoLostWakeup
  BY DEF IInv
<1> QED
  BY <1>1, Invariance, PTL

-----------------------------------------------------------------------------
\* The abstract queue, batch \o queue, under the two operations that move it:
\* an append at the back, a removal at the front.
LEMMA PendingAppend ==
  ASSUME NEW b \in Seq(Fn), NEW q \in Seq(Fn), NEW f \in Fn
  PROVE  b \o Append(q, f) = Append(b \o q, f)
<1>1. /\ Append(q, f) = q \o <<f>>
      /\ Append(b \o q, f) = (b \o q) \o <<f>>
  BY AppendIsConcat, ConcatProperties
<1>2. b \o (q \o <<f>>) = (b \o q) \o <<f>>
  BY ConcatAssociative
<1> QED
  BY <1>1, <1>2

LEMMA PendingHeadTail ==
  ASSUME NEW b \in Seq(Fn), NEW q \in Seq(Fn), b # <<>>
  PROVE  /\ b \o q # <<>>
         /\ Head(b \o q) = Head(b)
         /\ Tail(b \o q) = Tail(b) \o q
<1>1. /\ b \o q \in Seq(Fn)
      /\ Len(b \o q) = Len(b) + Len(q)
      /\ Len(b) \in Nat \ {0}
      /\ Len(q) \in Nat
  BY ConcatProperties, EmptySeq, LenProperties
<1>2. b \o q # <<>>
  BY <1>1, EmptySeq, ConcatEqualIffEmpty, ConcatEmptySeq
<1>3. Head(b \o q) = Head(b)
  BY <1>1, <1>2, ConcatProperties
<1>4. Tail(b \o q) = Tail(b) \o q
  BY <1>1, <1>2, ConcatProperties, HeadTailProperties, SeqEqual
<1> QED
  BY <1>2, <1>3, <1>4

\* Every step of the loop and of its callers is a step of Executor or a stutter.
LEMMA StepRefines == IInv /\ [Next]_vars => [Abstract!Next]_Abstract!vars
<1> SUFFICES ASSUME IInv, [Next]_vars
             PROVE  [Abstract!Next]_Abstract!vars
    OBVIOUS
<1> USE NoFnAssumption DEF IInv, TypeOK, BatchDrained, Abstract!vars
<1>1. ASSUME NEW f \in Fn, Post(f) PROVE Abstract!Submit(f)
  BY <1>1, PendingAppend DEF Post, CallSoon, Abstract!Submit
<1>2. CASE Stop
  BY <1>2 DEF Stop, Abstract!Next, Abstract!RequestStop
<1>3. CASE TestStop
  BY <1>3 DEF TestStop, Abstract!Next, Abstract!Halt
<1>4. CASE WaitWakes
  BY <1>4 DEF WaitWakes
<1>5. CASE WaitTimesOut
  BY <1>5 DEF WaitTimesOut
<1>6. CASE Swap
  BY <1>6, ConcatEmptySeq DEF Swap
<1>7. CASE StartFn
  BY <1>7, PendingHeadTail DEF StartFn, Abstract!Next, Abstract!Begin
<1>8. CASE EndFn
  BY <1>8 DEF EndFn, Abstract!Next, Abstract!End
<1>9. CASE BatchDone
  BY <1>9 DEF BatchDone
<1>10. CASE UNCHANGED vars
  BY <1>10 DEF vars
<1> QED
  BY <1>1, <1>2, <1>3, <1>4, <1>5, <1>6, <1>7, <1>8, <1>9, <1>10
     DEF Next, LoopStep, Abstract!Next

\* The event loop implements Executor: functions are called in posting order, one
\* at a time, once per posting, and none after run_forever has returned.
THEOREM Refinement == Spec => ImplementsExecutor
<1>1. Init => Abstract!Init
  BY ConcatEmptySeq DEF Init, Abstract!Init
<1> QED
  BY <1>1, StepRefines, Invariance, PTL DEF Spec, ImplementsExecutor, Abstract!Safe

-----------------------------------------------------------------------------
\* Every id given out is below the counter, and a live id denotes what it was
\* given for.
IdsBelowCounter ==
  /\ \A g \in given : g[2] < nextId
  /\ \A v \in DOMAIN toPydevd : v < nextId

\* Between the two assignments of add, the forward entry of the entity exists
\* and the last id given out is its id.
HalfAdded ==
  adding # NoThread =>
    /\ removing = {}
    /\ nextId - 1 \in DOMAIN toPydevd
    /\ toPydevd[nextId - 1] = missed[adding]

\* Between the two dels of remove, the pair is gone from the forward dictionary and
\* its entity still in the reverse one, under that id unless it was added twice.
HalfRemoved ==
  /\ \A r, s \in removing : r = s
  /\ \A r \in removing :
       /\ r[2] \notin DOMAIN toPydevd
       /\ r[1] \in DOMAIN toVscode
       /\ r[1] \in contended \/ toVscode[r[1]] = r[2]
       /\ \A d \in doomed : d[1] # r[1]

\* What the remover has read is still there in both directions when its turn
\* comes: nobody else removes, and its snapshot holds an entity once.
DoomedPresent ==
  /\ doomed \subseteq given
  /\ \A d \in doomed : d[2] \in DOMAIN toPydevd /\ d[1] \in DOMAIN toVscode
  /\ \A d, e \in doomed : d[1] = e[1] => d = e

\* A to_vscode that has missed p finds p still absent unless somebody else added
\* it meanwhile, which marks p as contended.
MissedAbsent ==
  \A t \in Thread :
    missed[t] # NoEntity /\ missed[t] \notin contended => missed[t] \notin DOMAIN toVscode

MapIInv ==
  /\ MapTypeOK
  /\ IdsBelowCounter
  /\ NeverReassigned
  /\ HalfAdded
  /\ HalfRemoved
  /\ LookupConsistent
  /\ DoomedPresent
  /\ MissedAbsent
  /\ OneIdUnlessContended
  /\ RemoveNeverRaises

\* The empty map satisfies the inductive invariant.
LEMMA MapInitIInv == MapInit => MapIInv
<1> SUFFICES ASSUME MapInit PROVE MapIInv
    OBVIOUS
<1>1. IsDict(toPydevd, Id, Entity) /\ IsDict(toVscode, Entity, Id)
  BY DEF MapInit, IsDict
<1>2. nextId \in 1..(MaxId + 1)
  BY MaxIdAssumption DEF MapInit
<1>3. missed \in [Thread -> Entity \cup {NoEntity}]
  BY DEF MapInit
<1>4. /\ doomed = {} /\ adding = NoThread /\ removing = {}
      /\ given = {} /\ contended = {} /\ raised = FALSE
  BY DEF MapInit
<1>5. MapTypeOK
  BY <1>1, <1>2, <1>3, <1>4 DEF MapTypeOK
<1> QED
  BY <1>5 DEF MapInit, MapIInv, IdsBelowCounter, NeverReassigned, HalfAdded, HalfRemoved,
     LookupConsistent, DoomedPresent, MissedAbsent, OneIdUnlessContended, RemoveNeverRaises

\* A look-up that misses only remembers an entity that is absent; the thread in the
\* middle of add is another one, which is not free.
LEMMA MissIInv ==
  ASSUME MapIInv, NEW t \in Thread, NEW p \in Entity, Miss(t, p)
  PROVE  MapIInv'
<1>1. /\ missed' = [missed EXCEPT ![t] = p]
      /\ UNCHANGED <<toPydevd, toVscode, nextId, doomed, adding, removing,
                     given, contended, raised>>
      /\ missed[t] = NoEntity
      /\ p \notin DOMAIN toVscode
      /\ p # NoEntity
  BY EntityAssumption DEF Miss, Free
<1>2. adding # NoThread => adding # t /\ missed'[adding] = missed[adding]
  BY <1>1 DEF MapIInv, MapTypeOK
<1>3. MapTypeOK'
  BY <1>1, <1>2 DEF MapIInv, MapTypeOK
<1>4. HalfAdded'
  BY <1>1, <1>2 DEF MapIInv, HalfAdded
<1>5. MissedAbsent'
  BY <1>1 DEF MapIInv, MissedAbsent, MapTypeOK
<1> QED
  BY <1>1, <1>3, <1>4, <1>5 DEF MapIInv, IdsBelowCounter, NeverReassigned, HalfRemoved,
     LookupConsistent, DoomedPresent, OneIdUnlessContended, RemoveNeverRaises

\* The first assignment of add: a fresh id, which to_vscode does not return yet.
LEMMA AddForwardIInv ==
  ASSUME MapIInv, NEW t \in Thread, AddForward(t)
  PROVE  MapIInv'
<1> DEFINE p == missed[t]
           v == nextId
<1>1. /\ p \in Entity
      /\ p # NoEntity
      /\ v \in Id
      /\ toPydevd' = Put(toPydevd, v, p)
      /\ given' = given \cup {<<p, v>>}
      /\ nextId' = v + 1
      /\ adding' = t
      /\ removing = {} /\ adding = NoThread
      /\ UNCHANGED <<toVscode, missed, doomed, removing, contended, raised>>
  BY MaxIdAssumption, EntityAssumption DEF AddForward, LockFree, MapIInv, MapTypeOK, Id
<1>2. /\ IsDict(toPydevd', Id, Entity)
      /\ DOMAIN toPydevd' = DOMAIN toPydevd \cup {v}
      /\ toPydevd'[v] = p
      /\ \A x \in DOMAIN toPydevd : x # v => toPydevd'[x] = toPydevd[x]
  <2>1. IsDict(toPydevd, Id, Entity)
    BY DEF MapIInv, MapTypeOK
  <2>2. v \in Id /\ p \in Entity /\ toPydevd' = Put(toPydevd, v, p)
    BY <1>1
  <2> HIDE DEF p, v
  <2> QED
    BY <2>1, <2>2 DEF IsDict, Put
<1>3. v \notin DOMAIN toPydevd /\ \A g \in given : g[2] # v
  BY DEF MapIInv, IdsBelowCounter, MapTypeOK, Id, IsDict
<1>4. v \in Nat /\ v > 0 /\ v + 1 - 1 = v
  BY <1>1, MaxIdAssumption DEF Id
<1>5. MapTypeOK'
  BY <1>1, <1>2, <1>4, MaxIdAssumption DEF MapIInv, MapTypeOK, Id
<1>6. IdsBelowCounter'
  BY <1>1, <1>2 DEF MapIInv, IdsBelowCounter, MapTypeOK, Id, IsDict
<1>7. NeverReassigned'
  BY <1>1, <1>2, <1>3 DEF MapIInv, NeverReassigned
<1>8. HalfAdded' /\ HalfRemoved'
  BY <1>1, <1>2, <1>4 DEF HalfAdded, HalfRemoved
<1>9. LookupConsistent'
  BY <1>1, <1>2, <1>3 DEF MapIInv, LookupConsistent
<1>10. DoomedPresent'
  BY <1>1, <1>2 DEF MapIInv, DoomedPresent
<1>11. OneIdUnlessContended'
  BY <1>1, <1>2, <1>4, ThreadAssumption DEF MapIInv, OneIdUnlessContended
<1> QED
  BY <1>1, <1>5, <1>6, <1>7, <1>8, <1>9, <1>10, <1>11
     DEF MapIInv, MissedAbsent, RemoveNeverRaises

\* The second assignment of add: the id becomes the entity's id.
LEMMA AddReverseIInv ==
  ASSUME MapIInv, AddReverse
  PROVE  MapIInv'
<1> DEFINE t == adding
           p == missed[adding]
           v == nextId - 1
<1>1. /\ t \in Thread /\ t # NoThread
      /\ p \in Entity
      /\ v \in Id
      /\ toVscode' = Put(toVscode, p, v)
      /\ missed' = [missed EXCEPT ![t] = NoEntity]
      /\ adding' = NoThread
      /\ UNCHANGED <<toPydevd, nextId, doomed, removing, given, raised>>
  <2>1. nextId \in Nat /\ nextId > 1 /\ nextId <= MaxId + 1 /\ MaxId \in Nat
    BY MaxIdAssumption DEF AddReverse, MapIInv, MapTypeOK
  <2> QED
    BY <2>1, EntityAssumption DEF AddReverse, MapIInv, MapTypeOK, Id
<1>2. /\ contended \subseteq contended'
      /\ contended' \subseteq contended \cup {p}
      /\ (\E u \in Thread \ {t} : missed[u] = p) => p \in contended'
  BY DEF AddReverse
<1>3. removing = {} /\ v \in DOMAIN toPydevd /\ toPydevd[v] = p
  BY <1>1 DEF MapIInv, HalfAdded
<1>4. /\ IsDict(toVscode', Entity, Id)
      /\ DOMAIN toVscode' = DOMAIN toVscode \cup {p}
      /\ toVscode'[p] = v
      /\ \A x \in DOMAIN toVscode : x # p => toVscode'[x] = toVscode[x]
  <2>1. IsDict(toVscode, Entity, Id)
    BY DEF MapIInv, MapTypeOK
  <2>2. p \in Entity /\ v \in Id /\ toVscode' = Put(toVscode, p, v)
    BY <1>1
  <2> HIDE DEF p, v
  <2> QED
    BY <2>1, <2>2 DEF IsDict, Put
<1>5. MapTypeOK'
  BY <1>1, <1>2, <1>4 DEF MapIInv, MapTypeOK
<1>6. IdsBelowCounter' /\ NeverReassigned' /\ RemoveNeverRaises'
  BY <1>1 DEF MapIInv, IdsBelowCounter, NeverReassigned, RemoveNeverRaises
<1>7. HalfAdded' /\ HalfRemoved'
  BY <1>1, <1>3 DEF HalfAdded, HalfRemoved
<1>8. LookupConsistent'
  BY <1>1, <1>3, <1>4 DEF MapIInv, LookupConsistent
<1>9. DoomedPresent'
  BY <1>1, <1>4 DEF MapIInv, DoomedPresent
<1>10. MissedAbsent'
  <2> SUFFICES ASSUME NEW u \in Thread, missed'[u] # NoEntity, missed'[u] \notin contended'
               PROVE  missed'[u] \notin DOMAIN toVscode'
    BY DEF MissedAbsent
  <2>1. u # t /\ missed'[u] = missed[u]
    BY <1>1 DEF MapIInv, MapTypeOK
  <2>2. missed[u] # p
    BY <2>1, <1>2
  <2> QED
    BY <2>1, <2>2, <1>2, <1>4 DEF MapIInv, MissedAbsent
<1>11. OneIdUnlessContended'
  <2> SUFFICES ASSUME NEW w \in DOMAIN toPydevd, toPydevd[w] \notin contended'
               PROVE  toPydevd[w] \in DOMAIN toVscode' /\ toVscode'[toPydevd[w]] = w
    BY <1>1 DEF OneIdUnlessContended
  <2>1. CASE w = v
    BY <2>1, <1>3, <1>4
  <2>2. CASE w # v
    <3>1. /\ toPydevd[w] \notin contended
          /\ toPydevd[w] \in DOMAIN toVscode
          /\ toVscode[toPydevd[w]] = w
      BY <2>2, <1>2 DEF MapIInv, OneIdUnlessContended
    <3>2. toPydevd[w] # p
      BY <3>1, <1>1, EntityAssumption DEF MapIInv, MissedAbsent
    <3> QED
      BY <3>1, <3>2, <1>4
  <2> QED
    BY <2>1, <2>2
<1> QED
  BY <1>5, <1>6, <1>7, <1>8, <1>9, <1>10, <1>11 DEF MapIInv

\* The snapshot of the remover holds live pairs, one per entity.
LEMMA SnapshotIInv ==
  ASSUME MapIInv, NEW S \in SUBSET Entity, Snapshot(S)
  PROVE  MapIInv'
<1> USE DEF MapIInv, Snapshot, LockFree
<1>1. MapTypeOK'
  BY DEF MapTypeOK, IsDict
<1>2. DoomedPresent'
  BY DEF DoomedPresent, LookupConsistent, NeverReassigned
<1> QED
  BY <1>1, <1>2 DEF IdsBelowCounter, NeverReassigned, HalfAdded, HalfRemoved,
     LookupConsistent, MissedAbsent, OneIdUnlessContended, RemoveNeverRaises

\* So does the single pair looked up without the lock: the remover itself is not
\* in the middle of a removal.
LEMMA LookUpOneIInv ==
  ASSUME MapIInv, NEW p \in Entity, LookUpOne(p)
  PROVE  MapIInv'
<1>1. /\ removing = {}
      /\ p \in DOMAIN toVscode
      /\ doomed' = {<<p, toVscode[p]>>}
      /\ UNCHANGED <<toPydevd, toVscode, nextId, missed, adding, removing,
                     given, contended, raised>>
  BY DEF LookUpOne, Free
<1>2. toVscode[p] \in DOMAIN toPydevd /\ toPydevd[toVscode[p]] = p /\ toVscode[p] \in Id
  BY <1>1 DEF MapIInv, LookupConsistent, MapTypeOK, IsDict
<1>3. <<p, toVscode[p]>> \in given
  BY <1>2 DEF MapIInv, NeverReassigned
<1>4. MapTypeOK'
  BY <1>1, <1>2 DEF MapIInv, MapTypeOK
<1>5. DoomedPresent'
  BY <1>1, <1>2, <1>3 DEF DoomedPresent
<1> QED
  BY <1>1, <1>4, <1>5 DEF MapIInv, IdsBelowCounter, NeverReassigned, HalfAdded, HalfRemoved,
     LookupConsistent, MissedAbsent, OneIdUnlessContended, RemoveNeverRaises

\* The first del takes a live pair out of the forward dictionary.
LEMMA RemoveForwardIInv ==
  ASSUME MapIInv, NEW pair \in doomed, RemoveForward(pair)
  PROVE  MapIInv'
<1> DEFINE p == pair[1]
           v == pair[2]
<1>1. /\ p \in Entity /\ v \in Id /\ pair = <<p, v>> /\ pair \in given
      /\ v \in DOMAIN toPydevd /\ p \in DOMAIN toVscode
  BY DEF MapIInv, MapTypeOK, DoomedPresent
<1>2. /\ toPydevd' = Del(toPydevd, v)
      /\ doomed' = doomed \ {pair}
      /\ removing' = {pair}
      /\ removing = {} /\ adding = NoThread
      /\ UNCHANGED <<toVscode, nextId, missed, adding, given, contended, raised>>
  BY <1>1 DEF RemoveForward, LockFree
<1>3. /\ IsDict(toPydevd', Id, Entity)
      /\ DOMAIN toPydevd' = DOMAIN toPydevd \ {v}
      /\ \A x \in DOMAIN toPydevd : x # v => toPydevd'[x] = toPydevd[x]
  <2>1. IsDict(toPydevd, Id, Entity)
    BY DEF MapIInv, MapTypeOK
  <2>2. v \in Id /\ toPydevd' = Del(toPydevd, v)
    BY <1>1, <1>2
  <2> HIDE DEF p, v
  <2> QED
    BY <2>1, <2>2 DEF IsDict, Del, Restrict
<1>4. toPydevd[v] = p
  <2>1. <<toPydevd[v], v>> \in given /\ pair[2] = v
    BY <1>1 DEF MapIInv, NeverReassigned
  <2>2. <<toPydevd[v], v>> = pair
    BY <1>1, <2>1 DEF MapIInv, NeverReassigned
  <2> QED
    BY <1>1, <2>2
<1>5. MapTypeOK'
  BY <1>1, <1>2, <1>3 DEF MapIInv, MapTypeOK
<1>6. IdsBelowCounter' /\ NeverReassigned' /\ RemoveNeverRaises' /\ MissedAbsent'
  BY <1>2, <1>3 DEF MapIInv, IdsBelowCounter, NeverReassigned, RemoveNeverRaises, MissedAbsent
<1>7. HalfAdded'
  BY <1>2 DEF HalfAdded
<1>8. HalfRemoved'
  <2>1. p \in contended \/ toVscode[p] = v
    BY <1>1, <1>2, <1>4 DEF MapIInv, OneIdUnlessContended
  <2>2. \A d \in doomed \ {pair} : d[1] # p
    BY DEF MapIInv, DoomedPresent
  <2> QED
    BY <2>1, <2>2, <1>1, <1>2, <1>3 DEF HalfRemoved
<1>9. LookupConsistent'
  <2> SUFFICES ASSUME NEW q \in DOMAIN toVscode
               PROVE  \/ toVscode[q] \in DOMAIN toPydevd' /\ toPydevd'[toVscode[q]] = q
                      \/ toVscode[q] \notin DOMAIN toPydevd' /\ <<q, toVscode[q]>> \in removing'
    BY <1>2 DEF LookupConsistent
  <2>1. toVscode[q] \in DOMAIN toPydevd /\ toPydevd[toVscode[q]] = q
    BY <1>2 DEF MapIInv, LookupConsistent
  <2>2. CASE toVscode[q] = v
    BY <2>1, <2>2, <1>1, <1>2, <1>3, <1>4
  <2>3. CASE toVscode[q] # v
    BY <2>1, <2>3, <1>3
  <2> QED
    BY <2>2, <2>3
<1>10. DoomedPresent'
  <2>1. ASSUME NEW d \in doomed'
        PROVE  d[2] \in DOMAIN toPydevd' /\ d[1] \in DOMAIN toVscode'
    <3>1. d \in doomed /\ d # pair /\ d \in given
      BY <1>2 DEF MapIInv, DoomedPresent
    <3>2. d[2] # v
      BY <3>1, <1>1 DEF MapIInv, NeverReassigned
    <3> QED
      BY <3>1, <3>2, <1>2, <1>3 DEF MapIInv, DoomedPresent
  <2> QED
    BY <2>1, <1>2 DEF MapIInv, DoomedPresent
<1>11. OneIdUnlessContended'
  BY <1>2, <1>3 DEF MapIInv, OneIdUnlessContended
<1> QED
  BY <1>5, <1>6, <1>7, <1>8, <1>9, <1>10, <1>11 DEF MapIInv

\* The second del takes the entity out of the reverse dictionary.
LEMMA RemoveReverseIInv ==
  ASSUME MapIInv, NEW pair \in removing, RemoveReverse(pair)
  PROVE  MapIInv'
<1> DEFINE p == pair[1]
           v == pair[2]
<1>1. /\ p \in Entity /\ v \in Id /\ pair = <<p, v>>
      /\ p \in DOMAIN toVscode
      /\ v \notin DOMAIN toPydevd
      /\ removing = {pair}
      /\ adding = NoThread
      /\ \A d \in doomed : d[1] # p
      /\ p \in contended \/ toVscode[p] = v
  BY DEF MapIInv, MapTypeOK, HalfRemoved, HalfAdded
<1>2. /\ toVscode' = Del(toVscode, p)
      /\ removing' = {}
      /\ raised' = FALSE
      /\ UNCHANGED <<toPydevd, nextId, missed, doomed, adding, given, contended>>
  BY <1>1 DEF RemoveReverse, MapIInv, MapTypeOK, RemoveNeverRaises
<1>3. /\ IsDict(toVscode', Entity, Id)
      /\ DOMAIN toVscode' = DOMAIN toVscode \ {p}
      /\ \A x \in DOMAIN toVscode : x # p => toVscode'[x] = toVscode[x]
  <2>1. IsDict(toVscode, Entity, Id)
    BY DEF MapIInv, MapTypeOK
  <2>2. p \in Entity /\ toVscode' = Del(toVscode, p)
    BY <1>1, <1>2
  <2> HIDE DEF p, v
  <2> QED
    BY <2>1, <2>2 DEF IsDict, Del, Restrict
<1>4. MapTypeOK'
  BY <1>1, <1>2, <1>3 DEF MapIInv, MapTypeOK
<1>5. IdsBelowCounter' /\ NeverReassigned' /\ RemoveNeverRaises'
  BY <1>2 DEF MapIInv, IdsBelowCounter, NeverReassigned, RemoveNeverRaises
<1>6. HalfAdded' /\ HalfRemoved'
  BY <1>1, <1>2 DEF HalfAdded, HalfRemoved
<1>7. LookupConsistent'
  BY <1>1, <1>2, <1>3 DEF MapIInv, LookupConsistent
<1>8. DoomedPresent'
  BY <1>1, <1>2, <1>3 DEF MapIInv, DoomedPresent
<1>9. MissedAbsent'
  BY <1>2, <1>3 DEF MapIInv, MissedAbsent
<1>10. OneIdUnlessContended'
  <2> SUFFICES ASSUME NEW w \in DOMAIN toPydevd, toPydevd[w] \notin contended
               PROVE  toPydevd[w] \in DOMAIN toVscode' /\ toVscode'[toPydevd[w]] = w
    BY <1>2 DEF OneIdUnlessContended
  <2>1. toPydevd[w] \in DOMAIN toVscode /\ toVscode[toPydevd[w]] = w
    BY <1>1 DEF MapIInv, OneIdUnlessContended
  <2>2. toPydevd[w] # p
    BY <2>1, <1>1
  <2> QED
    BY <2>1, <2>2, <1>3
<1> QED
  BY <1>4, <1>5, <1>6, <1>7, <1>8, <1>9, <1>10 DEF MapIInv

\* Every step of a user of the map preserves the inductive invariant.
LEMMA MapNextIInv == MapIInv /\ [MapNext]_mapVars => MapIInv'
<1> SUFFICES ASSUME MapIInv, [MapNext]_mapVars PROVE MapIInv'
    OBVIOUS
<1>1. CASE UNCHANGED mapVars
  BY <1>1 DEF mapVars, MapIInv, MapTypeOK, IdsBelowCounter, NeverReassigned,
     HalfAdded, HalfRemoved, LookupConsistent, DoomedPresent, MissedAbsent,
     OneIdUnlessContended, RemoveNeverRaises
<1> QED
  BY <1>1, MissIInv, AddForwardIInv, AddReverseIInv, SnapshotIInv, LookUpOneIInv,
     RemoveForwardIInv, RemoveReverseIInv DEF MapNext

LEMMA MapInvariance == MapSpec => []MapIInv
  BY MapInitIInv, MapNextIInv, PTL DEF MapSpec

\* The dictionaries, the counter and the pending operations keep their types.
THEOREM MapTypeCorrect == MapSpec => []MapTypeOK
<1>1. MapIInv => MapTypeOK
  BY DEF MapIInv
<1> QED
  BY <1>1, MapInvariance, PTL

\* An id is given out for one entity only and denotes it as long as it is live.
THEOREM IdsNeverReassigned == MapSpec => []NeverReassigned
<1>1. MapIInv => NeverReassigned
  BY DEF MapIInv
<1> QED
  BY <1>1, MapInvariance, PTL

\* to_pydevd inverts to_vscode on every entity that has an id, except on the one id
\* that remove is in the middle of deleting: there it raises KeyError.
THEOREM LookupsAreConsistent == MapSpec => []LookupConsistent
<1>1. MapIInv => LookupConsistent
  BY DEF MapIInv
<1> QED
  BY <1>1, MapInvariance, PTL

\* Two live ids of one entity presuppose overlapping to_vscode calls.
THEOREM OneIdWithoutContention == MapSpec => []OneIdUnlessContended
<1>1. MapIInv => OneIdUnlessContended
  BY DEF MapIInv
<1> QED
  BY <1>1, MapInvariance, PTL

\* remove does not raise KeyError in the thread that alone removes.
THEOREM RemoverNeverFails == MapSpec => []RemoveNeverRaises
<1>1. MapIInv => RemoveNeverRaises
  BY DEF MapIInv
<1> QED
  BY <1>1, MapInvariance, PTL
=============================================================================
