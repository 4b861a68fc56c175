---------------------------- MODULE FuturesProofs ----------------------------
(***************************************************************************)
(* Proofs about Futures for any futures, callbacks and threads: the types, *)
(* and that a callback is called at most once, only after its future is    *)
(* resolved, and not after it was taken back in time.                      *)
(***************************************************************************)
EXTENDS Futures, SequenceTheorems, TLAPS

\* The callback c in a list of callbacks, and in the lists of a queue of closures.
Has(q, c) == \E i \in DOMAIN q : q[i] = c
Single(q, c) == \A i, j \in DOMAIN q : q[i] = c /\ q[j] = c => i = j
HasIn(q, c) == \E i \in DOMAIN q : Has(q[i].cbs, c)
OnceIn(q, c) ==
  /\ \A i \in DOMAIN q : Single(q[i].cbs, c)
  /\ \A i, j \in DOMAIN q : Has(q[i].cbs, c) /\ Has(q[j].cbs, c) => i = j

\* The places from which a callback may yet be called.
InOp(c)    == \E t \in Thread : Has(op[t].cbs, c)
InQueue(c) == HasIn(queue, c)
InBatch(c) == HasIn(batch, c)
InTodo(c)  == Has(todo, c)
Due(c)     == InOp(c) \/ InQueue(c) \/ InBatch(c) \/ InTodo(c)

\* A callback is due in one place only ...
OnePlace(c) ==
  /\ InOp(c) => ~InQueue(c) /\ ~InBatch(c) /\ ~InTodo(c)
  /\ InQueue(c) => ~InBatch(c) /\ ~InTodo(c)
  /\ InBatch(c) => ~InTodo(c)

\* ... and there only once.
Once(c) ==
  /\ \A t \in Thread : Single(op[t].cbs, c)
  /\ \A s, t \in Thread : Has(op[s].cbs, c) /\ Has(op[t].cbs, c) => s = t
  /\ OnceIn(queue, c)
  /\ OnceIn(batch, c)
  /\ Single(todo, c)

Resolved(c) == owner[c] # None /\ outcome[owner[c]] # "pending"

\* A callback that is due has not been called, and its future is resolved.
DueInv(c) == Due(c) => calls[c] = 0 /\ Resolved(c) /\ c \notin removed

\* A callback is listed once, at the future it was registered with.
ListedInv(c) ==
  \A f \in Future : /\ Single(callbacks[f], c)
                    /\ Has(callbacks[f], c) => owner[c] = f /\ c \notin removed

CallInv(c) ==
  /\ calls[c] <= 1
  /\ calls[c] > 0 => Resolved(c)
  /\ c \in removed => calls[c] = 0 /\ owner[c] # None

CallbackInv(c) == OnePlace(c) /\ Once(c) /\ DueInv(c) /\ ListedInv(c) /\ CallInv(c)

\* The inline path has the one callback it registered; a batch and a snapshot are worked
\* off before the loop goes on.
OpShape == \A t \in Thread : op[t].do = "inline" => \E c \in Callback : op[t].cbs = <<c>>
Drained ==
  /\ pc # "call" => todo = <<>>
  /\ pc \notin {"run", "call"} => batch = <<>>

IInv == TypeOK /\ OpShape /\ Drained /\ \A c \in Callback : CallbackInv(c)

-----------------------------------------------------------------------------
\* Lists of callbacks: empty, of one element, appended to, without their head.
LEMMA EmptyList ==
  ASSUME NEW S, NEW c
  PROVE  <<>> \in Seq(S) /\ ~Has(<<>>, c) /\ Single(<<>>, c)
<1>1. <<>> \in Seq(S)
  BY EmptySeq
<1> QED
  BY <1>1 DEF Has, Single

LEMMA UnitList ==
  ASSUME NEW S, NEW e \in S, NEW c
  PROVE  <<e>> \in Seq(S) /\ (Has(<<e>>, c) <=> c = e) /\ Single(<<e>>, c)
  BY DEF Has, Single

\* The positions of a list after an append, and after its head is taken.
LEMMA AppendPositions ==
  ASSUME NEW S, NEW q \in Seq(S), NEW e \in S
  PROVE  /\ Append(q, e) \in Seq(S)
         /\ \A i \in DOMAIN Append(q, e) :
              \/ i \in DOMAIN q /\ Append(q, e)[i] = q[i]
              \/ i = Len(q) + 1 /\ Append(q, e)[i] = e
         /\ \A i \in DOMAIN q : i \in DOMAIN Append(q, e) /\ Append(q, e)[i] = q[i]
         /\ Len(q) + 1 \in DOMAIN Append(q, e) /\ Append(q, e)[Len(q) + 1] = e
<1>1. /\ Append(q, e) \in Seq(S)
      /\ DOMAIN q = 1..Len(q) /\ Len(q) \in Nat
      /\ DOMAIN Append(q, e) = 1..(Len(q) + 1)
      /\ \A i \in 1..Len(q) : Append(q, e)[i] = q[i]
      /\ Append(q, e)[Len(q) + 1] = e
  BY AppendProperties, LenProperties
<1> QED
  BY <1>1

LEMMA TailPositions ==
  ASSUME NEW S, NEW q \in Seq(S), q # <<>>
  PROVE  /\ Head(q) \in S /\ Tail(q) \in Seq(S)
         /\ 1 \in DOMAIN q /\ q[1] = Head(q)
         /\ \A i \in DOMAIN Tail(q) : i + 1 \in DOMAIN q /\ i + 1 # 1 /\ Tail(q)[i] = q[i + 1]
         /\ \A i, j \in DOMAIN Tail(q) : i + 1 = j + 1 => i = j
         /\ \A i \in DOMAIN q : i # 1 => \E j \in DOMAIN Tail(q) : i = j + 1
<1>1. /\ Head(q) \in S /\ Tail(q) \in Seq(S)
      /\ DOMAIN q = 1..Len(q) /\ Len(q) \in Nat \ {0}
      /\ DOMAIN Tail(q) = 1..(Len(q) - 1)
      /\ \A i \in 1..(Len(q) - 1) : Tail(q)[i] = q[i + 1]
      /\ Head(q) = q[1]
  BY HeadTailProperties, LenProperties, EmptySeq
<1>2. \A i \in DOMAIN Tail(q) : i + 1 \in DOMAIN q /\ i + 1 # 1 /\ Tail(q)[i] = q[i + 1]
  BY <1>1
<1>3. \A i, j \in DOMAIN Tail(q) : i + 1 = j + 1 => i = j
  BY <1>1
<1>4. \A i \in DOMAIN q : i # 1 => \E j \in DOMAIN Tail(q) : i = j + 1
  <2> SUFFICES ASSUME NEW i \in DOMAIN q, i # 1 PROVE i - 1 \in DOMAIN Tail(q) /\ i = (i - 1) + 1
    OBVIOUS
  <2> QED BY <1>1
<1> QED
  BY <1>1, <1>2, <1>3, <1>4

LEMMA AppendList ==
  ASSUME NEW S, NEW q \in Seq(S), NEW e \in S, NEW c
  PROVE  /\ Append(q, e) \in Seq(S)
         /\ Has(Append(q, e), c) <=> Has(q, c) \/ c = e
         /\ Single(q, c) /\ (c = e => ~Has(q, c)) => Single(Append(q, e), c)
  BY AppendPositions DEF Has, Single

LEMMA TailList ==
  ASSUME NEW S, NEW q \in Seq(S), q # <<>>, NEW c
  PROVE  /\ Head(q) \in S /\ Tail(q) \in Seq(S)
         /\ Has(q, Head(q))
         /\ Single(q, c) => Single(Tail(q), c) /\ (Has(Tail(q), c) <=> Has(q, c) /\ c # Head(q))
<1>1. Single(q, c) => Single(Tail(q), c)
  BY TailPositions DEF Single
<1>2. ASSUME Single(q, c) PROVE Has(Tail(q), c) => Has(q, c) /\ c # Head(q)
  BY TailPositions, <1>2 DEF Has, Single
<1>3. Has(q, c) /\ c # Head(q) => Has(Tail(q), c)
  BY TailPositions DEF Has
<1> QED
  BY TailPositions, <1>1, <1>2, <1>3 DEF Has

\* The same for a queue of closures.
LEMMA AppendClosure ==
  ASSUME NEW q \in Seq(Closure), NEW e \in Closure, NEW c
  PROVE  /\ Append(q, e) \in Seq(Closure)
         /\ HasIn(Append(q, e), c) <=> HasIn(q, c) \/ Has(e.cbs, c)
         /\ /\ OnceIn(q, c) /\ Single(e.cbs, c)
            /\ Has(e.cbs, c) => ~HasIn(q, c)
            => OnceIn(Append(q, e), c)
<1> DEFINE a == Append(q, e)
<1>1. /\ a \in Seq(Closure)
      /\ \A i \in DOMAIN a : \/ i \in DOMAIN q /\ a[i] = q[i]
                             \/ i = Len(q) + 1 /\ a[i] = e
      /\ \A i \in DOMAIN q : i \in DOMAIN a /\ a[i] = q[i]
      /\ Len(q) + 1 \in DOMAIN a /\ a[Len(q) + 1] = e
  BY AppendPositions
<1> HIDE DEF a
<1>2. HasIn(a, c) <=> HasIn(q, c) \/ Has(e.cbs, c)
  BY <1>1 DEF HasIn
<1>3. ASSUME OnceIn(q, c), Single(e.cbs, c), Has(e.cbs, c) => ~HasIn(q, c)
      PROVE  OnceIn(a, c)
  BY <1>1, <1>3 DEF HasIn, OnceIn
<1> QED
  BY <1>1, <1>2, <1>3 DEF a

LEMMA TailClosure ==
  ASSUME NEW q \in Seq(Closure), q # <<>>, NEW c, OnceIn(q, c)
  PROVE  /\ Head(q) \in Closure /\ Tail(q) \in Seq(Closure)
         /\ Has(Head(q).cbs, c) => HasIn(q, c)
         /\ Single(Head(q).cbs, c)
         /\ OnceIn(Tail(q), c)
         /\ HasIn(Tail(q), c) <=> HasIn(q, c) /\ ~Has(Head(q).cbs, c)
<1> DEFINE h == Head(q)
           t == Tail(q)
<1>1. /\ h \in Closure /\ t \in Seq(Closure)
      /\ 1 \in DOMAIN q /\ q[1] = h
      /\ \A i \in DOMAIN t : i + 1 \in DOMAIN q /\ i + 1 # 1 /\ t[i] = q[i + 1]
      /\ \A i, j \in DOMAIN t : i + 1 = j + 1 => i = j
      /\ \A i \in DOMAIN q : i # 1 => \E j \in DOMAIN t : i = j + 1
  BY TailPositions
<1> HIDE DEF h, t
<1>2. (Has(h.cbs, c) => HasIn(q, c)) /\ Single(h.cbs, c)
  BY <1>1 DEF HasIn, OnceIn
<1>3. OnceIn(t, c)
  BY <1>1 DEF OnceIn
<1>4. HasIn(t, c) => HasIn(q, c) /\ ~Has(h.cbs, c)
  BY <1>1 DEF HasIn, OnceIn
<1>5. HasIn(q, c) /\ ~Has(h.cbs, c) => HasIn(t, c)
  BY <1>1 DEF HasIn
<1> QED
  BY <1>1, <1>2, <1>3, <1>4, <1>5 DEF h, t

\* list.remove takes out the one occurrence there is.
LEMMA RemoveList ==
  ASSUME NEW S, NEW q \in Seq(S), NEW e, Contains(q, e), Single(q, e)
  PROVE  /\ RemoveFirst(q, e) \in Seq(S)
         /\ ~Has(RemoveFirst(q, e), e)
         /\ \A c : /\ Has(RemoveFirst(q, e), c) => Has(q, c)
                   /\ Single(q, c) => Single(RemoveFirst(q, e), c)
<1>1. DOMAIN q = 1..Len(q) /\ Len(q) \in Nat /\ \A i \in 1..Len(q) : q[i] \in S
  BY LenProperties, ElementOfSeq
<1>2. PICK k \in 1..Len(q) : q[k] = e /\ \A i \in 1..Len(q) : q[i] = e => i = k
  BY <1>1 DEF Contains, Single
<1>3. RemoveFirst(q, e) = SubSeq(q, 1, k - 1) \o SubSeq(q, k + 1, Len(q))
  <2>1. {i \in 1..Len(q) : q[i] = e} = {k}
    BY <1>2
  <2>2. Min({k}) = k
    BY <1>1 DEF Min
  <2>3. SelectInSeq(q, LAMBDA v : v = e) = k
    BY <2>1, <2>2 DEF SelectInSeq
  <2> QED
    BY <1>2, <2>3 DEF RemoveFirst, RemoveAt
<1> DEFINE a == SubSeq(q, 1, k - 1)
           b == SubSeq(q, k + 1, Len(q))
<1>4. /\ a \in Seq(S) /\ Len(a) = k - 1
      /\ \A i \in 1..(k - 1) : a[i] = q[i]
  BY <1>1, SubSeqProperties
<1>5. /\ b \in Seq(S) /\ Len(b) = Len(q) - k
      /\ \A i \in 1..(Len(q) - k) : b[i] = q[k + i]
  <2>1. k + 1 \in Int /\ Len(q) \in Int /\ \A i \in (k + 1)..Len(q) : q[i] \in S
    BY <1>1
  <2>2. /\ b \in Seq(S) /\ Len(b) = IF k + 1 <= Len(q) THEN Len(q) - (k + 1) + 1 ELSE 0
        /\ \A i \in 1..(Len(q) - (k + 1) + 1) : b[i] = q[(k + 1) + i - 1]
    BY <2>1, SubSeqProperties
  <2>3. \A n \in Nat : \A m \in 1..n :
          /\ n - (m + 1) + 1 = n - m
          /\ ~(m + 1 <= n) => n - m = 0
          /\ \A i \in 1..(n - m) : (m + 1) + i - 1 = m + i
    OBVIOUS
  <2> HIDE DEF b
  <2>4. Len(b) = Len(q) - k
    BY <1>1, <2>2, <2>3
  <2>5. ASSUME NEW i \in 1..(Len(q) - k) PROVE b[i] = q[k + i]
    <3>1. i \in 1..(Len(q) - (k + 1) + 1) /\ (k + 1) + i - 1 = k + i
      BY <1>1, <2>3
    <3> QED
      BY <2>2, <3>1
  <2> QED
    BY <2>2, <2>4, <2>5
<1> HIDE DEF a, b
<1>6. /\ a \o b \in Seq(S) /\ Len(a \o b) = Len(q) - 1
      /\ DOMAIN (a \o b) = 1..(Len(q) - 1)
      /\ \A i \in 1..(Len(q) - 1) : (a \o b)[i] = IF i < k THEN q[i] ELSE q[i + 1]
  <2>1. /\ a \o b \in Seq(S) /\ Len(a \o b) = Len(a) + Len(b)
        /\ \A i \in 1..(Len(a) + Len(b)) :
             (a \o b)[i] = IF i <= Len(a) THEN a[i] ELSE b[i - Len(a)]
    BY <1>4, <1>5, ConcatProperties
  <2>2. Len(a \o b) = Len(q) - 1 /\ DOMAIN (a \o b) = 1..(Len(q) - 1)
    <3>1. Len(a) + Len(b) = Len(q) - 1
      BY <1>1, <1>4, <1>5
    <3>2. DOMAIN (a \o b) = 1..Len(a \o b)
      BY <2>1, LenProperties
    <3> QED
      BY <2>1, <3>1, <3>2
  <2>3. ASSUME NEW i \in 1..(Len(q) - 1)
        PROVE  (a \o b)[i] = IF i < k THEN q[i] ELSE q[i + 1]
    <3>1. (a \o b)[i] = IF i <= k - 1 THEN a[i] ELSE b[i - (k - 1)]
      BY <1>1, <1>4, <1>5, <2>1
    <3>2. CASE i < k
      BY <3>1, <3>2, <1>1, <1>4
    <3>3. CASE ~(i < k)
      <4>1. i - (k - 1) \in 1..(Len(q) - k) /\ k + (i - (k - 1)) = i + 1
        BY <3>3, <1>1
      <4> QED
        BY <3>1, <3>3, <4>1, <1>1, <1>5
    <3> QED
      BY <3>2, <3>3
  <2> QED
    BY <2>1, <2>2, <2>3
<1> DEFINE r == RemoveFirst(q, e)
           pos(i) == IF i < k THEN i ELSE i + 1
<1>7. /\ r \in Seq(S)
      /\ \A i \in DOMAIN r : pos(i) \in DOMAIN q /\ pos(i) # k /\ r[i] = q[pos(i)]
      /\ \A i, j \in DOMAIN r : pos(i) = pos(j) => i = j
  <2>1. r = a \o b
    BY <1>3 DEF a, b
  <2> HIDE DEF r
  <2>2. k \in Nat /\ 1 <= k /\ k <= Len(q) /\ Len(q) \in Nat
    BY <1>1
  <2>3. DOMAIN r = 1..(Len(q) - 1) /\ r \in Seq(S)
    BY <1>6, <2>1
  <2>4. ASSUME NEW i \in DOMAIN r PROVE pos(i) \in DOMAIN q /\ pos(i) # k
    BY <1>1, <2>2, <2>3
  <2>5. ASSUME NEW i \in DOMAIN r PROVE r[i] = q[pos(i)]
    BY <1>6, <2>1, <2>3
  <2>6. ASSUME NEW i \in DOMAIN r, NEW j \in DOMAIN r, pos(i) = pos(j) PROVE i = j
    BY <2>2, <2>3, <2>6
  <2> QED
    BY <2>3, <2>4, <2>5, <2>6
<1> HIDE DEF r, pos
<1>8. /\ ~Has(r, e)
      /\ \A c : Has(r, c) => Has(q, c)
      /\ \A c : Single(q, c) => Single(r, c)
  BY <1>1, <1>2, <1>7 DEF Has, Single
<1> QED
  BY <1>7, <1>8 DEF r

-----------------------------------------------------------------------------
\* What an action leaves alone is as it was for every callback.
LEMMA SameOp == op' = op => \A c : InOp(c)' = InOp(c)
BY DEF InOp, Has
LEMMA SameQueue == queue' = queue => \A c : InQueue(c)' = InQueue(c)
BY DEF InQueue, HasIn, Has
LEMMA SameBatch == batch' = batch => \A c : InBatch(c)' = InBatch(c)
BY DEF InBatch, HasIn, Has
LEMMA SameTodo == todo' = todo => \A c : InTodo(c)' = InTodo(c)
BY DEF InTodo, Has

LEMMA InitIInv == Init => IInv
<1> SUFFICES ASSUME Init PROVE IInv
    OBVIOUS
<1>1. TypeOK
  <2>1. <<>> \in Seq(Closure) /\ <<>> \in Seq(Callback)
    BY EmptySeq
  <2> QED
    BY <2>1, NoneAssumption
       DEF Init, TypeOK, Op, Loop!Init, Loop!TypeOK, Loop!LoopPc, Closure
<1>2. OpShape /\ Drained
  BY DEF Init, Loop!Init, OpShape, Drained, Idle
<1>3. ASSUME NEW c \in Callback PROVE CallbackInv(c)
  <2>1. ~Has(<<>>, c) /\ Single(<<>>, c)
    BY EmptyList
  <2>2. ~InOp(c) /\ ~InQueue(c) /\ ~InBatch(c) /\ ~InTodo(c)
    BY <2>1 DEF Init, InOp, InQueue, InBatch, InTodo, HasIn, Idle, Loop!Init
  <2>3. Once(c)
    BY <2>1 DEF Init, Once, OnceIn, Idle, Loop!Init
  <2>4. ListedInv(c)
    BY <2>1 DEF Init, ListedInv
  <2> QED
    BY <2>2, <2>3, <2>4 DEF Init, CallbackInv, OnePlace, DueInv, Due, CallInv
<1> QED
  BY <1>1, <1>2, <1>3 DEF IInv

\* The lock section of set_result: the snapshot of the callbacks becomes due at once,
\* in the hand of the resolving thread.
LEMMA ResolveIInv ==
  ASSUME IInv, NEW t \in Thread, NEW f \in Future, NEW how \in {"result", "exception"},
         Resolve(t, f, how)
  PROVE  IInv'
<1> DEFINE snap == callbacks[f]
<1>1. /\ op[t] = Idle /\ outcome[f] = "pending"
      /\ op' = [op EXCEPT ![t] = [do |-> "post", fut |-> f, cbs |-> snap]]
      /\ outcome' = [outcome EXCEPT ![f] = how]
      /\ UNCHANGED <<queue, event, stop, pc, batch, current, callbacks, todo, owner, removed, calls>>
      /\ op \in [Thread -> Op] /\ outcome \in [Future -> {"pending", "result", "exception"}]
      /\ snap \in Seq(Callback)
  BY DEF Resolve, CanStart, loopVars, history, IInv, TypeOK
<1> HIDE DEF snap
<1>2. TypeOK'
  <2>1. op' \in [Thread -> Op] /\ outcome' \in [Future -> {"pending", "result", "exception"}]
    BY <1>1 DEF Op
  <2> QED
    BY <1>1, <2>1 DEF IInv, TypeOK, Loop!TypeOK
<1>3. OpShape' /\ Drained'
  BY <1>1 DEF IInv, OpShape, Drained
<1>4. ASSUME NEW c \in Callback PROVE CallbackInv(c)'
  <2>1. CallbackInv(c) /\ ~Has(<<>>, c)
    BY EmptyList DEF IInv
  <2>2. Single(snap, c) /\ (Has(snap, c) => owner[c] = f /\ c \notin removed)
    BY <2>1 DEF CallbackInv, ListedInv, snap
  <2>3. Has(snap, c) => ~Due(c) /\ calls[c] = 0
    <3>1. Has(snap, c) => ~Resolved(c)
      BY <1>1, <2>2 DEF Resolved
    <3> QED
      BY <2>1, <3>1 DEF CallbackInv, DueInv, CallInv, IInv, TypeOK
  <2>4. InOp(c)' <=> InOp(c) \/ Has(snap, c)
    BY <1>1, <2>1 DEF InOp, Idle
  <2>5. InQueue(c)' = InQueue(c) /\ InBatch(c)' = InBatch(c) /\ InTodo(c)' = InTodo(c)
    BY <1>1, SameQueue, SameBatch, SameTodo
  <2>6. OnePlace(c)'
    BY <2>1, <2>3, <2>4, <2>5 DEF CallbackInv, OnePlace, Due
  <2>7. Once(c)'
    BY <1>1, <2>1, <2>2, <2>3 DEF CallbackInv, Once, OnceIn, Due, InOp
  <2>8. Resolved(c) \/ Has(snap, c) => Resolved(c)'
    BY <1>1, <2>2, NoneAssumption DEF Resolved
  <2>9. DueInv(c)'
    BY <1>1, <2>1, <2>2, <2>3, <2>4, <2>5, <2>8 DEF CallbackInv, DueInv, Due
  <2>10. ListedInv(c)' /\ CallInv(c)'
    BY <1>1, <2>1, <2>8 DEF CallbackInv, ListedInv, CallInv
  <2> QED
    BY <2>6, <2>7, <2>9, <2>10 DEF CallbackInv
<1> QED
  BY <1>2, <1>3, <1>4 DEF IInv

\* call_soon(invoke_callbacks): the snapshot goes from the thread's hand to the queue.
LEMMA PostInvokeIInv ==
  ASSUME IInv, NEW t \in Thread, PostInvoke(t)
  PROVE  IInv'
<1> DEFINE snap == op[t].cbs
           closure == [fut |-> op[t].fut, cbs |-> snap]
<1>1. /\ op[t].do = "post"
      /\ op' = [op EXCEPT ![t] = Idle]
      /\ queue' = Append(queue, closure) /\ event' = TRUE
      /\ UNCHANGED <<stop, pc, batch, current, outcome, callbacks, todo, owner, removed, calls>>
      /\ op \in [Thread -> Op] /\ queue \in Seq(Closure)
  BY DEF PostInvoke, Loop!CallSoon, futVars, history, IInv, TypeOK, Loop!TypeOK
<1>2. closure \in Closure /\ closure.cbs = snap
  BY <1>1 DEF Op, Idle, Closure
<1> HIDE DEF snap, closure
<1>3. TypeOK'
  <2>1. op' \in [Thread -> Op] /\ queue' \in Seq(Closure)
    BY <1>1, <1>2, AppendClosure DEF Op
  <2> QED
    BY <1>1, <2>1 DEF IInv, TypeOK, Loop!TypeOK
<1>4. OpShape' /\ Drained'
  BY <1>1 DEF IInv, OpShape, Drained, Idle
<1>5. ASSUME NEW c \in Callback PROVE CallbackInv(c)'
  <2>1. CallbackInv(c) /\ ~Has(<<>>, c) /\ Single(<<>>, c)
    BY EmptyList DEF IInv
  <2>2. /\ Single(snap, c)
        /\ Has(snap, c) => InOp(c) /\ ~InQueue(c)
    BY <2>1 DEF CallbackInv, Once, OnePlace, InOp, snap
  <2>3. InOp(c)' <=> InOp(c) /\ ~Has(snap, c)
    BY <1>1, <2>1 DEF InOp, Idle, CallbackInv, Once, snap
  <2>4. InQueue(c)' <=> InQueue(c) \/ Has(snap, c)
    BY <1>1, <1>2, AppendClosure DEF InQueue
  <2>5. InBatch(c)' = InBatch(c) /\ InTodo(c)' = InTodo(c)
    BY <1>1, SameBatch, SameTodo
  <2>6. OnePlace(c)'
    BY <2>1, <2>2, <2>3, <2>4, <2>5 DEF CallbackInv, OnePlace
  <2>7. OnceIn(queue', c)
    BY <1>1, <1>2, <2>1, <2>2, AppendClosure DEF CallbackInv, Once, InQueue
  <2>8. Once(c)'
    BY <1>1, <2>1, <2>7 DEF CallbackInv, Once, OnceIn, Idle
  <2>9. DueInv(c)'
    BY <1>1, <2>1, <2>2, <2>3, <2>4, <2>5 DEF CallbackInv, DueInv, Due, Resolved
  <2>10. ListedInv(c)' /\ CallInv(c)'
    BY <1>1, <2>1 DEF CallbackInv, ListedInv, CallInv, Resolved
  <2> QED
    BY <2>6, <2>8, <2>9, <2>10 DEF CallbackInv
<1> QED
  BY <1>3, <1>4, <1>5 DEF IInv

\* add_done_callback: the new callback is listed, and due at once, in the hand of the
\* registering thread, when the future is resolved already.
LEMMA RegisterIInv ==
  ASSUME IInv, NEW t \in Thread, NEW f \in Future, NEW d \in Callback, Register(t, f, d)
  PROVE  IInv'
<1> DEFINE late == outcome[f] # "pending"
           inline == [do |-> "inline", fut |-> f, cbs |-> <<d>>]
           list == Append(callbacks[f], d)
<1>1. /\ op[t] = Idle /\ owner[d] = None
      /\ owner' = [owner EXCEPT ![d] = f]
      /\ callbacks' = [callbacks EXCEPT ![f] = list]
      /\ op' = IF late THEN [op EXCEPT ![t] = inline] ELSE op
      /\ UNCHANGED <<queue, event, stop, pc, batch, current, outcome, todo, removed, calls>>
      /\ op \in [Thread -> Op] /\ owner \in [Callback -> Future \cup {None}]
      /\ callbacks \in [Future -> Seq(Callback)]
  BY DEF Register, CanStart, loopVars, IInv, TypeOK
<1>2. /\ inline \in Op /\ inline.do = "inline" /\ inline.cbs = <<d>>
      /\ list \in Seq(Callback)
  BY <1>1, UnitList, AppendList DEF Op
<1>3. \A c : /\ Has(list, c) <=> Has(callbacks[f], c) \/ c = d
             /\ Single(callbacks[f], c) /\ (c = d => ~Has(callbacks[f], c)) => Single(list, c)
  BY <1>1, AppendList
<1> HIDE DEF late, inline, list
<1>4. TypeOK'
  <2>1. op' \in [Thread -> Op] /\ owner' \in [Callback -> Future \cup {None}]
        /\ callbacks' \in [Future -> Seq(Callback)]
    BY <1>1, <1>2
  <2> QED
    BY <1>1, <2>1 DEF IInv, TypeOK, Loop!TypeOK
<1>5. OpShape' /\ Drained'
  BY <1>1, <1>2 DEF IInv, OpShape, Drained
<1>6. ASSUME NEW c \in Callback PROVE CallbackInv(c)'
  <2>1. /\ CallbackInv(c) /\ ~Has(<<>>, c)
        /\ Has(<<d>>, c) <=> c = d
        /\ Single(<<d>>, c)
    BY EmptyList, UnitList DEF IInv
  <2>2. c = d => /\ ~Due(c) /\ calls[c] = 0 /\ c \notin removed
                 /\ \A g \in Future : ~Has(callbacks[g], c)
    <3>1. c = d => owner[c] = None
      BY <1>1
    <3>2. c = d => ~Due(c) /\ calls[c] = 0 /\ c \notin removed
      BY <2>1, <3>1 DEF CallbackInv, DueInv, Resolved, CallInv, IInv, TypeOK
    <3>3. ASSUME c = d, NEW g \in Future PROVE ~Has(callbacks[g], c)
      BY <2>1, <3>1, <3>3, NoneAssumption DEF CallbackInv, ListedInv
    <3> QED
      BY <3>2, <3>3
  <2>3. InOp(c)' <=> InOp(c) \/ (late /\ c = d)
    <3>1. CASE late
      <4>1. op' = [op EXCEPT ![t] = inline] /\ ~Has(op[t].cbs, c)
        BY <1>1, <2>1, <3>1 DEF Idle
      <4> QED
        BY <1>1, <1>2, <2>1, <3>1, <4>1 DEF InOp
    <3>2. CASE ~late
      BY <1>1, <3>2, SameOp
    <3> QED
      BY <3>1, <3>2
  <2>4. InQueue(c)' = InQueue(c) /\ InBatch(c)' = InBatch(c) /\ InTodo(c)' = InTodo(c)
    BY <1>1, SameQueue, SameBatch, SameTodo
  <2>5. OnePlace(c)'
    BY <2>1, <2>2, <2>3, <2>4 DEF CallbackInv, OnePlace, Due
  <2>6. Once(c)'
    <3>1. \A u \in Thread : Single(op'[u].cbs, c)
      BY <1>1, <1>2, <2>1 DEF CallbackInv, Once
    <3>2. \A u, v \in Thread : Has(op'[u].cbs, c) /\ Has(op'[v].cbs, c) => u = v
      BY <1>1, <1>2, <2>1, <2>2 DEF CallbackInv, Once, Due, InOp
    <3> QED
      BY <1>1, <2>1, <3>1, <3>2 DEF CallbackInv, Once, OnceIn
  <2>7. Resolved(c) \/ (late /\ c = d) => Resolved(c)'
    BY <1>1, NoneAssumption DEF Resolved, late
  <2>8. DueInv(c)'
    BY <1>1, <2>1, <2>2, <2>3, <2>4, <2>7 DEF CallbackInv, DueInv, Due
  <2>9. ListedInv(c)'
    BY <1>1, <1>3, <2>1, <2>2 DEF CallbackInv, ListedInv
  <2>10. CallInv(c)'
    BY <1>1, <2>1, <2>2, <2>7 DEF CallbackInv, CallInv
  <2> QED
    BY <2>5, <2>6, <2>8, <2>9, <2>10 DEF CallbackInv
<1> QED
  BY <1>4, <1>5, <1>6 DEF IInv

\* The registering thread calls the callback it holds.
LEMMA CallInlineIInv ==
  ASSUME IInv, NEW t \in Thread, CallInline(t)
  PROVE  IInv'
<1>1. PICK d \in Callback : op[t].cbs = <<d>>
  BY DEF CallInline, IInv, OpShape
<1>2. /\ op' = [op EXCEPT ![t] = Idle]
      /\ calls' = [calls EXCEPT ![d] = @ + 1]
      /\ UNCHANGED <<queue, event, stop, pc, batch, current, outcome, callbacks, todo, owner, removed>>
      /\ op \in [Thread -> Op] /\ calls \in [Callback -> Nat]
  BY <1>1 DEF CallInline, Called, loopVars, futVars, IInv, TypeOK
<1>3. TypeOK'
  <2>1. Idle \in Op
    BY DEF Op
  <2>2. op' \in [Thread -> Op] /\ calls' \in [Callback -> Nat]
    BY <1>2, <2>1
  <2> QED
    BY <1>2, <2>2 DEF IInv, TypeOK, Loop!TypeOK
<1>4. OpShape' /\ Drained'
  BY <1>2 DEF IInv, OpShape, Drained, Idle
<1>5. ASSUME NEW c \in Callback PROVE CallbackInv(c)'
  <2>1. CallbackInv(c) /\ ~Has(<<>>, c) /\ Single(<<>>, c) /\ (Has(<<d>>, c) <=> c = d)
    BY EmptyList, UnitList DEF IInv
  <2>2. c = d => InOp(c)
    BY <1>1, <2>1 DEF InOp
  <2>3. InOp(c)' <=> InOp(c) /\ c # d
    BY <1>1, <1>2, <2>1 DEF InOp, Idle, CallbackInv, Once
  <2>4. InQueue(c)' = InQueue(c) /\ InBatch(c)' = InBatch(c) /\ InTodo(c)' = InTodo(c)
    BY <1>2, SameQueue, SameBatch, SameTodo
  <2>5. OnePlace(c)'
    BY <2>1, <2>3, <2>4 DEF CallbackInv, OnePlace
  <2>6. Once(c)'
    BY <1>2, <2>1 DEF CallbackInv, Once, OnceIn, Idle
  <2>7. calls'[c] = IF c = d THEN calls[c] + 1 ELSE calls[c]
    BY <1>2
  <2>8. Resolved(c)' = Resolved(c)
    BY <1>2 DEF Resolved
  <2>9. DueInv(c)'
    BY <1>2, <2>1, <2>2, <2>3, <2>4, <2>7, <2>8 DEF CallbackInv, DueInv, Due, OnePlace
  <2>10. c = d => calls[c] = 0 /\ Resolved(c) /\ c \notin removed
    BY <2>1, <2>2 DEF CallbackInv, DueInv, Due
  <2>11. CallInv(c)'
    BY <1>2, <2>1, <2>7, <2>8, <2>10 DEF CallbackInv, CallInv
  <2>12. ListedInv(c)'
    BY <1>2, <2>1 DEF CallbackInv, ListedInv
  <2> QED
    BY <2>5, <2>6, <2>9, <2>11, <2>12 DEF CallbackInv
<1> QED
  BY <1>3, <1>4, <1>5 DEF IInv

\* remove_done_callback: a callback that is taken back in time is in no snapshot.
LEMMA UnregisterIInv ==
  ASSUME IInv, NEW t \in Thread, NEW f \in Future, NEW d \in Callback, Unregister(t, f, d)
  PROVE  IInv'
<1> DEFINE list == RemoveFirst(callbacks[f], d)
<1>1. /\ Contains(callbacks[f], d)
      /\ callbacks' = [callbacks EXCEPT ![f] = list]
      /\ removed' = IF outcome[f] = "pending" THEN removed \cup {d} ELSE removed
      /\ UNCHANGED <<queue, event, stop, pc, batch, current, outcome, op, todo, owner, calls>>
      /\ callbacks \in [Future -> Seq(Callback)] /\ removed \in SUBSET Callback
  BY DEF Unregister, loopVars, IInv, TypeOK
<1>2. /\ list \in Seq(Callback) /\ ~Has(list, d)
      /\ \A c : /\ Has(list, c) => Has(callbacks[f], c)
                /\ Single(callbacks[f], c) => Single(list, c)
  <2>1. Single(callbacks[f], d)
    BY DEF IInv, CallbackInv, ListedInv
  <2> QED
    BY <1>1, <2>1, RemoveList
<1>3. Has(callbacks[f], d)
  BY <1>1, LenProperties DEF Contains, Has
<1> HIDE DEF list
<1>4. TypeOK'
  <2>1. callbacks' \in [Future -> Seq(Callback)] /\ removed' \in SUBSET Callback
    BY <1>1, <1>2
  <2> QED
    BY <1>1, <2>1 DEF IInv, TypeOK, Loop!TypeOK
<1>5. OpShape' /\ Drained'
  BY <1>1 DEF IInv, OpShape, Drained
<1>6. ASSUME NEW c \in Callback PROVE CallbackInv(c)'
  <2>1. CallbackInv(c)
    BY DEF IInv
  <2>2. /\ InOp(c)' = InOp(c) /\ InQueue(c)' = InQueue(c)
        /\ InBatch(c)' = InBatch(c) /\ InTodo(c)' = InTodo(c)
    BY <1>1, SameOp, SameQueue, SameBatch, SameTodo
  <2>3. Resolved(c)' = Resolved(c)
    BY <1>1 DEF Resolved
  <2>4. OnePlace(c)' /\ Once(c)'
    BY <1>1, <2>1, <2>2 DEF CallbackInv, OnePlace, Once, OnceIn, Single, Has
  <2>5. c = d => owner[c] = f
    BY <1>3, <2>1 DEF CallbackInv, ListedInv
  <2>6. c \in removed' /\ c \notin removed => c = d /\ outcome[f] = "pending" /\ ~Resolved(c)
    BY <1>1, <2>5 DEF Resolved
  <2>7. DueInv(c)'
    BY <1>1, <2>1, <2>2, <2>3, <2>6 DEF CallbackInv, DueInv, Due
  <2>8. ListedInv(c)'
    <3>1. ASSUME NEW g \in Future
          PROVE  /\ Single(callbacks'[g], c)
                 /\ Has(callbacks'[g], c) => owner[c] = g /\ c \notin removed /\ c # d
      BY <1>1, <1>2, <2>1, <2>5 DEF CallbackInv, ListedInv
    <3> QED
      BY <1>1, <2>6, <3>1 DEF ListedInv
  <2>9. CallInv(c)'
    BY <1>1, <2>1, <2>3, <2>5, <2>6, NoneAssumption DEF CallbackInv, CallInv, IInv, TypeOK
  <2> QED
    BY <2>4, <2>7, <2>8, <2>9 DEF CallbackInv
<1> QED
  BY <1>4, <1>5, <1>6 DEF IInv

\* The loop calls the next closure of the batch: its snapshot becomes todo, which is
\* empty outside of invoke_callbacks.
LEMMA StartInvokeIInv ==
  ASSUME IInv, StartInvoke
  PROVE  IInv'
<1> DEFINE h == Head(batch)
           tl == Tail(batch)
<1>1. /\ pc = "run" /\ pc' = "call" /\ batch # <<>> /\ todo = <<>>
      /\ current' = h /\ batch' = tl /\ todo' = h.cbs
      /\ UNCHANGED <<queue, event, stop, outcome, callbacks, op, owner, removed, calls>>
      /\ batch \in Seq(Closure)
  BY DEF StartInvoke, Loop!StartFn, futVars, history, IInv, TypeOK, Loop!TypeOK, Drained
<1>2. h \in Closure /\ tl \in Seq(Closure)
  BY <1>1, HeadTailProperties
<1>3. \A c \in Callback : OnceIn(batch, c) =>
        /\ Has(h.cbs, c) => HasIn(batch, c)
        /\ Single(h.cbs, c)
        /\ OnceIn(tl, c)
        /\ HasIn(tl, c) <=> HasIn(batch, c) /\ ~Has(h.cbs, c)
  BY <1>1, TailClosure
<1> HIDE DEF h, tl
<1>4. TypeOK'
  <2>1. todo' \in Seq(Callback)
    BY <1>1, <1>2 DEF Closure
  <2>2. current' \in Closure /\ current' # None
    BY <1>1, <1>2, NoClosureAssumption
  <2> QED
    BY <1>1, <1>2, <2>1, <2>2 DEF IInv, TypeOK, Loop!TypeOK, Loop!LoopPc
<1>5. OpShape' /\ Drained'
  BY <1>1 DEF IInv, OpShape, Drained
<1>6. ASSUME NEW c \in Callback PROVE CallbackInv(c)'
  <2>1. CallbackInv(c) /\ ~Has(<<>>, c)
    BY EmptyList DEF IInv
  <2>2. /\ Has(h.cbs, c) => InBatch(c)
        /\ Single(h.cbs, c)
        /\ OnceIn(batch', c)
        /\ InBatch(c)' <=> InBatch(c) /\ ~Has(h.cbs, c)
    BY <1>1, <1>3, <2>1 DEF CallbackInv, Once, InBatch
  <2>3. ~InTodo(c) /\ (InTodo(c)' <=> Has(h.cbs, c))
    BY <1>1, <2>1 DEF InTodo
  <2>4. InOp(c)' = InOp(c) /\ InQueue(c)' = InQueue(c)
    BY <1>1, SameOp, SameQueue
  <2>5. OnePlace(c)'
    BY <2>1, <2>2, <2>3, <2>4 DEF CallbackInv, OnePlace
  <2>6. Once(c)'
    BY <1>1, <2>1, <2>2 DEF CallbackInv, Once, OnceIn
  <2>7. DueInv(c)'
    BY <1>1, <2>1, <2>2, <2>3, <2>4 DEF CallbackInv, DueInv, Due, Resolved
  <2>8. ListedInv(c)' /\ CallInv(c)'
    BY <1>1, <2>1 DEF CallbackInv, ListedInv, CallInv, Resolved
  <2> QED
    BY <2>5, <2>6, <2>7, <2>8 DEF CallbackInv
<1> QED
  BY <1>4, <1>5, <1>6 DEF IInv

\* invoke_callbacks calls the next callback of its snapshot.
LEMMA CallNextIInv ==
  ASSUME IInv, CallNext
  PROVE  IInv'
<1> DEFINE d == Head(todo)
           tl == Tail(todo)
<1>1. /\ pc = "call" /\ todo # <<>>
      /\ calls' = [calls EXCEPT ![d] = @ + 1] /\ todo' = tl
      /\ UNCHANGED <<queue, event, stop, pc, batch, current, outcome, callbacks, op, owner, removed>>
      /\ todo \in Seq(Callback) /\ calls \in [Callback -> Nat]
  BY DEF CallNext, Called, loopVars, futVars, IInv, TypeOK
<1>2. /\ d \in Callback /\ tl \in Seq(Callback) /\ Has(todo, d)
      /\ \A c \in Callback : Single(todo, c) =>
           Single(tl, c) /\ (Has(tl, c) <=> Has(todo, c) /\ c # d)
  BY <1>1, TailList
<1> HIDE DEF d, tl
<1>3. TypeOK'
  <2>1. calls' \in [Callback -> Nat]
    BY <1>1, <1>2
  <2> QED
    BY <1>1, <1>2, <2>1 DEF IInv, TypeOK, Loop!TypeOK
<1>4. OpShape' /\ Drained'
  BY <1>1 DEF IInv, OpShape, Drained
<1>5. ASSUME NEW c \in Callback PROVE CallbackInv(c)'
  <2>1. CallbackInv(c)
    BY DEF IInv
  <2>2. /\ c = d => InTodo(c)
        /\ InTodo(c)' <=> InTodo(c) /\ c # d
        /\ Single(todo', c)
    BY <1>1, <1>2, <2>1 DEF InTodo, CallbackInv, Once
  <2>3. InOp(c)' = InOp(c) /\ InQueue(c)' = InQueue(c) /\ InBatch(c)' = InBatch(c)
    BY <1>1, SameOp, SameQueue, SameBatch
  <2>4. OnePlace(c)'
    BY <2>1, <2>2, <2>3 DEF CallbackInv, OnePlace
  <2>5. Once(c)'
    BY <1>1, <2>1, <2>2 DEF CallbackInv, Once, OnceIn
  <2>6. calls'[c] = IF c = d THEN calls[c] + 1 ELSE calls[c]
    BY <1>1, <1>2
  <2>7. Resolved(c)' = Resolved(c)
    BY <1>1 DEF Resolved
  <2>8. c = d => calls[c] = 0 /\ Resolved(c) /\ c \notin removed
    BY <2>1, <2>2 DEF CallbackInv, DueInv, Due
  <2>9. DueInv(c)'
    BY <1>1, <2>1, <2>2, <2>3, <2>6, <2>7 DEF CallbackInv, DueInv, Due, OnePlace
  <2>10. ListedInv(c)' /\ CallInv(c)'
    BY <1>1, <2>1, <2>6, <2>7, <2>8 DEF CallbackInv, ListedInv, CallInv
  <2> QED
    BY <2>4, <2>5, <2>9, <2>10 DEF CallbackInv
<1> QED
  BY <1>3, <1>4, <1>5 DEF IInv

\* Swapping the queue into the empty batch keeps every callback due, in its new place.
LEMMA SwapIInv ==
  ASSUME IInv, Loop!Swap, UNCHANGED <<futVars, op, todo, history>>
  PROVE  IInv'
<1>1. /\ pc = "swap" /\ pc' = "run" /\ batch = <<>> /\ todo = <<>>
      /\ batch' = queue /\ queue' = <<>> /\ event' = FALSE
      /\ UNCHANGED <<stop, current, outcome, callbacks, op, todo, owner, removed, calls>>
      /\ queue \in Seq(Closure) /\ batch \in Seq(Closure)
  BY DEF Loop!Swap, futVars, history, IInv, TypeOK, Loop!TypeOK, Drained
<1>2. TypeOK'
  BY <1>1 DEF IInv, TypeOK, Loop!TypeOK, Loop!LoopPc
<1>3. OpShape' /\ Drained'
  BY <1>1 DEF IInv, OpShape, Drained
<1>4. ASSUME NEW c \in Callback PROVE CallbackInv(c)'
  <2>1. CallbackInv(c)
    BY DEF IInv
  <2>2. /\ ~InBatch(c) /\ ~InQueue(c)'
        /\ InBatch(c)' <=> InQueue(c)
    BY <1>1 DEF InBatch, InQueue, HasIn, Has
  <2>3. InOp(c)' = InOp(c) /\ InTodo(c)' = InTodo(c)
    BY <1>1, SameOp, SameTodo
  <2>4. OnePlace(c)'
    BY <2>1, <2>2, <2>3 DEF CallbackInv, OnePlace
  <2>5. Once(c)'
    BY <1>1, <2>1 DEF CallbackInv, Once, OnceIn
  <2>6. DueInv(c)'
    BY <1>1, <2>1, <2>2, <2>3 DEF CallbackInv, DueInv, Due, Resolved
  <2>7. ListedInv(c)' /\ CallInv(c)'
    BY <1>1, <2>1 DEF CallbackInv, ListedInv, CallInv, Resolved
  <2> QED
    BY <2>4, <2>5, <2>6, <2>7 DEF CallbackInv
<1> QED
  BY <1>2, <1>3, <1>4 DEF IInv

\* The steps that move no callback.
LEMMA StillIInv ==
  ASSUME IInv, TypeOK', Drained',
         UNCHANGED <<queue, batch, futVars, op, todo, history>>
  PROVE  IInv'
<1>1. OpShape'
  BY DEF IInv, OpShape
<1>2. ASSUME NEW c \in Callback PROVE CallbackInv(c)'
  <2>1. CallbackInv(c)
    BY DEF IInv
  <2>2. /\ InOp(c)' = InOp(c) /\ InQueue(c)' = InQueue(c)
        /\ InBatch(c)' = InBatch(c) /\ InTodo(c)' = InTodo(c)
    BY SameOp, SameQueue, SameBatch, SameTodo
  <2>3. Resolved(c)' = Resolved(c)
    BY DEF Resolved, futVars, history
  <2>4. OnePlace(c)' /\ Once(c)'
    BY <2>1, <2>2 DEF CallbackInv, OnePlace, Once, OnceIn, Single, Has
  <2>5. DueInv(c)' /\ ListedInv(c)' /\ CallInv(c)'
    BY <2>1, <2>2, <2>3 DEF CallbackInv, DueInv, Due, ListedInv, CallInv, Single, Has, futVars, history
  <2> QED
    BY <2>4, <2>5 DEF CallbackInv
<1> QED
  BY <1>1, <1>2 DEF IInv

LEMMA LoopIdleIInv ==
  ASSUME IInv, LoopIdleStep
  PROVE  IInv'
<1>1. UNCHANGED <<futVars, op, todo, history>>
  BY DEF LoopIdleStep
<1>2. CASE Loop!Swap
  BY <1>1, <1>2, SwapIInv
<1>3. CASE Loop!TestStop \/ Loop!WaitWakes \/ Loop!WaitTimesOut \/ Loop!BatchDone
  <2>1. /\ UNCHANGED <<queue, event, stop, batch, current>>
        /\ pc \in {"test", "wait", "run"} /\ pc' \in {"exited", "wait", "swap", "test"}
        /\ pc = "run" => batch = <<>>
    BY <1>3 DEF Loop!TestStop, Loop!WaitWakes, Loop!WaitTimesOut, Loop!BatchDone
  <2>2. TypeOK' /\ Drained'
    BY <1>1, <2>1 DEF IInv, TypeOK, Loop!TypeOK, Loop!LoopPc, Drained, futVars, history
  <2> QED
    BY <1>1, <2>1, <2>2, StillIInv
<1> QED
  BY <1>2, <1>3 DEF LoopIdleStep

LEMMA EndInvokeIInv ==
  ASSUME IInv, EndInvoke
  PROVE  IInv'
<1>1. /\ todo = <<>> /\ pc' = "run" /\ current' = None
      /\ UNCHANGED <<queue, event, stop, batch>>
      /\ UNCHANGED <<futVars, op, todo, history>>
  BY DEF EndInvoke, Loop!EndFn
<1>2. TypeOK' /\ Drained'
  BY <1>1 DEF IInv, TypeOK, Loop!TypeOK, Loop!LoopPc, Drained, futVars, history
<1> QED
  BY <1>1, <1>2, StillIInv

LEMMA StopLoopIInv ==
  ASSUME IInv, StopLoop
  PROVE  IInv'
<1>1. /\ stop' = TRUE
      /\ UNCHANGED <<queue, event, pc, batch, current>>
      /\ UNCHANGED <<futVars, op, todo, history>>
  BY DEF StopLoop, Loop!Stop
<1>2. TypeOK' /\ Drained'
  BY <1>1 DEF IInv, TypeOK, Loop!TypeOK, Drained, futVars, history
<1> QED
  BY <1>1, <1>2, StillIInv

-----------------------------------------------------------------------------
LEMMA NextIInv == IInv /\ [Next]_vars => IInv'
<1> SUFFICES ASSUME IInv, [Next]_vars PROVE IInv'
    OBVIOUS
<1>1. ASSUME NEW t \in Thread, NEW f \in Future, NEW how \in {"result", "exception"},
             Resolve(t, f, how)
      PROVE  IInv'
  BY <1>1, ResolveIInv
<1>2. ASSUME NEW t \in Thread, NEW f \in Future, NEW c \in Callback,
             Register(t, f, c) \/ Unregister(t, f, c)
      PROVE  IInv'
  BY <1>2, RegisterIInv, UnregisterIInv
<1>3. ASSUME NEW t \in Thread, ThreadStep(t) PROVE IInv'
  BY <1>3, PostInvokeIInv, CallInlineIInv DEF ThreadStep
<1>4. CASE LoopStep
  BY <1>4, LoopIdleIInv, StartInvokeIInv, CallNextIInv, EndInvokeIInv DEF LoopStep
<1>5. CASE StopLoop
  BY <1>5, StopLoopIInv
<1>6. CASE UNCHANGED vars
  <2>1. /\ UNCHANGED <<queue, event, stop, pc, batch, current>>
        /\ UNCHANGED <<futVars, op, todo, history>>
    BY <1>6 DEF vars, loopVars
  <2>2. TypeOK' /\ Drained'
    BY <2>1 DEF IInv, TypeOK, Loop!TypeOK, Drained, futVars, history
  <2> QED
    BY <2>1, <2>2, StillIInv
<1> QED
  BY <1>1, <1>2, <1>3, <1>4, <1>5, <1>6 DEF Next

LEMMA Invariance == Spec => []IInv
  BY InitIInv, NextIInv, PTL DEF Spec

\* The futures, the event loop and what threads hold keep their types: among them, the
\* closures queued by set_result are snapshots of a future's callbacks.
THEOREM TypeCorrect == Spec => []TypeOK
<1>1. IInv => TypeOK
  BY DEF IInv
<1> QED
  BY <1>1, Invariance, PTL

\* No interleaving of set_result, add_done_callback, remove_done_callback and
\* run_forever calls a callback twice, early, or after it was taken back in time.
THEOREM CalledAtMostOnce == Spec => []AtMostOnce
<1>1. IInv => AtMostOnce
  BY DEF IInv, CallbackInv, CallInv, Resolved, AtMostOnce
<1> QED
  BY <1>1, Invariance, PTL
=============================================================================
