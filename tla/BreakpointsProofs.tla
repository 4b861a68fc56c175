-------------------------- MODULE BreakpointsProofs --------------------------
(***************************************************************************)
(* Proofs about Breakpoints for any sources and lines and all bounds:      *)
(* types, that no requested breakpoint is lost, that those of a single     *)
(* source are exact, and that those answered before configurationDone are  *)
(* in force when the debuggee is released.                                 *)
(***************************************************************************)
EXTENDS Breakpoints, SequenceTheorems, FiniteSetTheorems, TLAPS

Table == UNION {[D -> Line] : D \in SUBSET BpId}

\* Every line still to be set has a number left: what bounds the numbers of bp_map.
NumbersLeft == nextId + Len(todo) <= requests * MaxLines + 1

\* The numbers of the pairs and of the commands on their way have been handed out.
Used ==
  /\ \A p \in bpMap : p[2] < nextId
  /\ \A i \in DOMAIN pipe : pipe[i].cmd \in {"set", "remove"} => pipe[i].id < nextId
  /\ \A f \in Source : \A id \in DOMAIN idToBreak[f] : id < nextId

TypeInv ==
  /\ TypeOK
  /\ idToBreak \in [Source -> Table]
  /\ \A f \in Source : breaks[f] = Range(idToBreak[f])
  /\ NumbersLeft
  /\ Used
  /\ IsFiniteSet(touched)
  /\ path = NoSource => doomed = {} /\ todo = <<>>

-----------------------------------------------------------------------------
\* Queues: what an append and a removal at the front leave where it was.
LEMMA AppendPositions ==
  ASSUME NEW S, NEW q \in Seq(S), NEW e \in S
  PROVE  /\ Append(q, e) \in Seq(S)
         /\ \A i \in DOMAIN Append(q, e) :
              \/ i \in DOMAIN q /\ Append(q, e)[i] = q[i]
              \/ i = Len(q) + 1 /\ Append(q, e)[i] = e
         /\ \A i \in DOMAIN q : i \in Nat /\ i < Len(q) + 1
                                /\ i \in DOMAIN Append(q, e) /\ Append(q, e)[i] = q[i]
         /\ Len(q) + 1 \in DOMAIN Append(q, e) /\ Append(q, e)[Len(q) + 1] = e
<1>1. /\ Append(q, e) \in Seq(S)
      /\ DOMAIN q = 1..Len(q) /\ Len(q) \in Nat
      /\ DOMAIN Append(q, e) = 1..(Len(q) + 1)
      /\ \A i \in 1..Len(q) : Append(q, e)[i] = q[i]
      /\ Append(q, e)[Len(q) + 1] = e
  BY AppendProperties, LenProperties
<1> QED
  BY <1>1

LEMMA TailPositions ==
  ASSUME NEW S, NEW q \in Seq(S), q # <<>>
  PROVE  /\ Head(q) \in S /\ Tail(q) \in Seq(S)
         /\ 1 \in DOMAIN q /\ q[1] = Head(q)
         /\ \A i \in DOMAIN Tail(q) : i \in Nat /\ i + 1 \in DOMAIN q /\ i + 1 > 1 /\ Tail(q)[i] = q[i + 1]
         /\ \A i, j \in DOMAIN Tail(q) : i + 1 > j + 1 <=> i > j
         /\ \A i \in DOMAIN q : i # 1 => \E j \in DOMAIN Tail(q) : i = j + 1
<1>1. /\ Head(q) \in S /\ Tail(q) \in Seq(S)
      /\ DOMAIN q = 1..Len(q) /\ Len(q) \in Nat \ {0}
      /\ DOMAIN Tail(q) = 1..(Len(q) - 1)
      /\ \A i \in 1..(Len(q) - 1) : Tail(q)[i] = q[i + 1]
      /\ Head(q) = q[1]
  BY HeadTailProperties, LenProperties, EmptySeq
<1>2. \A i \in DOMAIN Tail(q) : i \in Nat /\ i + 1 \in DOMAIN q /\ i + 1 > 1 /\ Tail(q)[i] = q[i + 1]
  BY <1>1
<1>3. \A i, j \in DOMAIN Tail(q) : i + 1 > j + 1 <=> i > j
  BY <1>1
<1>4. \A i \in DOMAIN q : i # 1 => \E j \in DOMAIN Tail(q) : i = j + 1
  <2> SUFFICES ASSUME NEW i \in DOMAIN q, i # 1 PROVE i - 1 \in DOMAIN Tail(q) /\ i = (i - 1) + 1
    OBVIOUS
  <2> QED BY <1>1
<1> QED
  BY <1>1, <1>2, <1>3, <1>4

\* The lines of a request: a list of at most MaxLines.
LEMMA LineSeqList ==
  ASSUME NEW s
  PROVE  s \in LineSeq <=> s \in Seq(Line) /\ Len(s) <= MaxLines
<1>1. ASSUME s \in LineSeq PROVE s \in Seq(Line) /\ Len(s) <= MaxLines
  <2>1. PICK n \in 0..MaxLines : s \in [1..n -> Line]
    BY <1>1 DEF LineSeq
  <2>2. n \in Nat /\ n <= MaxLines
    BY BoundAssumption
  <2>3. s \in Seq(Line)
    BY <2>1, <2>2, SeqDef
  <2>4. Len(s) = n
    BY <2>1, <2>2, <2>3, LenProperties
  <2> QED
    BY <2>2, <2>3, <2>4
<1>2. ASSUME s \in Seq(Line), Len(s) <= MaxLines PROVE s \in LineSeq
  <2>1. s \in [1..Len(s) -> Line] /\ Len(s) \in 0..MaxLines
    BY <1>2, LenProperties, BoundAssumption
  <2> QED
    BY <2>1 DEF LineSeq
<1> QED
  BY <1>1, <1>2

LEMMA Products ==
  ASSUME NEW a \in Nat, NEW b \in Nat, NEW m \in Nat
  PROVE  /\ a * m \in Nat
         /\ (a + 1) * m = a * m + m
         /\ a <= b => a * m <= b * m
<1>1. a * m \in Nat /\ (a + 1) * m = a * m + m
  OBVIOUS
<1>2. ASSUME a <= b PROVE a * m <= b * m
  <2>1. b - a \in Nat
    BY <1>2
  <2>2. (b - a) * m \in Nat
    BY <2>1
  <2>3. b * m = a * m + (b - a) * m
    OBVIOUS
  <2> QED
    BY <1>1, <2>2, <2>3
<1> QED
  BY <1>1, <1>2

-----------------------------------------------------------------------------
\* What pydevd's table of a source says of an id, and what the commands on their way do.
Has(f, id, l) == id \in DOMAIN idToBreak[f] /\ idToBreak[f][id] = l
IsSet(c, f, id, l) == c.cmd = "set" /\ c.file = f /\ c.id = id /\ c.line = l
IsRemove(c, f, id) == c.cmd = "remove" /\ c.file = f /\ c.id = id

\* The commands a handler sends.
LEMMA SetCommand ==
  ASSUME NEW f \in Source, NEW id \in BpId, NEW l \in Line
  PROVE  /\ SetBreak(f, id, l) \in Command
         /\ SetBreak(f, id, l).cmd = "set" /\ SetBreak(f, id, l).id = id
         /\ \A g, k, m : IsSet(SetBreak(f, id, l), g, k, m) <=> g = f /\ k = id /\ m = l
         /\ \A g, k : ~IsRemove(SetBreak(f, id, l), g, k)
BY DEF SetBreak, Command, IsSet, IsRemove

LEMMA RemoveCommand ==
  ASSUME NEW f \in Source, NEW id \in BpId
  PROVE  /\ RemoveBreak(f, id) \in Command
         /\ RemoveBreak(f, id).cmd = "remove" /\ RemoveBreak(f, id).id = id
         /\ \A g, k, m : ~IsSet(RemoveBreak(f, id), g, k, m)
         /\ \A g, k : IsRemove(RemoveBreak(f, id), g, k) <=> g = f /\ k = id
BY DEF RemoveBreak, Command, IsSet, IsRemove

LEMMA RunCommand ==
  /\ Run \in Command /\ Run.cmd = "run"
  /\ \A g, k, m : ~IsSet(Run, g, k, m)
  /\ \A g, k : ~IsRemove(Run, g, k)
BY DEF Run, Command, IsSet, IsRemove

LEMMA HeadCommand ==
  ASSUME TypeInv, pipe # <<>>
  PROVE  /\ Tail(pipe) \in Seq(Command)
         /\ 1 \in DOMAIN pipe /\ pipe[1] = Head(pipe)
         /\ Head(pipe).cmd = "set" => Head(pipe) \in [cmd : {"set"}, file : Source, id : BpId, line : Line]
         /\ Head(pipe).cmd = "remove" => Head(pipe) \in [cmd : {"remove"}, file : Source, id : BpId]
<1>1. Head(pipe) \in Command /\ Tail(pipe) \in Seq(Command) /\ 1 \in DOMAIN pipe /\ pipe[1] = Head(pipe)
  BY TailPositions DEF TypeInv, TypeOK
<1> QED
  BY <1>1 DEF Command, Run

\* CMD_SET_BREAK and CMD_REMOVE_BREAK change the entry of one id in one source.
LEMMA SetEffect ==
  ASSUME TypeInv, PydevdSetBreak
  PROVE  LET c == Head(pipe)
         IN /\ pipe # <<>> /\ pipe' = Tail(pipe) /\ c.cmd = "set"
            /\ c.file \in Source /\ c.id \in BpId /\ c.line \in Line
            /\ idToBreak' \in [Source -> Table] /\ breaks' \in [Source -> SUBSET Line]
            /\ \A f \in Source : breaks'[f] = Range(idToBreak'[f])
            /\ \A f \in Source : \A id :
                 id \in DOMAIN idToBreak'[f] <=> id \in DOMAIN idToBreak[f] \/ (f = c.file /\ id = c.id)
            /\ \A f \in Source : \A id, l :
                 Has(f, id, l)' <=> IF f = c.file /\ id = c.id THEN l = c.line ELSE Has(f, id, l)
<1> DEFINE c == Head(pipe)
           t == idToBreak[c.file]
           u == [id \in DOMAIN t \cup {c.id} |-> IF id = c.id THEN c.line ELSE t[id]]
<1>1. /\ pipe # <<>> /\ pipe' = Tail(pipe) /\ c.cmd = "set"
      /\ c.file \in Source /\ c.id \in BpId /\ c.line \in Line
  BY HeadCommand DEF PydevdSetBreak, Takes
<1>2. /\ idToBreak' = [idToBreak EXCEPT ![c.file] = u]
      /\ breaks' = [breaks EXCEPT ![c.file] = Range(idToBreak'[c.file])]
      /\ idToBreak \in [Source -> Table] /\ breaks \in [Source -> SUBSET Line]
      /\ \A f \in Source : breaks[f] = Range(idToBreak[f])
  BY DEF PydevdSetBreak, Consolidate, TypeInv, TypeOK
<1> HIDE DEF c
<1>3. PICK D \in SUBSET BpId : t \in [D -> Line]
  <2>1. t \in Table
    BY <1>1, <1>2
  <2> HIDE DEF t
  <2> QED
    BY <2>1 DEF Table
<1>4. u \in [D \cup {c.id} -> Line] /\ D \cup {c.id} \in SUBSET BpId /\ DOMAIN u = DOMAIN t \cup {c.id}
  <2>1. u \in [DOMAIN t \cup {c.id} -> Line]
    <3>1. \A id \in DOMAIN t \cup {c.id} : (IF id = c.id THEN c.line ELSE t[id]) \in Line
      BY <1>1, <1>3
    <3> QED
      BY <3>1
  <2>2. DOMAIN t = D
    BY <1>3
  <2> QED
    BY <1>1, <2>1, <2>2
<1>5. u \in Table
  BY <1>4 DEF Table
<1>6. /\ u[c.id] = c.line
      /\ \A id \in DOMAIN t : id # c.id => u[id] = t[id]
  OBVIOUS
<1>7. Range(u) \subseteq Line
  BY <1>4 DEF Range
<1> HIDE DEF u
<1>8. /\ idToBreak' \in [Source -> Table] /\ idToBreak'[c.file] = u
      /\ \A f \in Source : f # c.file => idToBreak'[f] = idToBreak[f]
  BY <1>1, <1>2, <1>5
<1>9. /\ breaks' \in [Source -> SUBSET Line]
      /\ \A f \in Source : breaks'[f] = Range(idToBreak'[f])
  BY <1>1, <1>2, <1>7, <1>8
<1>10. ASSUME NEW f \in Source, NEW id, NEW l
       PROVE  /\ id \in DOMAIN idToBreak'[f] <=> id \in DOMAIN idToBreak[f] \/ (f = c.file /\ id = c.id)
              /\ Has(f, id, l)' <=> IF f = c.file /\ id = c.id THEN l = c.line ELSE Has(f, id, l)
  BY <1>4, <1>6, <1>8 DEF Has
<1> QED
  BY <1>1, <1>8, <1>9, <1>10 DEF c

LEMMA RemoveEffect ==
  ASSUME TypeInv, PydevdRemoveBreak
  PROVE  LET c == Head(pipe)
         IN /\ pipe # <<>> /\ pipe' = Tail(pipe) /\ c.cmd = "remove"
            /\ c.file \in Source /\ c.id \in BpId
            /\ idToBreak' \in [Source -> Table] /\ breaks' \in [Source -> SUBSET Line]
            /\ \A f \in Source : breaks'[f] = Range(idToBreak'[f])
            /\ \A f \in Source : \A id :
                 id \in DOMAIN idToBreak'[f] <=> id \in DOMAIN idToBreak[f] /\ ~(f = c.file /\ id = c.id)
            /\ \A f \in Source : \A id, l :
                 Has(f, id, l)' <=> Has(f, id, l) /\ ~(f = c.file /\ id = c.id)
<1> DEFINE c == Head(pipe)
           t == idToBreak[c.file]
           u == Restrict(t, DOMAIN t \ {c.id})
<1>1. /\ pipe # <<>> /\ pipe' = Tail(pipe) /\ c.cmd = "remove"
      /\ c.file \in Source /\ c.id \in BpId
  BY HeadCommand DEF PydevdRemoveBreak, Takes
<1>2. /\ idToBreak \in [Source -> Table] /\ breaks \in [Source -> SUBSET Line]
      /\ \A f \in Source : breaks[f] = Range(idToBreak[f])
      /\ \/ /\ c.id \in DOMAIN t
            /\ idToBreak' = [idToBreak EXCEPT ![c.file] = u]
            /\ breaks' = [breaks EXCEPT ![c.file] = Range(idToBreak'[c.file])]
         \/ c.id \notin DOMAIN t /\ UNCHANGED <<idToBreak, breaks>>
  BY DEF PydevdRemoveBreak, Consolidate, TypeInv, TypeOK
<1> HIDE DEF c
<1>3. CASE c.id \notin DOMAIN t
  <2>1. UNCHANGED <<idToBreak, breaks>>
    BY <1>2, <1>3
  <2>2. ASSUME NEW f \in Source, NEW id, NEW l
        PROVE  /\ id \in DOMAIN idToBreak'[f] <=> id \in DOMAIN idToBreak[f] /\ ~(f = c.file /\ id = c.id)
               /\ Has(f, id, l)' <=> Has(f, id, l) /\ ~(f = c.file /\ id = c.id)
    BY <1>3, <2>1 DEF Has
  <2> QED
    BY <1>1, <1>2, <2>1, <2>2 DEF c
<1>4. CASE c.id \in DOMAIN t
  <2>1. PICK D \in SUBSET BpId : t \in [D -> Line]
    <3>1. t \in Table
      BY <1>1, <1>2
    <3> HIDE DEF t
    <3> QED
      BY <3>1 DEF Table
  <2>2. /\ u \in [D \ {c.id} -> Line] /\ D \ {c.id} \in SUBSET BpId /\ DOMAIN u = DOMAIN t \ {c.id}
        /\ \A id \in DOMAIN t : id # c.id => u[id] = t[id]
    <3>1. u = [id \in DOMAIN t \ {c.id} |-> t[id]] /\ DOMAIN t = D
      BY <2>1 DEF Restrict
    <3> HIDE DEF u
    <3> QED
      BY <2>1, <3>1
  <2>3. u \in Table /\ Range(u) \subseteq Line
    BY <2>2 DEF Table, Range
  <2> HIDE DEF u
  <2>4. /\ idToBreak' \in [Source -> Table] /\ idToBreak'[c.file] = u
        /\ \A f \in Source : f # c.file => idToBreak'[f] = idToBreak[f]
    BY <1>1, <1>2, <1>4, <2>3
  <2>5. /\ breaks' \in [Source -> SUBSET Line]
        /\ \A f \in Source : breaks'[f] = Range(idToBreak'[f])
    BY <1>1, <1>2, <1>4, <2>3, <2>4
  <2>6. ASSUME NEW f \in Source, NEW id, NEW l
        PROVE  /\ id \in DOMAIN idToBreak'[f] <=> id \in DOMAIN idToBreak[f] /\ ~(f = c.file /\ id = c.id)
               /\ Has(f, id, l)' <=> Has(f, id, l) /\ ~(f = c.file /\ id = c.id)
    BY <2>2, <2>4 DEF Has
  <2> QED
    BY <1>1, <2>4, <2>5, <2>6 DEF c
<1> QED
  BY <1>3, <1>4

LEMMA InitTypeInv == Init => TypeInv
<1> SUFFICES ASSUME Init PROVE TypeInv
    OBVIOUS
<1>1. <<>> \in LineSeq
  <2> DEFINE s == <<>>
  <2>1. s \in Seq(Line) /\ Len(s) = 0
    BY EmptySeq
  <2> HIDE DEF s
  <2>2. Len(s) <= MaxLines
    BY <2>1, BoundAssumption
  <2>3. s \in LineSeq
    BY <2>1, <2>2, LineSeqList
  <2> QED
    BY <2>3 DEF s
<1>2. <<>> \in Seq(Command)
  BY EmptySeq
<1>3. [id \in {} |-> 0] \in Table /\ Range([id \in {} |-> 0]) = {}
  BY DEF Table, Range
<1>4. 1 \in 1..(MaxBpId + 1)
  BY Products, BoundAssumption DEF MaxBpId
<1>5. NumbersLeft
  <2>1. Len(todo) = 0 /\ 0 * MaxLines = 0
    BY EmptySeq, BoundAssumption DEF Init
  <2> QED
    BY <2>1 DEF Init, NumbersLeft
<1>6. Used
  BY <1>2 DEF Init, Used
<1>7. TypeOK
  <2>1. \A f \in Source : DOMAIN idToBreak[f] \subseteq BpId /\ Range(idToBreak[f]) \subseteq Line
    BY <1>3 DEF Init
  <2>2. /\ todo \in LineSeq /\ pipe \in Seq(Command) /\ nextId \in 1..(MaxBpId + 1)
        /\ requests \in 0..MaxRequests
    BY <1>1, <1>2, <1>4, BoundAssumption DEF Init
  <2> QED
    BY <2>1, <2>2 DEF Init, TypeOK
<1>8. idToBreak \in [Source -> Table] /\ \A f \in Source : breaks[f] = Range(idToBreak[f])
  BY <1>3 DEF Init
<1> QED
  BY <1>5, <1>6, <1>7, <1>8, FS_EmptySet DEF Init, TypeInv

LEMMA BeginTypeInv ==
  ASSUME TypeInv, NEW f \in Source, NEW lines \in Requests, Begin(f, lines)
  PROVE  TypeInv'
<1>1. /\ path = NoSource /\ todo = <<>> /\ requests < MaxRequests /\ requests' = requests + 1
      /\ path' = f /\ doomed' = bpMap /\ todo' = lines
      /\ requested' = [requested EXCEPT ![f] = Lines(lines)]
      /\ atRun' = [atRun EXCEPT ![f] = {}] /\ touched' = touched \cup {f}
      /\ UNCHANGED <<bpMap, nextId, pipe, idToBreak, breaks, ready, configured>>
  BY DEF Begin, TypeInv, pydevd
<1>2. lines \in LineSeq /\ lines \in Seq(Line) /\ Len(lines) <= MaxLines /\ Len(lines) \in Nat
  BY LineSeqList, LenProperties DEF Requests
<1>3. Lines(lines) \subseteq Line
  BY <1>2, LenProperties, ElementOfSeq DEF Lines
<1>4. NumbersLeft'
  <2>1. requests \in Nat /\ MaxLines \in Nat /\ nextId \in Nat /\ requests * MaxLines \in Nat
        /\ (requests + 1) * MaxLines = requests * MaxLines + MaxLines
    BY BoundAssumption, Products DEF TypeInv, TypeOK
  <2>2. nextId <= requests * MaxLines + 1
    <3>1. Len(todo) = 0
      BY <1>1, EmptySeq
    <3> QED
      BY <2>1, <3>1 DEF TypeInv, NumbersLeft
  <2> QED
    BY <1>1, <1>2, <2>1, <2>2 DEF NumbersLeft
<1>5. requests' \in 0..MaxRequests
  BY <1>1, BoundAssumption DEF TypeInv, TypeOK
<1>6. IsFiniteSet(touched')
  BY <1>1, FS_AddElement DEF TypeInv
<1> QED
  BY <1>1, <1>2, <1>3, <1>4, <1>5, <1>6, NoSourceAssumption DEF TypeInv, TypeOK, Used

LEMMA RemoveOneTypeInv ==
  ASSUME TypeInv, NEW pair \in doomed, RemoveOne(pair)
  PROVE  TypeInv'
<1> DEFINE c == RemoveBreak(path, pair[2])
<1>1. /\ path \in Source /\ pair \in Source \X BpId /\ pair \in bpMap /\ pair[2] < nextId
      /\ pipe' = Append(pipe, c) /\ bpMap' = bpMap \ {pair} /\ doomed' = doomed \ {pair}
      /\ UNCHANGED <<nextId, path, todo, idToBreak, breaks, ready, configured,
                     requested, touched, atRun, requests>>
  BY DEF RemoveOne, TypeInv, TypeOK, Used, pydevd, history
<1>2. c \in Command /\ c.id = pair[2]
  BY <1>1, RemoveCommand
<1> HIDE DEF c
<1>3. /\ pipe' \in Seq(Command)
      /\ \A i \in DOMAIN pipe' : (\E j \in DOMAIN pipe : pipe'[i] = pipe[j]) \/ pipe'[i] = c
  BY <1>1, <1>2, AppendPositions DEF TypeInv, TypeOK
<1>4. Used'
  BY <1>1, <1>2, <1>3 DEF TypeInv, Used
<1>5. NumbersLeft'
  BY <1>1 DEF TypeInv, NumbersLeft
<1> QED
  BY <1>1, <1>3, <1>4, <1>5 DEF TypeInv, TypeOK

LEMMA SetOneTypeInv ==
  ASSUME TypeInv, SetOne
  PROVE  /\ TypeInv'
         /\ nextId \in BpId /\ Head(todo) \in Line
<1> DEFINE l == Head(todo)
           c == SetBreak(path, nextId, l)
<1>1. /\ path \in Source /\ doomed = {} /\ todo # <<>>
      /\ bpMap' = bpMap \cup {<<path, nextId>>} /\ pipe' = Append(pipe, c)
      /\ nextId' = nextId + 1 /\ todo' = Tail(todo)
      /\ UNCHANGED <<path, doomed, idToBreak, breaks, ready, configured,
                     requested, touched, atRun, requests>>
  BY DEF SetOne, TypeInv, TypeOK, pydevd, history
<1>2. /\ todo \in Seq(Line) /\ Len(todo) <= MaxLines
      /\ l \in Line /\ Tail(todo) \in Seq(Line)
      /\ Len(todo) \in Nat \ {0} /\ Len(Tail(todo)) = Len(todo) - 1
  BY <1>1, LineSeqList, HeadTailProperties, EmptySeq DEF TypeInv, TypeOK
<1>3. todo' \in LineSeq
  <2>1. todo' \in Seq(Line) /\ Len(todo') <= MaxLines
    BY <1>1, <1>2, BoundAssumption
  <2> QED
    BY <2>1, LineSeqList
<1>4. nextId \in Nat \ {0} /\ nextId <= MaxBpId /\ MaxBpId \in Nat
  <2>1. requests \in Nat /\ requests <= MaxRequests /\ MaxRequests \in Nat /\ MaxLines \in Nat
    BY BoundAssumption DEF TypeInv, TypeOK
  <2>2. requests * MaxLines <= MaxBpId /\ requests * MaxLines \in Nat /\ MaxBpId \in Nat
    BY <2>1, Products DEF MaxBpId
  <2>3. nextId + Len(todo) <= requests * MaxLines + 1 /\ nextId \in Nat \ {0}
    BY <2>2 DEF TypeInv, TypeOK, NumbersLeft
  <2> QED
    BY <1>2, <2>2, <2>3
<1>5. nextId \in BpId /\ nextId' \in 1..(MaxBpId + 1)
  BY <1>1, <1>4 DEF BpId
<1>6. c \in Command /\ c.id = nextId
  BY <1>1, <1>2, <1>5, SetCommand
<1> HIDE DEF l, c
<1>7. /\ pipe' \in Seq(Command)
      /\ \A i \in DOMAIN pipe' : (\E j \in DOMAIN pipe : pipe'[i] = pipe[j]) \/ pipe'[i] = c
  BY <1>1, <1>6, AppendPositions DEF TypeInv, TypeOK
<1>8. NumbersLeft'
  <2>1. nextId + Len(todo) = nextId' + Len(todo')
    BY <1>1, <1>2, <1>4
  <2> QED
    BY <1>1, <2>1 DEF TypeInv, NumbersLeft
<1>9. Used'
  <2>1. nextId < nextId' /\ nextId \in Nat /\ \A n \in Nat : n < nextId => n < nextId'
    BY <1>1, <1>4
  <2>2. /\ \A p \in bpMap : p[2] \in Nat
        /\ \A i \in DOMAIN pipe : pipe[i].cmd \in {"set", "remove"} => pipe[i].id \in Nat
        /\ \A f \in Source : DOMAIN idToBreak[f] \subseteq Nat
    <3>1. BpId \subseteq Nat
      BY DEF BpId
    <3>2. \A i \in DOMAIN pipe : pipe[i] \in Command
      BY LenProperties, ElementOfSeq DEF TypeInv, TypeOK
    <3>3. \A d \in Command : d.cmd \in {"set", "remove"} => d.id \in BpId
      BY DEF Command, Run
    <3> QED
      BY <3>1, <3>2, <3>3 DEF TypeInv, TypeOK
  <2>3. \A p \in bpMap' : p[2] < nextId'
    BY <1>1, <2>1, <2>2 DEF TypeInv, Used
  <2>4. \A i \in DOMAIN pipe' : pipe'[i].cmd \in {"set", "remove"} => pipe'[i].id < nextId'
    BY <1>6, <1>7, <2>1, <2>2 DEF TypeInv, Used
  <2>5. \A f \in Source : \A id \in DOMAIN idToBreak'[f] : id < nextId'
    BY <1>1, <2>1, <2>2 DEF TypeInv, Used
  <2> QED
    BY <2>3, <2>4, <2>5 DEF Used
<1>10. bpMap' \in SUBSET (Source \X BpId)
  BY <1>1, <1>5 DEF TypeInv, TypeOK
<1> QED
  BY <1>1, <1>2, <1>3, <1>5, <1>7, <1>8, <1>9, <1>10 DEF TypeInv, TypeOK, l

LEMMA RunAppended ==
  ASSUME TypeInv, ConfigurationDone
  PROVE  TypeInv'
<1>1. /\ path = NoSource /\ configured' = TRUE /\ pipe' = Append(pipe, Run) /\ atRun' = requested
      /\ UNCHANGED <<bpMap, nextId, path, doomed, todo, idToBreak, breaks, ready,
                     requested, touched, requests>>
  BY DEF ConfigurationDone, handler, pydevd
<1>2. Run \in Command /\ Run.cmd = "run"
  BY RunCommand
<1>3. /\ pipe' \in Seq(Command)
      /\ \A i \in DOMAIN pipe' : (\E j \in DOMAIN pipe : pipe'[i] = pipe[j]) \/ pipe'[i] = Run
  BY <1>1, <1>2, AppendPositions DEF TypeInv, TypeOK
<1>4. Used' /\ NumbersLeft'
  BY <1>1, <1>2, <1>3 DEF TypeInv, Used, NumbersLeft
<1> QED
  BY <1>1, <1>3, <1>4 DEF TypeInv, TypeOK

\* A command that pydevd has taken.
LEMMA PydevdTypeInv ==
  ASSUME TypeInv, PydevdStep
  PROVE  TypeInv'
<1> DEFINE c == Head(pipe)
<1>1. /\ UNCHANGED <<bpMap, nextId, path, doomed, todo, configured, requested, touched, atRun, requests>>
      /\ pipe # <<>> /\ pipe' = Tail(pipe) /\ ready' \in BOOLEAN
  BY DEF PydevdStep, PydevdSetBreak, PydevdRemoveBreak, PydevdRun, Takes, handler, history,
         TypeInv, TypeOK
<1>2. pipe' \in Seq(Command) /\ \A i \in DOMAIN pipe' : \E j \in DOMAIN pipe : pipe'[i] = pipe[j]
  BY <1>1, TailPositions DEF TypeInv, TypeOK
<1>3. /\ idToBreak' \in [Source -> Table] /\ breaks' \in [Source -> SUBSET Line]
      /\ \A f \in Source : breaks'[f] = Range(idToBreak'[f])
      /\ \A f \in Source : \A id \in DOMAIN idToBreak'[f] : id < nextId
  <2>1. CASE PydevdSetBreak
    <3>1. c.id < nextId
      BY <2>1, SetEffect, HeadCommand DEF TypeInv, Used
    <3> QED
      BY <2>1, <3>1, SetEffect DEF TypeInv, Used
  <2>2. CASE PydevdRemoveBreak
    BY <2>2, RemoveEffect DEF TypeInv, Used
  <2>3. CASE PydevdRun
    BY <2>3 DEF PydevdRun, TypeInv, TypeOK, Used
  <2> QED
    BY <2>1, <2>2, <2>3 DEF PydevdStep
<1>4. \A f \in Source : DOMAIN idToBreak'[f] \subseteq BpId /\ Range(idToBreak'[f]) \subseteq Line
  BY <1>3 DEF Table
<1>5. Used' /\ NumbersLeft'
  BY <1>1, <1>2, <1>3 DEF TypeInv, Used, NumbersLeft
<1> QED
  BY <1>1, <1>2, <1>3, <1>4, <1>5 DEF TypeInv, TypeOK

LEMMA NextTypeInv == TypeInv /\ [Next]_vars => TypeInv'
<1> SUFFICES ASSUME TypeInv, [Next]_vars PROVE TypeInv'
    OBVIOUS
<1>1. CASE Respond
  BY <1>1 DEF Respond, pydevd, history, TypeInv, TypeOK, Used, NumbersLeft
<1>2. CASE UNCHANGED vars
  BY <1>2 DEF vars, handler, pydevd, history, TypeInv, TypeOK, Used, NumbersLeft
<1> QED
  BY <1>1, <1>2, BeginTypeInv, RemoveOneTypeInv, SetOneTypeInv, RunAppended, PydevdTypeInv
     DEF Next, ServerStep

-----------------------------------------------------------------------------
\* What pydevd knows, or will know, of an id; and whether it is about to drop it.
Knows(f, id, l) == Has(f, id, l) \/ \E i \in DOMAIN pipe : IsSet(pipe[i], f, id, l)
Removed(f, id) == \E i \in DOMAIN pipe : IsRemove(pipe[i], f, id)

\* An id stands for one line.
Agree == \A f \in Source, id \in BpId : \A l, m \in Line : Knows(f, id, l) /\ Knows(f, id, m) => l = m

\* A requested line is known to pydevd under an id that nothing is going to remove, or
\* it is still to be set by the handler.
Standing(f, l) ==
  \/ \E id \in BpId : /\ Knows(f, id, l)
                      /\ ~Removed(f, id)
                      /\ path = f => \A p \in doomed : p[2] # id
  \/ path = f /\ \E i \in DOMAIN todo : todo[i] = l

KeptInv == Agree /\ \A f \in Source : \A l \in requested[f] : Standing(f, l)

\* A line of atRun is in force, or its command is ahead of CMD_RUN in the pipe.
AheadOfRun(f, id, l) ==
  \E i \in DOMAIN pipe : /\ IsSet(pipe[i], f, id, l)
                         /\ \A j \in DOMAIN pipe : pipe[j].cmd = "run" => i < j

InForce(f, l) ==
  \E id \in BpId : ~Removed(f, id) /\ (Has(f, id, l) \/ (~ready /\ AheadOfRun(f, id, l)))

RunInv ==
  /\ \A f \in Source : \A l \in atRun[f] : InForce(f, l)
  /\ path # NoSource => atRun[path] = {}
  /\ ~configured => ~ready /\ \A i \in DOMAIN pipe : pipe[i].cmd # "run"

\* Whatever pydevd has, or is about to have, in the only source is a live pair of bp_map
\* or has its removal on the way.
Accounted(f) ==
  /\ \A id \in DOMAIN idToBreak[f] : <<f, id>> \in bpMap \/ Removed(f, id)
  /\ \A i \in DOMAIN pipe :
       pipe[i].cmd = "set" /\ pipe[i].file = f =>
         \/ <<f, pipe[i].id>> \in bpMap
         \/ \E j \in DOMAIN pipe : i < j /\ IsRemove(pipe[j], f, pipe[i].id)

ExactInv ==
  /\ path \in touched \cup {NoSource}
  /\ \A p \in bpMap : p[1] \in touched
  /\ \A i \in DOMAIN todo : todo[i] \in requested[path]
  /\ \A f \in Source : touched \subseteq {f} => Accounted(f)
  /\ \A f \in Source, id \in BpId, l \in Line :
       <<f, id>> \in bpMap \ doomed /\ Knows(f, id, l) => l \in requested[f]

IInv == TypeInv /\ KeptInv /\ RunInv /\ ExactInv

\* The pairs of bp_map, the commands and pydevd's tables keep their types; the numbers
\* bp_map hands out are bounded by the requests.
THEOREM TypeCorrect == Spec => []TypeOK
<1>1. TypeInv => TypeOK
  BY DEF TypeInv
<1> QED
  BY <1>1, InitTypeInv, NextTypeInv, PTL DEF Spec

-----------------------------------------------------------------------------
\* Numbers of commands and entries have been handed out.
LEMMA KnownNumbers ==
  ASSUME TypeInv, NEW f \in Source, NEW id \in BpId
  PROVE  /\ \A l : Knows(f, id, l) => id < nextId
         /\ Removed(f, id) => id < nextId
         /\ \A l : Has(f, id, l) => l \in Line
BY DEF TypeInv, TypeOK, Used, Knows, Removed, Has, IsSet, IsRemove, Range

\* A command the handler sends adds what it says, and nothing else changes.
LEMMA SendEffect ==
  ASSUME TypeInv, NEW c \in Command, pipe' = Append(pipe, c), UNCHANGED idToBreak
  PROVE  /\ \A i \in DOMAIN pipe : /\ i \in Nat /\ i < Len(pipe) + 1
                                   /\ i \in DOMAIN pipe' /\ pipe'[i] = pipe[i]
         /\ \A i \in DOMAIN pipe' : i \in DOMAIN pipe \/ i = Len(pipe) + 1
         /\ Len(pipe) + 1 \in DOMAIN pipe' /\ pipe'[Len(pipe) + 1] = c
         /\ \A f, id, l : Has(f, id, l)' <=> Has(f, id, l)
         /\ \A f, id, l : Knows(f, id, l)' <=> Knows(f, id, l) \/ IsSet(c, f, id, l)
         /\ \A f, id : Removed(f, id)' <=> Removed(f, id) \/ IsRemove(c, f, id)
<1>1. /\ \A i \in DOMAIN pipe : /\ i \in Nat /\ i < Len(pipe) + 1
                                /\ i \in DOMAIN pipe' /\ pipe'[i] = pipe[i]
      /\ \A i \in DOMAIN pipe' : (i \in DOMAIN pipe /\ pipe'[i] = pipe[i]) \/ i = Len(pipe) + 1
      /\ Len(pipe) + 1 \in DOMAIN pipe' /\ pipe'[Len(pipe) + 1] = c
  BY AppendPositions DEF TypeInv, TypeOK
<1>2. \A f, id, l : Has(f, id, l)' <=> Has(f, id, l)
  BY DEF Has
<1>3. \A f, id, l : Knows(f, id, l)' <=> Knows(f, id, l) \/ IsSet(c, f, id, l)
  BY <1>1, <1>2 DEF Knows
<1>4. \A f, id : Removed(f, id)' <=> Removed(f, id) \/ IsRemove(c, f, id)
  BY <1>1 DEF Removed
<1> QED
  BY <1>1, <1>2, <1>3, <1>4

\* A command pydevd takes moves from the pipe into the table: an id nothing is going to
\* remove stays known.
LEMMA TakeEffect ==
  ASSUME TypeInv, Agree, PydevdStep
  PROVE  /\ \A i \in DOMAIN pipe' : i \in Nat /\ i + 1 \in DOMAIN pipe /\ i + 1 > 1 /\ pipe'[i] = pipe[i + 1]
         /\ \A i, j \in DOMAIN pipe' : i + 1 > j + 1 <=> i > j
         /\ \A i \in DOMAIN pipe : i # 1 => \E j \in DOMAIN pipe' : i = j + 1
         /\ \A f \in Source, id \in BpId, l \in Line :
              /\ Knows(f, id, l)' => Knows(f, id, l)
              /\ Removed(f, id)' => Removed(f, id)
              /\ ~Removed(f, id) /\ Knows(f, id, l) => Knows(f, id, l)'
              /\ ~Removed(f, id) /\ Has(f, id, l) => Has(f, id, l)'
              /\ ~Removed(f, id) /\ IsSet(pipe[1], f, id, l) => Has(f, id, l)'
<1>1. pipe # <<>> /\ pipe' = Tail(pipe) /\ pipe \in Seq(Command)
  BY DEF PydevdStep, PydevdSetBreak, PydevdRemoveBreak, PydevdRun, Takes, TypeInv, TypeOK
<1>2. /\ \A i \in DOMAIN pipe' : i \in Nat /\ i + 1 \in DOMAIN pipe /\ i + 1 > 1 /\ pipe'[i] = pipe[i + 1]
      /\ \A i, j \in DOMAIN pipe' : i + 1 > j + 1 <=> i > j
      /\ \A i \in DOMAIN pipe : i # 1 => \E j \in DOMAIN pipe' : i = j + 1
      /\ 1 \in DOMAIN pipe /\ pipe[1] = Head(pipe)
  BY <1>1, TailPositions
<1>3. ASSUME NEW f \in Source, NEW id \in BpId, NEW l \in Line
      PROVE  /\ Has(f, id, l)' => Has(f, id, l) \/ IsSet(pipe[1], f, id, l)
             /\ ~Removed(f, id) /\ Has(f, id, l) => Has(f, id, l)'
             /\ ~Removed(f, id) /\ IsSet(pipe[1], f, id, l) => Has(f, id, l)'
  <2>1. CASE PydevdSetBreak
    <3>1. Has(f, id, l)' <=> IF f = pipe[1].file /\ id = pipe[1].id THEN l = pipe[1].line ELSE Has(f, id, l)
      BY <1>2, <2>1, SetEffect
    <3>2. pipe[1].cmd = "set" /\ pipe[1].line \in Line
      BY <1>2, <2>1, SetEffect
    <3>3. f = pipe[1].file /\ id = pipe[1].id => IsSet(pipe[1], f, id, pipe[1].line)
      BY <3>2 DEF IsSet
    <3>4. f = pipe[1].file /\ id = pipe[1].id /\ Has(f, id, l) => l = pipe[1].line
      BY <1>2, <3>2, <3>3 DEF Agree, Knows
    <3> QED
      BY <3>1, <3>3, <3>4 DEF IsSet
  <2>2. CASE PydevdRemoveBreak
    <3>1. Has(f, id, l)' <=> Has(f, id, l) /\ ~(f = pipe[1].file /\ id = pipe[1].id)
      BY <1>2, <2>2, RemoveEffect
    <3>2. pipe[1].cmd = "remove"
      BY <1>2, <2>2, RemoveEffect
    <3>3. f = pipe[1].file /\ id = pipe[1].id => Removed(f, id)
      BY <1>2, <3>2 DEF Removed, IsRemove
    <3> QED
      BY <3>1, <3>2, <3>3 DEF IsSet
  <2>3. CASE PydevdRun
    BY <1>2, <2>3 DEF PydevdRun, Takes, Has, IsSet
  <2> QED
    BY <2>1, <2>2, <2>3 DEF PydevdStep
<1>4. ASSUME NEW f \in Source, NEW id \in BpId, NEW l \in Line
      PROVE  /\ Knows(f, id, l)' => Knows(f, id, l)
             /\ ~Removed(f, id) /\ Knows(f, id, l) => Knows(f, id, l)'
  BY <1>2, <1>3 DEF Knows
<1>5. \A f \in Source, id \in BpId : Removed(f, id)' => Removed(f, id)
  BY <1>2 DEF Removed
<1> QED
  BY <1>2, <1>3, <1>4, <1>5

-----------------------------------------------------------------------------
\* No requested line is lost.
LEMMA BeginKept ==
  ASSUME TypeInv, KeptInv, NEW f \in Source, NEW lines \in Requests, Begin(f, lines)
  PROVE  KeptInv'
<1>1. /\ path = NoSource /\ path' = f /\ todo' = lines
      /\ requested' = [requested EXCEPT ![f] = Lines(lines)]
      /\ requested \in [Source -> SUBSET Line]
      /\ UNCHANGED <<pipe, idToBreak>>
  BY DEF Begin, TypeInv, TypeOK, pydevd
<1>2. /\ \A g, id, l : Knows(g, id, l)' <=> Knows(g, id, l)
      /\ \A g, id : Removed(g, id)' <=> Removed(g, id)
  BY <1>1 DEF Knows, Has, Removed
<1>3. Agree'
  BY <1>2 DEF KeptInv, Agree
<1>4. ASSUME NEW g \in Source, NEW l \in requested'[g] PROVE Standing(g, l)'
  <2>1. CASE g = f
    <3>1. \E i \in DOMAIN lines : lines[i] = l
      BY <1>1, <1>4, <2>1 DEF Lines
    <3> QED
      BY <1>1, <2>1, <3>1 DEF Standing
  <2>2. CASE g # f
    <3>1. Standing(g, l) /\ path # g
      BY <1>1, <1>4, <2>2, NoSourceAssumption DEF KeptInv
    <3>2. PICK id \in BpId : Knows(g, id, l) /\ ~Removed(g, id)
      BY <3>1 DEF Standing
    <3> QED
      BY <1>1, <1>2, <2>2, <3>2 DEF Standing
  <2> QED
    BY <2>1, <2>2
<1> QED
  BY <1>3, <1>4 DEF KeptInv

LEMMA RemoveOneKept ==
  ASSUME TypeInv, KeptInv, NEW pair \in doomed, RemoveOne(pair)
  PROVE  KeptInv'
<1> DEFINE c == RemoveBreak(path, pair[2])
<1>1. /\ path \in Source /\ pair[2] \in BpId /\ pipe' = Append(pipe, c) /\ doomed' = doomed \ {pair}
      /\ UNCHANGED <<path, todo, idToBreak, requested>>
  BY DEF RemoveOne, TypeInv, TypeOK, pydevd, history
<1>2. /\ c \in Command
      /\ \A g, k, m : ~IsSet(c, g, k, m)
      /\ \A g, k : IsRemove(c, g, k) <=> g = path /\ k = pair[2]
  BY <1>1, RemoveCommand
<1> HIDE DEF c
<1>3. /\ \A g, id, l : Knows(g, id, l)' <=> Knows(g, id, l)
      /\ \A g, id : Removed(g, id)' <=> Removed(g, id) \/ (g = path /\ id = pair[2])
  BY <1>1, <1>2, SendEffect
<1>4. Agree'
  BY <1>3 DEF KeptInv, Agree
<1>5. ASSUME NEW g \in Source, NEW l \in requested'[g] PROVE Standing(g, l)'
  <2>1. Standing(g, l)
    BY <1>1, <1>5 DEF KeptInv
  <2>2. ASSUME NEW id \in BpId, Knows(g, id, l), ~Removed(g, id), path = g => \A p \in doomed : p[2] # id
        PROVE  Standing(g, l)'
    BY <1>1, <1>3, <2>2 DEF Standing
  <2>3. CASE path = g /\ \E i \in DOMAIN todo : todo[i] = l
    BY <1>1, <2>3 DEF Standing
  <2> QED
    BY <2>1, <2>2, <2>3 DEF Standing
<1> QED
  BY <1>4, <1>5 DEF KeptInv

\* What setting the first line of todo does to the knowledge about ids.
LEMMA SetOneSends ==
  ASSUME TypeInv, SetOne
  PROVE  /\ path \in Source /\ nextId \in BpId /\ Head(todo) \in Line
         /\ \A f, id, l : Knows(f, id, l)' <=> Knows(f, id, l) \/ (f = path /\ id = nextId /\ l = Head(todo))
         /\ \A f, id : Removed(f, id)' <=> Removed(f, id)
         /\ \A f \in Source, l \in Line : ~Knows(f, nextId, l) /\ ~Removed(f, nextId)
<1> DEFINE c == SetBreak(path, nextId, Head(todo))
<1>1. path \in Source /\ pipe' = Append(pipe, c) /\ UNCHANGED idToBreak
  BY DEF SetOne, TypeInv, TypeOK, pydevd
<1>2. nextId \in BpId /\ Head(todo) \in Line
  BY SetOneTypeInv
<1>3. /\ c \in Command
      /\ \A g, k : ~IsRemove(c, g, k)
      /\ \A g, k, m : IsSet(c, g, k, m) <=> g = path /\ k = nextId /\ m = Head(todo)
  BY <1>1, <1>2, SetCommand
<1> HIDE DEF c
<1>4. /\ \A f, id, l : Knows(f, id, l)' <=> Knows(f, id, l) \/ (f = path /\ id = nextId /\ l = Head(todo))
      /\ \A f, id : Removed(f, id)' <=> Removed(f, id)
  BY <1>1, <1>3, SendEffect
<1>5. \A f \in Source, l \in Line : ~Knows(f, nextId, l) /\ ~Removed(f, nextId)
  <2>1. ~(nextId < nextId)
    BY <1>2 DEF BpId
  <2> QED
    BY <1>2, <2>1, KnownNumbers
<1> QED
  BY <1>1, <1>2, <1>4, <1>5

LEMMA SetOneKept ==
  ASSUME TypeInv, KeptInv, SetOne
  PROVE  KeptInv'
<1>1. /\ path \in Source /\ doomed = {} /\ todo # <<>> /\ todo \in Seq(Line) /\ todo' = Tail(todo)
      /\ UNCHANGED <<path, doomed, requested>>
  BY LineSeqList DEF SetOne, TypeInv, TypeOK, history
<1>2. /\ todo[1] = Head(todo)
      /\ \A i \in DOMAIN todo : i # 1 => \E j \in DOMAIN todo' : todo'[j] = todo[i]
  BY <1>1, TailPositions
<1>3. Agree'
  BY SetOneSends DEF KeptInv, Agree
<1>4. ASSUME NEW g \in Source, NEW l \in requested'[g] PROVE Standing(g, l)'
  <2>1. Standing(g, l)
    BY <1>1, <1>4 DEF KeptInv
  <2>2. ASSUME NEW id \in BpId, Knows(g, id, l), ~Removed(g, id)
        PROVE  Standing(g, l)'
    BY <1>1, <2>2, SetOneSends DEF Standing
  <2>3. ASSUME path = g, NEW i \in DOMAIN todo, todo[i] = l PROVE Standing(g, l)'
    <3>1. CASE i = 1
      <4>1. l = Head(todo)
        BY <1>2, <2>3, <3>1
      <4> QED
        BY <1>1, <2>3, <4>1, SetOneSends DEF Standing
    <3>2. CASE i # 1
      BY <1>1, <1>2, <2>3, <3>2 DEF Standing
    <3> QED
      BY <3>1, <3>2
  <2> QED
    BY <2>1, <2>2, <2>3 DEF Standing
<1> QED
  BY <1>3, <1>4 DEF KeptInv

LEMMA RunKept ==
  ASSUME TypeInv, KeptInv, ConfigurationDone
  PROVE  KeptInv'
<1>1. pipe' = Append(pipe, Run) /\ UNCHANGED <<path, doomed, todo, idToBreak, requested>>
  BY DEF ConfigurationDone, handler, pydevd
<1>2. /\ \A g, id, l : Knows(g, id, l)' <=> Knows(g, id, l)
      /\ \A g, id : Removed(g, id)' <=> Removed(g, id)
  BY <1>1, RunCommand, SendEffect
<1> QED
  BY <1>1, <1>2 DEF KeptInv, Agree, Standing

LEMMA PydevdKept ==
  ASSUME TypeInv, KeptInv, PydevdStep
  PROVE  KeptInv'
<1>1. UNCHANGED <<path, doomed, todo, requested>>
  BY DEF PydevdStep, PydevdSetBreak, PydevdRemoveBreak, PydevdRun, handler, history
<1>2. Agree'
  BY TakeEffect DEF KeptInv, Agree
<1>3. ASSUME NEW g \in Source, NEW l \in requested'[g] PROVE Standing(g, l)'
  <2>1. Standing(g, l) /\ l \in Line
    BY <1>1, <1>3 DEF KeptInv, TypeInv, TypeOK
  <2>2. ASSUME NEW id \in BpId, Knows(g, id, l), ~Removed(g, id), path = g => \A p \in doomed : p[2] # id
        PROVE  Standing(g, l)'
    <3>1. Knows(g, id, l)' /\ ~Removed(g, id)'
      BY <2>1, <2>2, TakeEffect DEF KeptInv
    <3> QED
      BY <1>1, <2>2, <3>1 DEF Standing
  <2>3. CASE path = g /\ \E i \in DOMAIN todo : todo[i] = l
    BY <1>1, <2>3 DEF Standing
  <2> QED
    BY <2>1, <2>2, <2>3 DEF Standing
<1> QED
  BY <1>2, <1>3 DEF KeptInv

LEMMA RespondKept ==
  ASSUME TypeInv, KeptInv, Respond
  PROVE  KeptInv'
<1>1. /\ todo = <<>> /\ doomed = {} /\ path' = NoSource
      /\ UNCHANGED <<doomed, todo, pipe, idToBreak, requested>>
  BY DEF Respond, pydevd, history
<1>2. /\ \A g, id, l : Knows(g, id, l)' <=> Knows(g, id, l)
      /\ \A g, id : Removed(g, id)' <=> Removed(g, id)
  BY <1>1 DEF Knows, Has, Removed
<1>3. DOMAIN todo = {}
  BY <1>1
<1> QED
  BY <1>1, <1>2, <1>3 DEF KeptInv, Agree, Standing

-----------------------------------------------------------------------------
\* What was asked for before configurationDone is in force when the debuggee runs.
LEMMA SentInForce ==
  ASSUME TypeInv, NEW c \in Command, pipe' = Append(pipe, c), UNCHANGED <<idToBreak, ready>>,
         NEW f \in Source, NEW l, InForce(f, l), \A id \in BpId : ~IsRemove(c, f, id)
  PROVE  InForce(f, l)'
<1>1. PICK id \in BpId : ~Removed(f, id) /\ (Has(f, id, l) \/ (~ready /\ AheadOfRun(f, id, l)))
  BY DEF InForce
<1>2. ~Removed(f, id)' /\ (Has(f, id, l) => Has(f, id, l)')
  BY <1>1, SendEffect
<1>3. ASSUME AheadOfRun(f, id, l) PROVE AheadOfRun(f, id, l)'
  <2>1. PICK i \in DOMAIN pipe :
          IsSet(pipe[i], f, id, l) /\ \A j \in DOMAIN pipe : pipe[j].cmd = "run" => i < j
    BY <1>3 DEF AheadOfRun
  <2>2. i \in DOMAIN pipe' /\ pipe'[i] = pipe[i] /\ i < Len(pipe) + 1
    BY SendEffect
  <2>3. \A j \in DOMAIN pipe' : pipe'[j].cmd = "run" => i < j
    BY <2>1, <2>2, SendEffect
  <2> QED
    BY <2>1, <2>2, <2>3 DEF AheadOfRun
<1> QED
  BY <1>1, <1>2, <1>3 DEF InForce

LEMMA SentBeforeRun ==
  ASSUME TypeInv, NEW c \in Command, pipe' = Append(pipe, c), c.cmd # "run",
         ~configured => ~ready /\ \A i \in DOMAIN pipe : pipe[i].cmd # "run",
         UNCHANGED <<idToBreak, ready, configured>>
  PROVE  ~configured' => ~ready' /\ \A i \in DOMAIN pipe' : pipe'[i].cmd # "run"
BY SendEffect

LEMMA BeginRun ==
  ASSUME TypeInv, RunInv, NEW f \in Source, NEW lines \in Requests, Begin(f, lines)
  PROVE  RunInv'
<1>1. /\ path' = f /\ atRun' = [atRun EXCEPT ![f] = {}] /\ atRun \in [Source -> SUBSET Line]
      /\ UNCHANGED <<pipe, idToBreak, ready, configured>>
  BY DEF Begin, TypeInv, TypeOK, pydevd
<1>2. \A g, l : InForce(g, l)' <=> InForce(g, l)
  BY <1>1 DEF InForce, Removed, Has, AheadOfRun
<1> QED
  BY <1>1, <1>2 DEF RunInv

LEMMA RemoveOneRun ==
  ASSUME TypeInv, RunInv, NEW pair \in doomed, RemoveOne(pair)
  PROVE  RunInv'
<1> DEFINE c == RemoveBreak(path, pair[2])
<1>1. /\ path \in Source /\ pair[2] \in BpId /\ pipe' = Append(pipe, c)
      /\ UNCHANGED <<path, idToBreak, ready, configured, atRun>>
  BY DEF RemoveOne, TypeInv, TypeOK, pydevd, history
<1>2. c \in Command /\ c.cmd # "run" /\ \A g, k : IsRemove(c, g, k) <=> g = path /\ k = pair[2]
  BY <1>1, RemoveCommand
<1> HIDE DEF c
<1>3. atRun[path] = {}
  BY <1>1, NoSourceAssumption DEF RunInv
<1>4. ASSUME NEW f \in Source, NEW l \in atRun'[f] PROVE InForce(f, l)'
  BY <1>1, <1>2, <1>3, <1>4, SentInForce DEF RunInv
<1>5. ~configured' => ~ready' /\ \A i \in DOMAIN pipe' : pipe'[i].cmd # "run"
  BY <1>1, <1>2, SentBeforeRun DEF RunInv
<1> QED
  BY <1>1, <1>3, <1>4, <1>5 DEF RunInv

LEMMA SetOneRun ==
  ASSUME TypeInv, RunInv, SetOne
  PROVE  RunInv'
<1> DEFINE c == SetBreak(path, nextId, Head(todo))
<1>1. /\ path \in Source /\ pipe' = Append(pipe, c)
      /\ UNCHANGED <<path, idToBreak, ready, configured, atRun>>
  BY DEF SetOne, TypeInv, TypeOK, pydevd, history
<1>2. c \in Command /\ c.cmd # "run" /\ \A g, k : ~IsRemove(c, g, k)
  BY <1>1, SetOneTypeInv, SetCommand
<1> HIDE DEF c
<1>3. ASSUME NEW f \in Source, NEW l \in atRun'[f] PROVE InForce(f, l)'
  BY <1>1, <1>2, <1>3, SentInForce DEF RunInv
<1>4. ~configured' => ~ready' /\ \A i \in DOMAIN pipe' : pipe'[i].cmd # "run"
  BY <1>1, <1>2, SentBeforeRun DEF RunInv
<1> QED
  BY <1>1, <1>3, <1>4 DEF RunInv

\* CMD_RUN goes behind everything that was requested.
LEMMA ConfigurationDoneRun ==
  ASSUME TypeInv, KeptInv, RunInv, ConfigurationDone
  PROVE  RunInv'
<1>1. /\ path = NoSource /\ ~configured /\ configured' = TRUE /\ pipe' = Append(pipe, Run)
      /\ atRun' = requested /\ UNCHANGED <<path, idToBreak, ready>>
  BY DEF ConfigurationDone, handler, pydevd
<1>2. ASSUME NEW f \in Source, NEW l \in requested[f] PROVE InForce(f, l)
  <2>1. PICK id \in BpId : Knows(f, id, l) /\ ~Removed(f, id)
    BY <1>1, NoSourceAssumption DEF KeptInv, Standing
  <2> QED
    BY <1>1, <2>1 DEF RunInv, InForce, Knows, AheadOfRun
<1>3. \A f \in Source : \A l \in atRun'[f] : InForce(f, l)'
  BY <1>1, <1>2, RunCommand, SentInForce
<1> QED
  BY <1>1, <1>3 DEF RunInv

LEMMA PydevdRunInv ==
  ASSUME TypeInv, KeptInv, RunInv, PydevdStep
  PROVE  RunInv'
<1>1. /\ UNCHANGED <<path, configured, atRun>> /\ ready \in BOOLEAN
      /\ pipe \in Seq(Command) /\ pipe # <<>>
      /\ ready' = ready \/ (Head(pipe).cmd = "run" /\ ready')
  BY DEF PydevdStep, PydevdSetBreak, PydevdRemoveBreak, PydevdRun, Takes, handler, history,
         TypeInv, TypeOK
<1>2. 1 \in DOMAIN pipe /\ pipe[1] = Head(pipe)
  BY <1>1, TailPositions
<1>3. ASSUME NEW f \in Source, NEW l \in atRun'[f] PROVE InForce(f, l)'
  <2>1. l \in Line /\ InForce(f, l) /\ Agree
    BY <1>1, <1>3 DEF RunInv, KeptInv, TypeInv, TypeOK
  <2>2. PICK id \in BpId : ~Removed(f, id) /\ (Has(f, id, l) \/ (~ready /\ AheadOfRun(f, id, l)))
    BY <2>1 DEF InForce
  <2>3. ~Removed(f, id)'
    BY <2>1, <2>2, TakeEffect
  <2>4. CASE Has(f, id, l)
    BY <2>1, <2>2, <2>3, <2>4, TakeEffect DEF InForce
  <2>5. CASE ~ready /\ AheadOfRun(f, id, l)
    <3>1. PICK i \in DOMAIN pipe :
            IsSet(pipe[i], f, id, l) /\ \A j \in DOMAIN pipe : pipe[j].cmd = "run" => i < j
      BY <2>5 DEF AheadOfRun
    <3>2. CASE i = 1
      BY <2>1, <2>2, <2>3, <3>1, <3>2, TakeEffect DEF InForce
    <3>3. CASE i # 1
      <4>1. PICK k \in DOMAIN pipe' : i = k + 1
        BY <2>1, <3>3, TakeEffect
      <4>2. k \in Nat /\ pipe'[k] = pipe[i] /\ i > 1
        BY <2>1, <4>1, TakeEffect
      <4>3. ~ready'
        BY <1>1, <1>2, <2>5, <3>1, <4>1, <4>2
      <4>4. \A j \in DOMAIN pipe' : pipe'[j].cmd = "run" => k < j
        <5> SUFFICES ASSUME NEW j \in DOMAIN pipe', pipe'[j].cmd = "run" PROVE k < j
          OBVIOUS
        <5>1. j \in Nat /\ j + 1 \in DOMAIN pipe /\ pipe[j + 1].cmd = "run"
          BY <2>1, TakeEffect
        <5>2. k + 1 < j + 1
          BY <3>1, <4>1, <5>1
        <5> QED
          BY <4>2, <5>1, <5>2
      <4>5. AheadOfRun(f, id, l)'
        BY <3>1, <4>2, <4>4 DEF AheadOfRun
      <4> QED
        BY <2>3, <4>3, <4>5 DEF InForce
    <3> QED
      BY <3>2, <3>3
  <2> QED
    BY <2>2, <2>4, <2>5
<1>4. ~configured' => ~ready' /\ \A i \in DOMAIN pipe' : pipe'[i].cmd # "run"
  BY <1>1, <1>2, TakeEffect DEF RunInv, KeptInv
<1> QED
  BY <1>1, <1>3, <1>4 DEF RunInv

LEMMA RespondRun ==
  ASSUME TypeInv, RunInv, Respond
  PROVE  RunInv'
<1>1. path' = NoSource /\ UNCHANGED <<pipe, idToBreak, ready, configured, atRun>>
  BY DEF Respond, pydevd, history
<1>2. \A g, l : InForce(g, l)' <=> InForce(g, l)
  BY <1>1 DEF InForce, Removed, Has, AheadOfRun
<1> QED
  BY <1>1, <1>2 DEF RunInv

-----------------------------------------------------------------------------
\* Of a single source nothing is left over.
LEMMA BeginExact ==
  ASSUME TypeInv, ExactInv, NEW f \in Source, NEW lines \in Requests, Begin(f, lines)
  PROVE  ExactInv'
<1>1. /\ path' = f /\ todo' = lines /\ doomed' = bpMap /\ touched' = touched \cup {f}
      /\ requested' = [requested EXCEPT ![f] = Lines(lines)] /\ requested \in [Source -> SUBSET Line]
      /\ UNCHANGED <<bpMap, pipe, idToBreak>>
  BY DEF Begin, TypeInv, TypeOK, pydevd
<1>2. \A i \in DOMAIN todo' : todo'[i] \in requested'[path']
  BY <1>1 DEF Lines
<1>3. \A g \in Source : Accounted(g)' <=> Accounted(g)
  BY <1>1 DEF Accounted, Removed
<1>4. bpMap' \ doomed' = {}
  BY <1>1
<1> QED
  BY <1>1, <1>2, <1>3, <1>4 DEF ExactInv

LEMMA RemoveOneExact ==
  ASSUME TypeInv, ExactInv, NEW pair \in doomed, RemoveOne(pair)
  PROVE  ExactInv'
<1> DEFINE c == RemoveBreak(path, pair[2])
<1>1. /\ path \in Source /\ pair \in bpMap /\ pair[1] \in Source /\ pair[2] \in BpId
      /\ pair = <<pair[1], pair[2]>>
      /\ pipe' = Append(pipe, c) /\ bpMap' = bpMap \ {pair} /\ doomed' = doomed \ {pair}
      /\ UNCHANGED <<path, todo, idToBreak, requested, touched>>
  BY DEF RemoveOne, TypeInv, TypeOK, pydevd, history
<1>2. /\ c \in Command /\ c.cmd = "remove"
      /\ \A g, k, m : ~IsSet(c, g, k, m)
      /\ \A g, k : IsRemove(c, g, k) <=> g = path /\ k = pair[2]
  BY <1>1, RemoveCommand
<1> HIDE DEF c
<1>3. /\ \A g, id, l : Knows(g, id, l)' <=> Knows(g, id, l)
      /\ \A g, id : Removed(g, id)' <=> Removed(g, id) \/ (g = path /\ id = pair[2])
  BY <1>1, <1>2, SendEffect
<1>4. ASSUME NEW g \in Source, touched' \subseteq {g} PROVE Accounted(g)'
  <2>1. Accounted(g) /\ path = g /\ pair = <<g, pair[2]>>
    BY <1>1, <1>4, NoSourceAssumption DEF ExactInv
  <2>2. \A id : <<g, id>> \in bpMap => <<g, id>> \in bpMap' \/ id = pair[2]
    BY <1>1, <2>1
  <2>3. \A id \in DOMAIN idToBreak'[g] : <<g, id>> \in bpMap' \/ Removed(g, id)'
    BY <1>1, <1>3, <2>1, <2>2 DEF Accounted
  <2>4. ASSUME NEW i \in DOMAIN pipe', pipe'[i].cmd = "set", pipe'[i].file = g
        PROVE  \/ <<g, pipe'[i].id>> \in bpMap'
               \/ \E j \in DOMAIN pipe' : i < j /\ IsRemove(pipe'[j], g, pipe'[i].id)
    <3>1. i \in DOMAIN pipe /\ pipe'[i] = pipe[i] /\ i < Len(pipe) + 1
      BY <1>1, <1>2, <2>4, SendEffect
    <3>2. CASE <<g, pipe[i].id>> \in bpMap
      <4>1. CASE pipe[i].id = pair[2]
        BY <1>1, <1>2, <2>1, <3>1, <4>1, SendEffect
      <4> QED
        BY <2>2, <3>1, <3>2, <4>1
    <3>3. ASSUME NEW j \in DOMAIN pipe, i < j, IsRemove(pipe[j], g, pipe[i].id)
          PROVE  \E k \in DOMAIN pipe' : i < k /\ IsRemove(pipe'[k], g, pipe'[i].id)
      <4>1. j \in DOMAIN pipe' /\ pipe'[j] = pipe[j]
        BY <1>1, <1>2, SendEffect
      <4> QED
        BY <3>1, <3>3, <4>1
    <3> QED
      BY <2>1, <2>4, <3>1, <3>2, <3>3 DEF Accounted
  <2> QED
    BY <2>3, <2>4 DEF Accounted
<1>5. ASSUME NEW g \in Source, NEW id \in BpId, NEW l \in Line,
             <<g, id>> \in bpMap' \ doomed', Knows(g, id, l)'
      PROVE  l \in requested'[g]
  BY <1>1, <1>3, <1>5 DEF ExactInv
<1>6. /\ path' \in touched' \cup {NoSource} /\ \A p \in bpMap' : p[1] \in touched'
      /\ \A i \in DOMAIN todo' : todo'[i] \in requested'[path']
  BY <1>1 DEF ExactInv
<1> QED
  BY <1>4, <1>5, <1>6 DEF ExactInv

LEMMA SetOneExact ==
  ASSUME TypeInv, ExactInv, SetOne
  PROVE  ExactInv'
<1> DEFINE c == SetBreak(path, nextId, Head(todo))
<1>1. /\ path \in Source /\ doomed = {} /\ todo # <<>> /\ todo \in Seq(Line) /\ todo' = Tail(todo)
      /\ pipe' = Append(pipe, c) /\ bpMap' = bpMap \cup {<<path, nextId>>}
      /\ UNCHANGED <<path, doomed, idToBreak, requested, touched>>
  BY LineSeqList DEF SetOne, TypeInv, TypeOK, pydevd, history
<1>2. c \in Command /\ c.file = path /\ c.id = nextId /\ \A g, k : ~IsRemove(c, g, k)
  BY <1>1, SetOneTypeInv, SetCommand DEF SetBreak
<1> HIDE DEF c
<1>3. /\ todo[1] = Head(todo) /\ 1 \in DOMAIN todo
      /\ \A i \in DOMAIN todo' : i + 1 \in DOMAIN todo /\ todo'[i] = todo[i + 1]
  BY <1>1, TailPositions
<1>4. /\ \A i \in DOMAIN todo' : todo'[i] \in requested'[path']
      /\ Head(todo) \in requested[path]
  BY <1>1, <1>3 DEF ExactInv
<1>5. ASSUME NEW g \in Source, touched' \subseteq {g} PROVE Accounted(g)'
  <2>1. Accounted(g)
    BY <1>1, <1>5 DEF ExactInv
  <2>2. \A id \in DOMAIN idToBreak'[g] : <<g, id>> \in bpMap' \/ Removed(g, id)'
    BY <1>1, <2>1, SetOneSends DEF Accounted
  <2>3. ASSUME NEW i \in DOMAIN pipe', pipe'[i].cmd = "set", pipe'[i].file = g
        PROVE  \/ <<g, pipe'[i].id>> \in bpMap'
               \/ \E j \in DOMAIN pipe' : i < j /\ IsRemove(pipe'[j], g, pipe'[i].id)
    <3>1. CASE i \in DOMAIN pipe
      <4>1. pipe'[i] = pipe[i] /\ \A j \in DOMAIN pipe : j \in DOMAIN pipe' /\ pipe'[j] = pipe[j]
        BY <1>1, <1>2, <3>1, SendEffect
      <4> QED
        BY <1>1, <2>1, <2>3, <3>1, <4>1 DEF Accounted
    <3>2. CASE i = Len(pipe) + 1
      <4>1. pipe'[i] = c
        BY <1>1, <1>2, <3>2, SendEffect
      <4> QED
        BY <1>1, <1>2, <2>3, <4>1
    <3> QED
      BY <1>1, <1>2, <3>1, <3>2, SendEffect
  <2> QED
    BY <2>2, <2>3 DEF Accounted
<1>6. ASSUME NEW g \in Source, NEW id \in BpId, NEW l \in Line,
             <<g, id>> \in bpMap' \ doomed', Knows(g, id, l)'
      PROVE  l \in requested'[g]
  <2>1. CASE id = nextId
    BY <1>1, <1>4, <1>6, <2>1, SetOneSends
  <2>2. CASE id # nextId
    BY <1>1, <1>6, <2>2, SetOneSends DEF ExactInv
  <2> QED
    BY <2>1, <2>2
<1>7. path' \in touched' \cup {NoSource} /\ \A p \in bpMap' : p[1] \in touched'
  BY <1>1, NoSourceAssumption DEF ExactInv
<1> QED
  BY <1>4, <1>5, <1>6, <1>7 DEF ExactInv

LEMMA ConfigurationDoneExact ==
  ASSUME TypeInv, ExactInv, ConfigurationDone
  PROVE  ExactInv'
<1>1. pipe' = Append(pipe, Run) /\ UNCHANGED <<bpMap, path, doomed, todo, idToBreak, requested, touched>>
  BY DEF ConfigurationDone, handler, pydevd
<1>2. /\ \A g, id, l : Knows(g, id, l)' <=> Knows(g, id, l)
      /\ \A g, id : Removed(g, id)' <=> Removed(g, id)
  BY <1>1, RunCommand, SendEffect
<1>3. ASSUME NEW g \in Source, Accounted(g) PROVE Accounted(g)'
  <2>1. \A i \in DOMAIN pipe' : pipe'[i].cmd = "set" => i \in DOMAIN pipe /\ pipe'[i] = pipe[i]
    BY <1>1, RunCommand, SendEffect
  <2>2. \A j \in DOMAIN pipe : j \in DOMAIN pipe' /\ pipe'[j] = pipe[j]
    BY <1>1, RunCommand, SendEffect
  <2> QED
    BY <1>1, <1>2, <1>3, <2>1, <2>2 DEF Accounted
<1> QED
  BY <1>1, <1>2, <1>3 DEF ExactInv

LEMMA PydevdExact ==
  ASSUME TypeInv, Agree, ExactInv, PydevdStep
  PROVE  ExactInv'
<1>1. UNCHANGED <<bpMap, path, doomed, todo, requested, touched>>
  BY DEF PydevdStep, PydevdSetBreak, PydevdRemoveBreak, PydevdRun, handler, history
<1>2. ASSUME NEW g \in Source, Accounted(g) PROVE Accounted(g)'
  <2>1. ASSUME NEW i \in DOMAIN pipe', pipe'[i].cmd = "set", pipe'[i].file = g
        PROVE  \/ <<g, pipe'[i].id>> \in bpMap'
               \/ \E j \in DOMAIN pipe' : i < j /\ IsRemove(pipe'[j], g, pipe'[i].id)
    <3>1. i \in Nat /\ i + 1 \in DOMAIN pipe /\ i + 1 > 1 /\ pipe'[i] = pipe[i + 1]
      BY TakeEffect
    <3>2. ASSUME NEW j \in DOMAIN pipe, i + 1 < j, IsRemove(pipe[j], g, pipe[i + 1].id)
          PROVE  \E k \in DOMAIN pipe' : i < k /\ IsRemove(pipe'[k], g, pipe'[i].id)
      <4>1. PICK k \in DOMAIN pipe' : j = k + 1
        BY <3>1, <3>2, TakeEffect
      <4>2. k \in Nat /\ pipe'[k] = pipe[j]
        BY <4>1, TakeEffect
      <4>3. i < k
        BY <3>1, <3>2, <4>1, <4>2
      <4> QED
        BY <3>1, <3>2, <4>2, <4>3
    <3> QED
      BY <1>1, <1>2, <2>1, <3>1, <3>2 DEF Accounted
  <2>2. ASSUME NEW id \in DOMAIN idToBreak'[g] PROVE <<g, id>> \in bpMap' \/ Removed(g, id)'
    <3>1. pipe \in Seq(Command) /\ pipe # <<>> /\ pipe' = Tail(pipe)
      BY DEF PydevdStep, PydevdSetBreak, PydevdRemoveBreak, PydevdRun, Takes, TypeInv, TypeOK
    <3>2. 1 \in DOMAIN pipe /\ pipe[1] = Head(pipe)
      BY <3>1, TailPositions
    <3>3. ASSUME NEW j \in DOMAIN pipe, j # 1, IsRemove(pipe[j], g, id) PROVE Removed(g, id)'
      <4>1. PICK k \in DOMAIN pipe' : j = k + 1
        BY <3>3, TakeEffect
      <4>2. pipe'[k] = pipe[j]
        BY <4>1, TakeEffect
      <4> QED
        BY <3>3, <4>2 DEF Removed
    <3>4. CASE PydevdSetBreak
      <4>1. pipe[1].cmd = "set" /\ (id \in DOMAIN idToBreak[g] \/ (g = pipe[1].file /\ id = pipe[1].id))
        BY <2>2, <3>2, <3>4, SetEffect
      <4>2. ~IsRemove(pipe[1], g, id)
        BY <4>1 DEF IsRemove
      <4>3. Removed(g, id) => Removed(g, id)'
        BY <3>3, <4>2 DEF Removed
      <4>4. CASE id \in DOMAIN idToBreak[g]
        BY <1>1, <1>2, <4>3, <4>4 DEF Accounted
      <4>5. CASE g = pipe[1].file /\ id = pipe[1].id
        <5>1. <<g, id>> \in bpMap \/ \E j \in DOMAIN pipe : 1 < j /\ IsRemove(pipe[j], g, id)
          BY <1>2, <3>2, <4>1, <4>5 DEF Accounted
        <5>2. <<g, id>> \in bpMap \/ Removed(g, id)'
          BY <3>3, <5>1
        <5> QED
          BY <1>1, <5>2
      <4> QED
        BY <4>1, <4>4, <4>5
    <3>5. CASE PydevdRemoveBreak
      <4>1. pipe[1].cmd = "remove" /\ id \in DOMAIN idToBreak[g] /\ ~(g = pipe[1].file /\ id = pipe[1].id)
        BY <2>2, <3>2, <3>5, RemoveEffect
      <4>2. ~IsRemove(pipe[1], g, id)
        BY <4>1 DEF IsRemove
      <4>3. Removed(g, id) => Removed(g, id)'
        BY <3>3, <4>2 DEF Removed
      <4> QED
        BY <1>1, <1>2, <4>1, <4>3 DEF Accounted
    <3>6. CASE PydevdRun
      <4>1. pipe[1].cmd = "run" /\ id \in DOMAIN idToBreak[g]
        BY <2>2, <3>2, <3>6 DEF PydevdRun, Takes
      <4>2. ~IsRemove(pipe[1], g, id)
        BY <4>1 DEF IsRemove
      <4>3. Removed(g, id) => Removed(g, id)'
        BY <3>3, <4>2 DEF Removed
      <4> QED
        BY <1>1, <1>2, <4>1, <4>3 DEF Accounted
    <3> QED
      BY <3>4, <3>5, <3>6 DEF PydevdStep
  <2> QED
    BY <2>1, <2>2 DEF Accounted
<1>3. ASSUME NEW g \in Source, NEW id \in BpId, NEW l \in Line,
             <<g, id>> \in bpMap' \ doomed', Knows(g, id, l)'
      PROVE  l \in requested'[g]
  BY <1>1, <1>3, TakeEffect DEF ExactInv
<1> QED
  BY <1>1, <1>2, <1>3 DEF ExactInv

LEMMA RespondExact ==
  ASSUME TypeInv, ExactInv, Respond
  PROVE  ExactInv'
<1>1. /\ path' = NoSource /\ todo = <<>>
      /\ UNCHANGED <<bpMap, doomed, todo, pipe, idToBreak, requested, touched>>
  BY DEF Respond, pydevd, history
<1>2. DOMAIN todo' = {}
  BY <1>1
<1>3. \A g \in Source : Accounted(g)' <=> Accounted(g)
  BY <1>1 DEF Accounted, Removed
<1>4. \A g, id, l : Knows(g, id, l)' <=> Knows(g, id, l)
  BY <1>1 DEF Knows, Has
<1> QED
  BY <1>1, <1>2, <1>3, <1>4 DEF ExactInv

-----------------------------------------------------------------------------
LEMMA InitIInv == Init => IInv
<1> SUFFICES ASSUME Init PROVE IInv
  OBVIOUS
<1>1. DOMAIN pipe = {} /\ DOMAIN todo = {} /\ \A f \in Source : DOMAIN idToBreak[f] = {}
  BY DEF Init
<1>2. KeptInv
  BY <1>1 DEF Init, KeptInv, Agree, Knows, Has
<1>3. RunInv
  BY <1>1, NoSourceAssumption DEF Init, RunInv
<1>4. ExactInv
  BY <1>1 DEF Init, ExactInv, Accounted
<1> QED
  BY <1>2, <1>3, <1>4, InitTypeInv DEF IInv

LEMMA NextIInv == IInv /\ [Next]_vars => IInv'
<1> SUFFICES ASSUME IInv, [Next]_vars PROVE IInv'
  OBVIOUS
<1> USE DEF IInv
<1>1. ASSUME NEW f \in Source, NEW lines \in Requests, Begin(f, lines) PROVE IInv'
  BY <1>1, NextTypeInv, BeginKept, BeginRun, BeginExact
<1>2. CASE ConfigurationDone
  BY <1>2, NextTypeInv, RunKept, ConfigurationDoneRun, ConfigurationDoneExact
<1>3. ASSUME NEW pair \in doomed, RemoveOne(pair) PROVE IInv'
  BY <1>3, NextTypeInv, RemoveOneKept, RemoveOneRun, RemoveOneExact
<1>4. CASE SetOne
  BY <1>4, NextTypeInv, SetOneKept, SetOneRun, SetOneExact
<1>5. CASE Respond
  BY <1>5, NextTypeInv, RespondKept, RespondRun, RespondExact
<1>6. CASE PydevdStep
  <2>1. Agree
    BY DEF KeptInv
  <2> QED
    BY <1>6, <2>1, NextTypeInv, PydevdKept, PydevdRunInv, PydevdExact
<1>7. CASE UNCHANGED vars
  <2>1. UNCHANGED vars /\ UNCHANGED <<bpMap, path, doomed, todo, pipe, idToBreak, ready, configured,
                                     requested, touched, atRun>>
    BY <1>7 DEF vars, handler, pydevd, history
  <2>2. KeptInv'
    BY <2>1 DEF KeptInv, Agree, Standing, Knows, Removed, Has
  <2>3. RunInv'
    BY <2>1 DEF RunInv, InForce, AheadOfRun, Removed, Has
  <2>4. ExactInv'
    BY <2>1 DEF ExactInv, Accounted, Knows, Removed, Has
  <2> QED
    BY <2>2, <2>3, <2>4, NextTypeInv
<1> QED
  BY <1>1, <1>2, <1>3, <1>4, <1>5, <1>6, <1>7 DEF Next, ServerStep

\* Once pydevd has caught up, every breakpoint of the last answered request of every
\* source is in force: what on_setBreakpoints removes for one source never takes away a
\* breakpoint of another, whatever is still in the pipe when the next request begins.
THEOREM RequestedStay == Spec => []NoneLost
<1>1. ASSUME IInv PROVE NoneLost
  <2> SUFFICES ASSUME Quiet, NEW f \in Source, NEW l \in requested[f] PROVE l \in breaks[f]
    BY DEF NoneLost
  <2>1. path # f /\ DOMAIN pipe = {}
    BY NoSourceAssumption DEF Quiet
  <2>2. PICK id \in BpId : Knows(f, id, l)
    BY <1>1, <2>1 DEF IInv, KeptInv, Standing
  <2>3. Has(f, id, l)
    BY <2>1, <2>2 DEF Knows
  <2> QED
    BY <1>1, <2>3 DEF IInv, TypeInv, Has, Range
<1> QED
  BY <1>1, InitIInv, NextIInv, PTL DEF Spec

\* While a single source was ever asked for, the breakpoints in force are exactly the
\* requested ones once pydevd has caught up: none of the old ones survives.
THEOREM OneSource == Spec => []OneSourceExact
<1>1. ASSUME IInv PROVE OneSourceExact
  <2> SUFFICES ASSUME Quiet, Cardinality(touched) = 1, NEW f \in touched
               PROVE  breaks[f] = requested[f]
    BY DEF OneSourceExact
  <2>1. IsFiniteSet(touched) /\ touched \subseteq Source
    BY <1>1 DEF IInv, TypeInv, TypeOK
  <2>2. touched = {f} /\ f \in Source
    BY <2>1, FS_Singleton
  <2>3. /\ path = NoSource /\ path # f /\ DOMAIN pipe = {} /\ doomed = {}
        /\ breaks[f] = Range(idToBreak[f]) /\ Accounted(f)
        /\ DOMAIN idToBreak[f] \subseteq BpId /\ Range(idToBreak[f]) \subseteq Line
    BY <1>1, <2>2, NoSourceAssumption DEF Quiet, IInv, TypeInv, TypeOK, ExactInv
  <2>4. ASSUME NEW l \in breaks[f] PROVE l \in requested[f]
    <3>1. PICK id \in DOMAIN idToBreak[f] : idToBreak[f][id] = l
      BY <2>3 DEF Range
    <3>2. id \in BpId /\ l \in Line /\ Knows(f, id, l)
      BY <2>3, <3>1 DEF Knows, Has
    <3>3. <<f, id>> \in bpMap \ doomed
      BY <2>3 DEF Accounted, Removed
    <3> QED
      BY <1>1, <2>2, <3>2, <3>3 DEF IInv, ExactInv
  <2>5. ASSUME NEW l \in requested[f] PROVE l \in breaks[f]
    <3>1. PICK id \in BpId : Knows(f, id, l)
      BY <1>1, <2>2, <2>3 DEF IInv, KeptInv, Standing
    <3> QED
      BY <2>3, <3>1 DEF Knows, Has, Range
  <2> QED
    BY <2>4, <2>5
<1> QED
  BY <1>1, InitIInv, NextIInv, PTL DEF Spec

\* When CMD_RUN releases the debuggee, every breakpoint answered before configurationDone
\* is in force, until its source is asked for again.
THEOREM InForceAtRun == Spec => []BreakpointsBeforeRun
<1>1. ASSUME IInv PROVE BreakpointsBeforeRun
  BY <1>1 DEF IInv, TypeInv, RunInv, InForce, Has, Range, BreakpointsBeforeRun
<1> QED
  BY <1>1, InitIInv, NextIInv, PTL DEF Spec
=============================================================================
