-------------------------- MODULE PydevdSocketProofs --------------------------
(***************************************************************************)
(* Proofs about PydevdSocket for every set of senders and all bounds: the  *)
(* types, and that answers and requests belong together.                   *)
(***************************************************************************)
EXTENDS PydevdSocket, SequenceTheorems, FiniteSetTheorems, TLAPS

\* The number n in a queue of packets or messages: that it is there, that it is there
\* once, and the kind that goes with it.
Has(q, n) == \E i \in DOMAIN q : q[i].seq = n
Single(q, n) == \A i, j \in DOMAIN q : q[i].seq = n /\ q[j].seq = n => i = j
OfKind(q, n, k) == \A i \in DOMAIN q : q[i].seq = n => q[i].kind = k

\* The places where a sequence number can be on its way from the packet to the reply.
InOp(n)   == \E s \in Sender : op[s].seq = n
InPipe(n) == Has(pipe, n)
InWork(n) == \E p \in working : p.seq = n
InOut(n)  == Has(outgoing, n)
InPop(n)   == popped.msg.seq = n
InLoop(n) == Has(queued, n)
Taken(n)  == InPop(n) \/ InLoop(n)
Written(n) == InPipe(n) \/ InWork(n) \/ InOut(n)

\* A number is in one place only ...
OnePlace(n) ==
  /\ InOp(n) => ~InPipe(n) /\ ~InWork(n) /\ ~InOut(n) /\ ~Taken(n)
  /\ InPipe(n) => ~InWork(n) /\ ~InOut(n) /\ ~Taken(n)
  /\ InWork(n) => ~InOut(n) /\ ~Taken(n)
  /\ InOut(n) => ~Taken(n)
  /\ InPop(n) => ~InLoop(n)

\* ... and there only once.
Once(n) ==
  /\ \A s, t \in Sender : op[s].seq = n /\ op[t].seq = n => s = t
  /\ Single(pipe, n)
  /\ \A p, q \in working : p.seq = n /\ q.seq = n => p = q
  /\ Single(outgoing, n)
  /\ Single(queued, n)

\* The numbers from the counter on have not been used for anything.
Fresh(n) ==
  n >= seq => /\ ~InOp(n) /\ ~Written(n) /\ ~Taken(n)
              /\ n \notin requests /\ n \notin stray /\ resolved[n] = 0

\* A packet has the kind for which its number was taken.
KindKept(n) ==
  /\ \A s \in Sender : op[s].seq = n => op[s].kind = kindOf[n]
  /\ OfKind(pipe, n, kindOf[n])
  /\ \A p \in working : p.seq = n => p.kind = kindOf[n]

\* A future is registered while its packet or answer is on its way, and neither before
\* nor after: the number of a notification never is.
Registered(n) ==
  /\ Written(n) => n \in requests \/ kindOf[n] = "notify"
  /\ n \in requests => ~InOp(n) /\ ~Taken(n) /\ resolved[n] = 0
  /\ InPop(n) => popped.found = "future" \/ kindOf[n] = "notify"
  /\ n \in stray => kindOf[n] = "notify"

\* A resolved future is done with: its number is nowhere any more.
Done(n) ==
  /\ resolved[n] <= 1
  /\ resolved[n] = 1 => n \notin requests /\ ~InOp(n) /\ ~Written(n) /\ ~Taken(n)

NumberInv(n) == OnePlace(n) /\ Once(n) /\ Fresh(n) /\ KindKept(n) /\ Registered(n) /\ Done(n)

\* Only for a message with a number can a future be popped.
FoundHasNumber == popped.found = "future" => popped.msg \in Reply

IInv == TypeOK /\ FoundHasNumber /\ \A n \in SeqNo : NumberInv(n)

-----------------------------------------------------------------------------
\* Appending to a queue and taking its head.
LEMMA AppendNumbers ==
  ASSUME NEW S, NEW q \in Seq(S), NEW m \in S, NEW n, NEW k
  PROVE  /\ Append(q, m) \in Seq(S)
         /\ Has(Append(q, m), n) <=> Has(q, n) \/ m.seq = n
         /\ Single(q, n) /\ (m.seq = n => ~Has(q, n)) => Single(Append(q, m), n)
         /\ OfKind(q, n, k) /\ (m.seq = n => m.kind = k) => OfKind(Append(q, m), n, k)
<1>1. /\ Append(q, m) \in Seq(S)
      /\ DOMAIN q = 1..Len(q) /\ Len(q) \in Nat
      /\ DOMAIN Append(q, m) = 1..(Len(q) + 1)
      /\ \A i \in 1..Len(q) : Append(q, m)[i] = q[i]
      /\ Append(q, m)[Len(q) + 1] = m
  BY AppendProperties, LenProperties
<1>2. \A i \in DOMAIN Append(q, m) :
        \/ i \in DOMAIN q /\ Append(q, m)[i] = q[i]
        \/ i = Len(q) + 1 /\ Append(q, m)[i] = m
  BY <1>1
<1>3. \A i \in DOMAIN q : i \in DOMAIN Append(q, m) /\ Append(q, m)[i] = q[i]
  BY <1>1
<1>4. Len(q) + 1 \in DOMAIN Append(q, m) /\ Append(q, m)[Len(q) + 1] = m
  BY <1>1
<1>5. Append(q, m) \in Seq(S)
  BY <1>1
<1> HIDE <1>1
<1> QED
  BY <1>2, <1>3, <1>4, <1>5 DEF Has, Single, OfKind

LEMMA TailNumbers ==
  ASSUME NEW S, NEW q \in Seq(S), q # <<>>, NEW n, NEW k
  PROVE  /\ Head(q) \in S /\ Tail(q) \in Seq(S)
         /\ Has(q, Head(q).seq)
         /\ Single(q, n) => Single(Tail(q), n) /\ (Has(Tail(q), n) <=> Has(q, n) /\ Head(q).seq # n)
         /\ OfKind(q, n, k) => OfKind(Tail(q), n, k) /\ (Head(q).seq = n => Head(q).kind = k)
<1>1. /\ Head(q) \in S /\ Tail(q) \in Seq(S)
      /\ DOMAIN q = 1..Len(q) /\ Len(q) \in Nat \ {0}
      /\ DOMAIN Tail(q) = 1..(Len(q) - 1)
      /\ \A i \in 1..(Len(q) - 1) : Tail(q)[i] = q[i + 1]
      /\ Head(q) = q[1]
  BY HeadTailProperties, LenProperties, EmptySeq
<1>2. 1 \in DOMAIN q /\ q[1] = Head(q)
  BY <1>1
<1>3. \A i \in DOMAIN Tail(q) : i + 1 \in DOMAIN q /\ i + 1 # 1 /\ Tail(q)[i] = q[i + 1]
  BY <1>1
<1>4. \A i, j \in DOMAIN Tail(q) : i + 1 = j + 1 => i = j
  BY <1>1
<1>5. \A i \in DOMAIN q : i # 1 => \E j \in DOMAIN Tail(q) : i = j + 1
  <2> SUFFICES ASSUME NEW i \in DOMAIN q, i # 1 PROVE i - 1 \in DOMAIN Tail(q) /\ i = (i - 1) + 1
    OBVIOUS
  <2> QED BY <1>1
<1>6. OfKind(q, n, k) => OfKind(Tail(q), n, k) /\ (Head(q).seq = n => Head(q).kind = k)
  BY <1>2, <1>3 DEF OfKind
<1>7. Single(q, n) => Single(Tail(q), n)
  BY <1>3, <1>4 DEF Single
<1>8. ASSUME Single(q, n) PROVE Has(Tail(q), n) <=> Has(q, n) /\ Head(q).seq # n
  <2>1. Has(Tail(q), n) => Has(q, n) /\ Head(q).seq # n
    BY <1>2, <1>3, <1>8 DEF Has, Single
  <2>2. Has(q, n) /\ Head(q).seq # n => Has(Tail(q), n)
    BY <1>2, <1>3, <1>5 DEF Has
  <2> QED BY <2>1, <2>2
<1> QED
  BY <1>1, <1>2, <1>6, <1>7, <1>8 DEF Has

-----------------------------------------------------------------------------
\* What the actions leave alone, they leave as it was for every number.
LEMMA SameOp == op' = op => \A n : InOp(n)' = InOp(n)
BY DEF InOp
LEMMA SamePipe == pipe' = pipe => \A n : InPipe(n)' = InPipe(n)
BY DEF InPipe, Has
LEMMA SameWork == working' = working => \A n : InWork(n)' = InWork(n)
BY DEF InWork
LEMMA SameOut == outgoing' = outgoing => \A n : InOut(n)' = InOut(n)
BY DEF InOut, Has
LEMMA SamePop ==
  popped' = popped /\ queued' = queued
    => \A n : InPop(n)' = InPop(n) /\ InLoop(n)' = InLoop(n)
BY DEF InPop, InLoop, Has

LEMMA InitIInv == Init => IInv
<1> SUFFICES ASSUME Init PROVE IInv
    OBVIOUS
<1>1. TypeOK
  <2>1. <<>> \in Seq(Packet) /\ <<>> \in Seq(Message) /\ <<>> \in Seq(Reply)
    BY EmptySeq
  <2>2. 1 \in 1..(MaxSeq + 1) /\ 0 \in 0..MaxEvents
    BY BoundAssumption
  <2> QED
    BY <2>1, <2>2 DEF Init, TypeOK
<1>2. FoundHasNumber
  BY DEF Init, FoundHasNumber, Nothing
<1>3. ASSUME NEW n \in SeqNo PROVE NumberInv(n)
  <2>1. n # 0
    BY DEF SeqNo
  <2>2. ~InOp(n) /\ ~InPipe(n) /\ ~InWork(n) /\ ~InOut(n) /\ ~InPop(n) /\ ~InLoop(n)
    BY <2>1 DEF Init, InOp, InPipe, InWork, InOut, InPop, InLoop, Has, NoPacket, Nothing, Event
  <2>3. Once(n) /\ KindKept(n)
    BY <2>2 DEF Once, KindKept, InOp, InPipe, InWork, InOut, InLoop, Has, Single, OfKind
  <2> QED
    BY <2>2, <2>3 DEF Init, NumberInv, OnePlace, Taken, Fresh, Registered, Done, Written
<1> QED
  BY <1>1, <1>2, <1>3 DEF IInv

\* make_packet: the counter's number goes from nowhere to the sender.
LEMMA MakePacketIInv ==
  ASSUME IInv, NEW s \in Sender, NEW k \in Kind, MakePacket(s, k)
  PROVE  IInv'
<1>1. seq \in SeqNo /\ seq' = seq + 1 /\ seq \in Nat
  BY BoundAssumption DEF IInv, TypeOK, MakePacket, SeqNo
<1>2. /\ op' = [op EXCEPT ![s] = [kind |-> k, seq |-> seq]]
      /\ op[s].seq = 0
      /\ op \in [Sender -> Packet \cup {NoPacket}]
  BY DEF MakePacket, NoPacket, IInv, TypeOK
<1>3. kindOf' = [kindOf EXCEPT ![seq] = k] /\ kindOf \in [SeqNo -> Kind \cup {"none"}]
  BY DEF MakePacket, IInv, TypeOK
<1>4. UNCHANGED <<requests, pipe, pipeOpen, lockHeld, working, outgoing, popped,
                  writerUp, events, resolved, stray, queued, loopUp>>
  BY DEF MakePacket
<1>5. TypeOK'
  <2>1. seq' \in 1..(MaxSeq + 1)
    BY <1>1, BoundAssumption DEF SeqNo
  <2>2. op' \in [Sender -> Packet \cup {NoPacket}]
    BY <1>1, <1>2 DEF Packet
  <2>3. kindOf' \in [SeqNo -> Kind \cup {"none"}]
    BY <1>1, <1>3
  <2> QED
    BY <2>1, <2>2, <2>3, <1>4 DEF IInv, TypeOK
<1>6. FoundHasNumber'
  BY <1>4 DEF IInv, FoundHasNumber
<1>7. ASSUME NEW n \in SeqNo PROVE NumberInv(n)'
  <2>1. n # 0 /\ n \in Nat /\ NumberInv(n) /\ NumberInv(seq)
    BY <1>1 DEF SeqNo, IInv
  <2>2. ~InOp(seq) /\ ~Written(seq) /\ ~Taken(seq) /\ seq \notin requests
        /\ seq \notin stray /\ resolved[seq] = 0
    BY <1>1, <2>1 DEF NumberInv, Fresh
  <2>3. InOp(n)' <=> InOp(n) \/ n = seq
    BY <1>2, <2>1 DEF InOp
  <2>4. /\ InPipe(n)' = InPipe(n) /\ InWork(n)' = InWork(n)
        /\ InOut(n)' = InOut(n) /\ InPop(n)' = InPop(n) /\ InLoop(n)' = InLoop(n)
    BY <1>4, SamePipe, SameWork, SameOut, SamePop
  <2>5. kindOf'[n] = IF n = seq THEN k ELSE kindOf[n]
    BY <1>3
  <2>6. OnePlace(n)'
    BY <2>1, <2>2, <2>3, <2>4 DEF NumberInv, OnePlace, Taken, Written
  <2>7. Once(n)'
    BY <1>2, <1>4, <2>1, <2>2 DEF NumberInv, Once, InOp, Single
  <2>8. Fresh(n)'
    BY <1>1, <1>4, <2>1, <2>3, <2>4 DEF NumberInv, Fresh, Written, Taken
  <2>9. KindKept(n)'
    <3>1. CASE n = seq
      BY <3>1, <1>2, <1>4, <2>1, <2>2, <2>5
         DEF KindKept, InOp, Written, Taken, InPipe, InWork, Has, OfKind
    <3>2. CASE n # seq
      BY <3>2, <1>2, <1>4, <2>1, <2>5 DEF NumberInv, KindKept, OfKind
    <3> QED BY <3>1, <3>2
  <2>10. Registered(n)'
    BY <1>4, <2>1, <2>2, <2>3, <2>4, <2>5 DEF NumberInv, Registered, Written, Taken
  <2>11. Done(n)'
    BY <1>4, <2>1, <2>2, <2>3, <2>4 DEF NumberInv, Done, Written, Taken
  <2> QED
    BY <2>6, <2>7, <2>8, <2>9, <2>10, <2>11 DEF NumberInv
<1> QED
  BY <1>5, <1>6, <1>7 DEF IInv, SeqNo

\* The packet of a sender goes into the pipe, or is lost when the pipe is closed.
LEMMA WriteNumbers ==
  ASSUME IInv, NEW s \in Sender, op[s] # NoPacket, Write(s), UNCHANGED <<working, outgoing, popped, queued>>
  PROVE  /\ op[s] \in Packet
         /\ op' \in [Sender -> Packet \cup {NoPacket}] /\ pipe' \in Seq(Packet)
         /\ \A n \in SeqNo :
              /\ InOp(n)' <=> InOp(n) /\ n # op[s].seq
              /\ InPipe(n)' => InPipe(n) \/ n = op[s].seq
              /\ InWork(n)' = InWork(n) /\ InOut(n)' = InOut(n) /\ InPop(n)' = InPop(n) /\ InLoop(n)' = InLoop(n)
              /\ Once(n)'
              /\ kindOf' = kindOf => KindKept(n)'
<1>1. /\ op \in [Sender -> Packet \cup {NoPacket}] /\ pipe \in Seq(Packet)
      /\ op[s] \in Packet
      /\ op' = [op EXCEPT ![s] = NoPacket]
      /\ pipe' = pipe \/ pipe' = Append(pipe, op[s])
  BY DEF IInv, TypeOK, Write
<1>2. op' \in [Sender -> Packet \cup {NoPacket}] /\ pipe' \in Seq(Packet)
  BY <1>1, AppendNumbers
<1>3. op[s].seq \in SeqNo /\ InOp(op[s].seq)
  BY <1>1 DEF Packet, InOp
<1>4. ASSUME NEW n \in SeqNo
      PROVE  /\ InOp(n)' <=> InOp(n) /\ n # op[s].seq
             /\ InPipe(n)' => InPipe(n) \/ n = op[s].seq
             /\ InWork(n)' = InWork(n) /\ InOut(n)' = InOut(n) /\ InPop(n)' = InPop(n) /\ InLoop(n)' = InLoop(n)
             /\ Once(n)'
             /\ kindOf' = kindOf => KindKept(n)'
  <2>1. n # 0 /\ NoPacket.seq = 0 /\ NumberInv(n)
    BY DEF SeqNo, IInv, NoPacket
  <2>2. InOp(n)' <=> InOp(n) /\ n # op[s].seq
    BY <1>1, <2>1 DEF InOp, NumberInv, Once
  <2>3. InPipe(n)' => InPipe(n) \/ n = op[s].seq
    <3>1. pipe \in Seq(Packet) /\ op[s] \in Packet
      BY <1>1
    <3>2. Has(Append(pipe, op[s]), n) <=> Has(pipe, n) \/ op[s].seq = n
      BY <3>1, AppendNumbers
    <3> QED
      BY <1>1, <3>2 DEF InPipe
  <2>4. InWork(n)' = InWork(n) /\ InOut(n)' = InOut(n) /\ InPop(n)' = InPop(n) /\ InLoop(n)' = InLoop(n)
    BY SameWork, SameOut, SamePop
  <2>5. n = op[s].seq => ~InPipe(n)
    BY <1>1, <2>1 DEF NumberInv, OnePlace, Taken, InOp
  <2>6. Single(pipe', n)
    <3>1. Single(pipe, n)
      BY <2>1 DEF NumberInv, Once
    <3>2. op[s].seq = n => ~Has(pipe, n)
      BY <2>5 DEF InPipe
    <3>3. Single(Append(pipe, op[s]), n)
      BY <1>1, <3>1, <3>2, AppendNumbers
    <3> QED
      BY <1>1, <3>1, <3>3
  <2>7. \A t, u \in Sender : op'[t].seq = n /\ op'[u].seq = n => t = u
    BY <1>1, <2>1 DEF NumberInv, Once
  <2>8. Once(n)'
    BY <2>1, <2>6, <2>7 DEF NumberInv, Once, Single
  <2>9. ASSUME kindOf' = kindOf PROVE KindKept(n)'
    <3>1. OfKind(pipe, n, kindOf[n]) /\ (op[s].seq = n => op[s].kind = kindOf[n])
      BY <2>1 DEF NumberInv, KindKept
    <3>2. OfKind(Append(pipe, op[s]), n, kindOf[n])
      BY <1>1, <3>1, AppendNumbers
    <3>3. OfKind(pipe', n, kindOf[n])
      BY <1>1, <3>1, <3>2
    <3> QED
      BY <1>1, <2>1, <2>9, <3>3 DEF NumberInv, KindKept, OfKind
  <2> QED
    BY <2>2, <2>3, <2>4, <2>8, <2>9
<1> QED
  BY <1>1, <1>2, <1>4

\* A notification goes into the pipe unregistered.
LEMMA WriteNotifyIInv ==
  ASSUME IInv, NEW s \in Sender, WriteNotify(s)
  PROVE  IInv'
<1>1. /\ op[s] # NoPacket /\ Write(s) /\ op[s].kind = "notify"
      /\ UNCHANGED <<seq, requests, pipeOpen, lockHeld, working, outgoing, popped,
                     writerUp, events, kindOf, resolved, stray, queued, loopUp>>
  BY DEF WriteNotify, NoPacket
<1>2. /\ op' \in [Sender -> Packet \cup {NoPacket}] /\ pipe' \in Seq(Packet)
      /\ \A n \in SeqNo :
              /\ InOp(n)' <=> InOp(n) /\ n # op[s].seq
              /\ InPipe(n)' => InPipe(n) \/ n = op[s].seq
              /\ InWork(n)' = InWork(n) /\ InOut(n)' = InOut(n) /\ InPop(n)' = InPop(n) /\ InLoop(n)' = InLoop(n)
              /\ Once(n)'
              /\ KindKept(n)'
  BY <1>1, WriteNumbers
<1>3. TypeOK' /\ FoundHasNumber'
  BY <1>1, <1>2 DEF IInv, TypeOK, FoundHasNumber
<1>4. ASSUME NEW n \in SeqNo PROVE NumberInv(n)'
  <2>1. NumberInv(n) /\ (n = op[s].seq => InOp(n) /\ kindOf[n] = "notify")
    BY <1>1 DEF IInv, InOp, NumberInv, KindKept
  <2>2. OnePlace(n)' /\ Fresh(n)' /\ Registered(n)' /\ Done(n)'
    BY <1>1, <1>2, <2>1 DEF NumberInv, OnePlace, Taken, Fresh, Registered, Done, Written
  <2> QED
    BY <1>2, <2>2 DEF NumberInv
<1> QED
  BY <1>1, <1>3, <1>4 DEF IInv

\* A request is registered in the step that puts it into the pipe.
LEMMA WriteRequestIInv ==
  ASSUME IInv, NEW s \in Sender, WriteRequest(s)
  PROVE  IInv'
<1>1. /\ op[s] # NoPacket /\ Write(s) /\ requests' = requests \cup {op[s].seq}
      /\ UNCHANGED <<seq, pipeOpen, lockHeld, working, outgoing, popped,
                     writerUp, events, kindOf, resolved, stray, queued, loopUp>>
  BY DEF WriteRequest, NoPacket
<1>2. /\ op[s] \in Packet
      /\ op' \in [Sender -> Packet \cup {NoPacket}] /\ pipe' \in Seq(Packet)
      /\ \A n \in SeqNo :
              /\ InOp(n)' <=> InOp(n) /\ n # op[s].seq
              /\ InPipe(n)' => InPipe(n) \/ n = op[s].seq
              /\ InWork(n)' = InWork(n) /\ InOut(n)' = InOut(n) /\ InPop(n)' = InPop(n) /\ InLoop(n)' = InLoop(n)
              /\ Once(n)'
              /\ KindKept(n)'
  BY <1>1, WriteNumbers
<1>3. TypeOK' /\ FoundHasNumber'
  BY <1>1, <1>2 DEF IInv, TypeOK, FoundHasNumber, Packet
<1>4. ASSUME NEW n \in SeqNo PROVE NumberInv(n)'
  <2>1. NumberInv(n) /\ (n = op[s].seq => InOp(n))
    BY DEF IInv, InOp
  <2>2. n = op[s].seq => n < seq /\ resolved[n] = 0
    <3>1. Fresh(n) /\ Done(n)
      BY <2>1 DEF NumberInv
    <3>2. n \in Nat /\ seq \in Nat /\ resolved[n] \in Nat
      BY DEF IInv, TypeOK, SeqNo
    <3> QED
      BY <2>1, <3>1, <3>2 DEF Fresh, Done
  <2>3. OnePlace(n)' /\ Fresh(n)' /\ Registered(n)' /\ Done(n)'
    BY <1>1, <1>2, <2>1, <2>2 DEF NumberInv, OnePlace, Taken, Fresh, Registered, Done, Written
  <2> QED
    BY <1>2, <2>3 DEF NumberInv
<1> QED
  BY <1>1, <1>3, <1>4 DEF IInv

\* pydevd's reader takes the packet at the head of the pipe.
LEMMA RecvIInv ==
  ASSUME IInv, Recv
  PROVE  IInv'
<1> DEFINE h == Head(pipe)
<1>1. /\ pipe \in Seq(Packet) /\ pipe # <<>>
      /\ working' = working \cup {h} /\ pipe' = Tail(pipe) /\ working \subseteq Packet
      /\ UNCHANGED <<seq, requests, pipeOpen, lockHeld, op, outgoing, popped,
                     writerUp, events, kindOf, resolved, stray, queued, loopUp>>
  BY DEF IInv, TypeOK, Recv
<1>2. h \in Packet /\ pipe' \in Seq(Packet) /\ InPipe(h.seq)
  BY <1>1, TailNumbers DEF InPipe
<1>3. TypeOK' /\ FoundHasNumber'
  BY <1>1, <1>2 DEF IInv, TypeOK, FoundHasNumber
<1>4. ASSUME NEW n \in SeqNo PROVE NumberInv(n)'
  <2>1. NumberInv(n) /\ Single(pipe, n) /\ OfKind(pipe, n, kindOf[n])
    BY DEF IInv, NumberInv, Once, KindKept
  <2>2. /\ InPipe(n)' <=> InPipe(n) /\ h.seq # n
        /\ Single(pipe', n) /\ OfKind(pipe', n, kindOf[n])
        /\ h.seq = n => h.kind = kindOf[n]
    BY <1>1, <2>1, TailNumbers DEF InPipe
  <2>3. /\ InWork(n)' <=> InWork(n) \/ n = h.seq
        /\ InOp(n)' = InOp(n) /\ InOut(n)' = InOut(n) /\ InPop(n)' = InPop(n) /\ InLoop(n)' = InLoop(n)
    <3>1. InWork(n)' <=> InWork(n) \/ n = h.seq
      BY <1>1 DEF InWork
    <3> QED BY <1>1, <3>1, SameOp, SameOut, SamePop
  <2>4. n = h.seq => InPipe(n)
    BY <1>2
  <2>5. Once(n)'
    <3>1. n = h.seq => ~InWork(n)
      BY <2>1, <2>4 DEF NumberInv, OnePlace, Taken
    <3>2. \A p, q \in working' : p.seq = n /\ q.seq = n => p = q
      BY <1>1, <2>1, <3>1 DEF NumberInv, Once, InWork
    <3> QED
      BY <1>1, <2>1, <2>2, <3>2 DEF NumberInv, Once, Single
  <2>6. KindKept(n)'
    BY <1>1, <2>1, <2>2 DEF NumberInv, KindKept, OfKind
  <2>7. OnePlace(n)' /\ Fresh(n)' /\ Registered(n)' /\ Done(n)'
    BY <1>1, <2>1, <2>2, <2>3, <2>4 DEF NumberInv, OnePlace, Taken, Fresh, Registered, Done, Written
  <2> QED
    BY <2>5, <2>6, <2>7 DEF NumberInv
<1> QED
  BY <1>1, <1>3, <1>4 DEF IInv

\* pydevd is done with a packet and puts a message with its number into its queue.
LEMMA ReplyIInv ==
  ASSUME IInv, NEW p \in working, NEW what \in {"result", "error"},
         working' = working \ {p}, outgoing' = Append(outgoing, [what |-> what, seq |-> p.seq]),
         UNCHANGED <<seq, requests, pipe, pipeOpen, lockHeld, op, popped,
                     writerUp, events, kindOf, resolved, stray, queued, loopUp>>
  PROVE  IInv'
<1> DEFINE m == [what |-> what, seq |-> p.seq]
<1>1. p \in Packet /\ p.seq \in SeqNo /\ m \in Message /\ m.seq = p.seq /\ outgoing \in Seq(Message)
  BY DEF IInv, TypeOK, Packet, Message, Reply
<1>2. outgoing' = Append(outgoing, m)
  OBVIOUS
<1> HIDE DEF m
<1>3. outgoing' \in Seq(Message)
  BY <1>1, <1>2, AppendNumbers
<1>4. TypeOK' /\ FoundHasNumber'
  BY <1>3 DEF IInv, TypeOK, FoundHasNumber
<1>5. ASSUME NEW n \in SeqNo PROVE NumberInv(n)'
  <2>1. NumberInv(n) /\ (n = p.seq => InWork(n))
    BY DEF IInv, InWork
  <2>2. n = p.seq => ~InOut(n)
    BY <2>1 DEF NumberInv, OnePlace, Taken
  <2>3. (InOut(n)' <=> InOut(n) \/ n = p.seq) /\ Single(outgoing', n)
    <3>1. Single(outgoing, n)
      BY <2>1 DEF NumberInv, Once
    <3> QED BY <1>1, <1>2, <2>2, <3>1, AppendNumbers DEF InOut
  <2>4. /\ InWork(n)' <=> InWork(n) /\ n # p.seq
        /\ InOp(n)' = InOp(n) /\ InPipe(n)' = InPipe(n) /\ InPop(n)' = InPop(n) /\ InLoop(n)' = InLoop(n)
    <3>1. InWork(n)' <=> InWork(n) /\ n # p.seq
      BY <2>1 DEF InWork, NumberInv, Once
    <3> QED BY <3>1, SameOp, SamePipe, SamePop
  <2>5. Once(n)' /\ KindKept(n)'
    BY <2>1, <2>3 DEF NumberInv, Once, Single, KindKept, OfKind
  <2>6. OnePlace(n)' /\ Fresh(n)' /\ Registered(n)' /\ Done(n)'
    BY <2>1, <2>3, <2>4 DEF NumberInv, OnePlace, Taken, Fresh, Registered, Done, Written
  <2> QED
    BY <2>5, <2>6 DEF NumberInv
<1> QED
  BY <1>4, <1>5 DEF IInv

\* A packet that is not answered is gone.
LEMMA NoReplyIInv ==
  ASSUME IInv, NEW p \in working, working' = working \ {p},
         UNCHANGED <<seq, requests, pipe, pipeOpen, lockHeld, op, outgoing, popped,
                     writerUp, events, kindOf, resolved, stray, queued, loopUp>>
  PROVE  IInv'
<1>1. TypeOK' /\ FoundHasNumber'
  BY DEF IInv, TypeOK, FoundHasNumber
<1>2. ASSUME NEW n \in SeqNo PROVE NumberInv(n)'
  <2>1. NumberInv(n)
    BY DEF IInv
  <2>2. InWork(n)' => InWork(n)
    BY DEF InWork
  <2>3. InOp(n)' = InOp(n) /\ InPipe(n)' = InPipe(n) /\ InOut(n)' = InOut(n) /\ InPop(n)' = InPop(n) /\ InLoop(n)' = InLoop(n)
    BY SameOp, SamePipe, SameOut, SamePop
  <2>4. Once(n)' /\ KindKept(n)'
    BY <2>1 DEF NumberInv, Once, Single, KindKept, OfKind
  <2>5. OnePlace(n)' /\ Fresh(n)' /\ Registered(n)' /\ Done(n)'
    BY <2>1, <2>2, <2>3 DEF NumberInv, OnePlace, Taken, Fresh, Registered, Done, Written
  <2> QED
    BY <2>4, <2>5 DEF NumberInv
<1> QED
  BY <1>1, <1>2 DEF IInv

LEMMA AnswerIInv ==
  ASSUME IInv, NEW p \in working, Answer(p) \/ AnswerError(p)
  PROVE  IInv'
<1>1. CASE AnswerError(p)
  BY <1>1, ReplyIInv DEF AnswerError
<1>2. CASE Answer(p) /\ p.kind = "request"
  BY <1>2, ReplyIInv DEF Answer
<1>3. CASE Answer(p) /\ p.kind # "request"
  BY <1>3, NoReplyIInv DEF Answer
<1> QED
  BY <1>1, <1>2, <1>3

\* An event has no number.
LEMMA PydevdEventIInv ==
  ASSUME IInv, PydevdEvent
  PROVE  IInv'
<1>1. PICK m \in {Event, Unsupported} : outgoing' = Append(outgoing, m)
  BY DEF PydevdEvent
<1>2. /\ outgoing \in Seq(Message) /\ m \in Message /\ m.seq = 0
      /\ events' \in 0..MaxEvents
      /\ UNCHANGED <<seq, requests, pipe, pipeOpen, lockHeld, op, working, popped,
                     writerUp, kindOf, resolved, stray, queued, loopUp>>
  BY BoundAssumption DEF IInv, TypeOK, PydevdEvent, Message, Event, Unsupported
<1>3. TypeOK' /\ FoundHasNumber'
  <2>1. outgoing' \in Seq(Message)
    BY <1>1, <1>2, AppendNumbers
  <2> QED
    BY <1>2, <2>1 DEF IInv, TypeOK, FoundHasNumber
<1>4. ASSUME NEW n \in SeqNo PROVE NumberInv(n)'
  <2>1. NumberInv(n) /\ m.seq # n /\ Single(outgoing, n)
    BY <1>2 DEF IInv, SeqNo, NumberInv, Once
  <2>2. InOut(n)' = InOut(n) /\ Single(outgoing', n)
    <3>1. (Has(Append(outgoing, m), n) <=> Has(outgoing, n)) /\ Single(Append(outgoing, m), n)
      BY <1>2, <2>1, AppendNumbers
    <3> QED
      BY <1>1, <3>1 DEF InOut, Has
  <2>3. /\ InOp(n)' = InOp(n) /\ InPipe(n)' = InPipe(n) /\ InWork(n)' = InWork(n)
        /\ InPop(n)' = InPop(n) /\ InLoop(n)' = InLoop(n)
    BY <1>2, SameOp, SamePipe, SameWork, SamePop
  <2>4. Once(n)' /\ KindKept(n)'
    BY <1>2, <2>1, <2>2 DEF NumberInv, Once, Single, KindKept, OfKind
  <2>5. OnePlace(n)' /\ Fresh(n)' /\ Registered(n)' /\ Done(n)'
    BY <1>2, <2>1, <2>2, <2>3 DEF NumberInv, OnePlace, Taken, Fresh, Registered, Done, Written
  <2> QED
    BY <2>4, <2>5 DEF NumberInv
<1> QED
  BY <1>2, <1>3, <1>4 DEF IInv

\* send takes a message and, if it is the answer to a request, its future.
LEMMA SendPopIInv ==
  ASSUME IInv, SendPop
  PROVE  IInv'
<1> DEFINE m == Head(outgoing)
<1>1. /\ outgoing \in Seq(Message) /\ outgoing # <<>> /\ outgoing' = Tail(outgoing)
      /\ popped = Nothing
      /\ popped' = [msg |-> m, found |-> IF m.seq \in requests THEN "future" ELSE "none"]
      /\ requests' = requests \ {m.seq} /\ requests \subseteq SeqNo
      /\ UNCHANGED <<seq, pipe, pipeOpen, lockHeld, op, working,
                     writerUp, events, kindOf, resolved, stray, queued, loopUp>>
  BY DEF IInv, TypeOK, SendPop
<1>2. m \in Message /\ outgoing' \in Seq(Message) /\ InOut(m.seq)
  BY <1>1, TailNumbers DEF InOut
<1> HIDE DEF m
<1>3. TypeOK' /\ FoundHasNumber'
  <2>1. m.seq \in requests => m \in Reply
    BY <1>1, <1>2 DEF Message, Event, Unsupported, SeqNo
  <2> QED
    BY <1>1, <1>2, <2>1 DEF IInv, TypeOK, FoundHasNumber
<1>4. ASSUME NEW n \in SeqNo PROVE NumberInv(n)'
  <2>1. NumberInv(n) /\ ~InPop(n) /\ Single(outgoing, n)
    BY <1>1 DEF IInv, InPop, Nothing, Event, SeqNo, NumberInv, Once
  <2>2. (InOut(n)' <=> InOut(n) /\ n # m.seq) /\ Single(outgoing', n)
    BY <1>1, <2>1, TailNumbers DEF InOut, m
  <2>3. /\ InPop(n)' <=> n = m.seq
        /\ n = m.seq => InOut(n)
        /\ InLoop(n)' = InLoop(n)
    BY <1>1, <1>2 DEF InPop, InLoop, Has
  <2>4. InOp(n)' = InOp(n) /\ InPipe(n)' = InPipe(n) /\ InWork(n)' = InWork(n)
    BY <1>1, SameOp, SamePipe, SameWork
  <2>5. Once(n)' /\ KindKept(n)'
    BY <1>1, <2>1, <2>2 DEF NumberInv, Once, Single, KindKept, OfKind
  <2>6. OnePlace(n)' /\ Fresh(n)' /\ Done(n)'
    BY <1>1, <2>1, <2>2, <2>3, <2>4 DEF NumberInv, OnePlace, Taken, Fresh, Done, Written
  <2>7. Registered(n)'
    BY <1>1, <2>1, <2>2, <2>3, <2>4 DEF NumberInv, OnePlace, Taken, Registered, Written
  <2> QED
    BY <2>5, <2>6, <2>7 DEF NumberInv
<1> QED
  BY <1>1, <1>3, <1>4 DEF IInv

\* The answer of a future that was popped is queued on the loop.
LEMMA SendReplyIInv ==
  ASSUME IInv, SendReply
  PROVE  IInv'
<1> DEFINE m == popped.msg
<1>1. /\ m \in Reply /\ popped.found = "future" /\ popped' = Nothing
      /\ queued' = Append(queued, m) /\ queued \in Seq(Reply)
      /\ UNCHANGED <<seq, requests, pipe, pipeOpen, lockHeld, op, working, outgoing,
                     writerUp, loopUp, events, kindOf, resolved, stray>>
  BY DEF IInv, TypeOK, FoundHasNumber, SendReply
<1>2. TypeOK' /\ FoundHasNumber'
  <2>1. queued' \in Seq(Reply)
    BY <1>1, AppendNumbers
  <2> QED
    BY <1>1, <2>1 DEF IInv, TypeOK, FoundHasNumber, Nothing
<1>3. ASSUME NEW n \in SeqNo PROVE NumberInv(n)'
  <2>1. NumberInv(n) /\ (InPop(n) <=> n = m.seq)
    BY DEF IInv, InPop
  <2>2. ~InPop(n)'
    BY <1>1 DEF InPop, Nothing, Event, SeqNo
  <2>3. n = m.seq => ~InLoop(n)
    BY <2>1 DEF NumberInv, OnePlace
  <2>4. (InLoop(n)' <=> InLoop(n) \/ n = m.seq) /\ Single(queued', n)
    <3>1. Single(queued, n) /\ (m.seq = n => ~Has(queued, n))
      BY <2>1, <2>3 DEF NumberInv, Once, InLoop
    <3>2. (Has(Append(queued, m), n) <=> Has(queued, n) \/ m.seq = n) /\ Single(Append(queued, m), n)
      BY <1>1, <3>1, AppendNumbers
    <3> QED
      BY <1>1, <3>2 DEF InLoop, Has
  <2>5. InOp(n)' = InOp(n) /\ InPipe(n)' = InPipe(n) /\ InWork(n)' = InWork(n) /\ InOut(n)' = InOut(n)
    BY <1>1, SameOp, SamePipe, SameWork, SameOut
  <2>6. Once(n)' /\ KindKept(n)'
    BY <1>1, <2>1, <2>4 DEF NumberInv, Once, Single, KindKept, OfKind
  <2> HIDE DEF m
  <2>7. OnePlace(n)' /\ Fresh(n)' /\ Registered(n)' /\ Done(n)'
    BY <1>1, <2>1, <2>2, <2>4, <2>5 DEF NumberInv, OnePlace, Taken, Fresh, Registered, Done, Written
  <2> QED
    BY <2>6, <2>7 DEF NumberInv
<1> QED
  BY <1>1, <1>2, <1>3 DEF IInv

\* The loop resolves a future for the first time.
LEMMA LoopResolveIInv ==
  ASSUME IInv, LoopResolve
  PROVE  IInv'
<1> DEFINE r == Head(queued).seq
<1>1. /\ queued \in Seq(Reply) /\ queued # <<>> /\ queued' = Tail(queued)
      /\ resolved' = [resolved EXCEPT ![r] = @ + 1] /\ resolved \in [SeqNo -> Nat]
      /\ UNCHANGED <<seq, requests, pipe, pipeOpen, lockHeld, op, working, outgoing, popped,
                     writerUp, loopUp, events, kindOf, stray>>
  BY DEF IInv, TypeOK, LoopResolve
<1>2. Head(queued) \in Reply /\ queued' \in Seq(Reply) /\ InLoop(r)
  BY <1>1, TailNumbers DEF InLoop
<1>3. r \in SeqNo
  BY <1>2 DEF Reply
<1> HIDE DEF r
<1>4. TypeOK' /\ FoundHasNumber'
  BY <1>1, <1>2, <1>3 DEF IInv, TypeOK, FoundHasNumber
<1>5. ASSUME NEW n \in SeqNo PROVE NumberInv(n)'
  <2>1. NumberInv(n) /\ (n = r => InLoop(n)) /\ Single(queued, n)
    BY <1>2 DEF IInv, NumberInv, Once
  <2>2. (InLoop(n)' <=> InLoop(n) /\ n # r) /\ Single(queued', n)
    BY <1>1, <2>1, TailNumbers DEF InLoop, r
  <2>3. /\ InOp(n)' = InOp(n) /\ InPipe(n)' = InPipe(n) /\ InWork(n)' = InWork(n)
        /\ InOut(n)' = InOut(n) /\ InPop(n)' = InPop(n)
    BY <1>1, SameOp, SamePipe, SameWork, SameOut DEF InPop
  <2>4. resolved[n] \in Nat /\ resolved'[n] = IF n = r THEN resolved[n] + 1 ELSE resolved[n]
    BY <1>1
  <2>5. n = r => /\ ~InOp(n) /\ ~Written(n) /\ ~InPop(n) /\ n \notin requests
                 /\ resolved[n] = 0 /\ n < seq
    <3>1. n = r => ~InOp(n) /\ ~Written(n) /\ ~InPop(n) /\ n \notin requests
      BY <2>1 DEF NumberInv, OnePlace, Taken, Registered, Written
    <3>2. n = r => resolved[n] = 0
      BY <2>1, <2>4 DEF NumberInv, Done, Taken
    <3>3. n = r => n < seq
      BY <2>1 DEF NumberInv, Fresh, Taken, SeqNo, IInv, TypeOK
    <3> QED
      BY <3>1, <3>2, <3>3
  <2>6. Once(n)' /\ KindKept(n)'
    BY <1>1, <2>1, <2>2 DEF NumberInv, Once, Single, KindKept, OfKind
  <2>7. OnePlace(n)' /\ Fresh(n)' /\ Registered(n)'
    BY <1>1, <2>1, <2>2, <2>3, <2>4, <2>5 DEF NumberInv, OnePlace, Taken, Fresh, Registered, Written
  <2>8. Done(n)'
    BY <1>1, <2>1, <2>2, <2>3, <2>4, <2>5 DEF NumberInv, Done, Taken, Written
  <2> QED
    BY <2>6, <2>7, <2>8 DEF NumberInv
<1> QED
  BY <1>1, <1>4, <1>5 DEF IInv

\* What is given to the event handler is an event or an error about a notification.
LEMMA SendEventIInv ==
  ASSUME IInv, SendEvent
  PROVE  IInv'
<1>1. /\ popped.found = "none" /\ popped' = Nothing
      /\ UNCHANGED <<seq, requests, pipe, pipeOpen, lockHeld, op, working, outgoing,
                     events, kindOf, resolved, queued, loopUp>>
  BY DEF SendEvent
<1>2. /\ stray' = stray \/ (popped.msg \in Reply /\ stray' = stray \cup {popped.msg.seq})
      /\ writerUp' \in BOOLEAN
  BY DEF SendEvent
<1>3. popped.msg \in Reply => popped.msg.seq \in SeqNo
  BY DEF Reply
<1>4. TypeOK' /\ FoundHasNumber'
  BY <1>1, <1>2, <1>3 DEF IInv, TypeOK, FoundHasNumber, Nothing
<1>5. ASSUME NEW n \in SeqNo PROVE NumberInv(n)'
  <2>1. NumberInv(n)
    BY DEF IInv
  <2>2. ~InPop(n)' /\ InLoop(n)' = InLoop(n)
    BY <1>1 DEF InPop, InLoop, Has, Nothing, Event, SeqNo
  <2>3. InOp(n)' = InOp(n) /\ InPipe(n)' = InPipe(n) /\ InWork(n)' = InWork(n) /\ InOut(n)' = InOut(n)
    BY <1>1, SameOp, SamePipe, SameWork, SameOut
  <2>4. n \in stray' => n \in stray \/ InPop(n)
    BY <1>2 DEF InPop
  <2>5. Once(n)' /\ KindKept(n)'
    BY <1>1, <2>1 DEF NumberInv, Once, Single, KindKept, OfKind
  <2>6. OnePlace(n)' /\ Fresh(n)' /\ Registered(n)' /\ Done(n)'
    BY <1>1, <2>1, <2>2, <2>3, <2>4 DEF NumberInv, OnePlace, Taken, Fresh, Registered, Done, Written
  <2> QED
    BY <2>5, <2>6 DEF NumberInv
<1> QED
  BY <1>1, <1>4, <1>5 DEF IInv

\* close loses what is in the pipe, and the loop that stops leaves what is queued.
LEMMA CloseIInv ==
  ASSUME IInv, CloseBegin \/ CloseEnd \/ LoopStop
  PROVE  IInv'
<1>1. /\ pipe' = pipe \/ pipe' = <<>>
      /\ pipeOpen' \in BOOLEAN /\ lockHeld' \in BOOLEAN /\ loopUp' \in BOOLEAN
      /\ UNCHANGED <<seq, requests, op, working, outgoing, popped,
                     writerUp, events, kindOf, resolved, stray, queued>>
  BY DEF CloseBegin, CloseEnd, LoopStop, IInv, TypeOK
<1>2. pipe' \in Seq(Packet)
  <2>1. pipe \in Seq(Packet) /\ <<>> \in Seq(Packet)
    BY DEF IInv, TypeOK
  <2> QED
    BY <1>1, <2>1
<1>3. TypeOK' /\ FoundHasNumber'
  BY <1>1, <1>2 DEF IInv, TypeOK, FoundHasNumber
<1>4. ASSUME NEW n \in SeqNo PROVE NumberInv(n)'
  <2>1. NumberInv(n)
    BY DEF IInv
  <2>2. /\ InPipe(n)' => InPipe(n)
        /\ Single(pipe', n) /\ OfKind(pipe', n, kindOf[n])
    BY <1>1, <2>1 DEF InPipe, Has, Single, OfKind, NumberInv, Once, KindKept
  <2>3. InOp(n)' = InOp(n) /\ InWork(n)' = InWork(n) /\ InOut(n)' = InOut(n) /\ InPop(n)' = InPop(n) /\ InLoop(n)' = InLoop(n)
    BY <1>1, SameOp, SameWork, SameOut, SamePop
  <2>4. Once(n)' /\ KindKept(n)'
    BY <1>1, <2>1, <2>2 DEF NumberInv, Once, Single, KindKept, OfKind
  <2>5. OnePlace(n)' /\ Fresh(n)' /\ Registered(n)' /\ Done(n)'
    BY <1>1, <2>1, <2>2, <2>3 DEF NumberInv, OnePlace, Taken, Fresh, Registered, Done, Written
  <2> QED
    BY <2>4, <2>5 DEF NumberInv
<1> QED
  BY <1>1, <1>3, <1>4 DEF IInv

\* A state that differs in nothing satisfies the invariant too.
LEMMA StutterIInv == IInv /\ UNCHANGED vars => IInv'
<1> SUFFICES ASSUME IInv, UNCHANGED vars PROVE IInv'
    OBVIOUS
<1>1. TypeOK' /\ FoundHasNumber' /\ SeqNo' = SeqNo
  BY DEF vars, IInv, TypeOK, FoundHasNumber, SeqNo
<1>2. ASSUME NEW n \in SeqNo PROVE NumberInv(n)'
  <2>1. InOp(n)' = InOp(n) /\ InPipe(n)' = InPipe(n) /\ InWork(n)' = InWork(n)
        /\ InOut(n)' = InOut(n) /\ InPop(n)' = InPop(n) /\ InLoop(n)' = InLoop(n)
    BY SameOp, SamePipe, SameWork, SameOut, SamePop DEF vars
  <2>2. Once(n)' /\ KindKept(n)'
    BY DEF vars, IInv, NumberInv, Once, Single, KindKept, OfKind
  <2> QED
    BY <2>1, <2>2 DEF vars, IInv, NumberInv, OnePlace, Taken, Fresh, Registered, Done, Written
<1> QED
  BY <1>1, <1>2 DEF IInv

\* Every step of a sender, of pydevd, of its writer thread, of the loop and of close preserves the
\* inductive invariant.
LEMMA NextIInv == IInv /\ [Next]_vars => IInv'
<1> SUFFICES ASSUME IInv, [Next]_vars PROVE IInv'
    OBVIOUS
<1>1. ASSUME NEW s \in Sender,
             (\E k \in Kind : MakePacket(s, k)) \/ WriteNotify(s) \/ WriteRequest(s)
      PROVE IInv'
  BY <1>1, MakePacketIInv, WriteNotifyIInv, WriteRequestIInv
<1>2. ASSUME Send PROVE IInv'
  BY <1>2, SendPopIInv, SendReplyIInv, SendEventIInv DEF Send
<1> QED
  BY <1>1, <1>2, RecvIInv, AnswerIInv, PydevdEventIInv, CloseIInv, LoopResolveIInv, StutterIInv DEF Next

LEMMA Invariance == Spec => []IInv
  BY InitIInv, NextIInv, PTL DEF Spec

-----------------------------------------------------------------------------
\* A set that holds something at most once counts as one or none.
LEMMA CardinalityOnce ==
  ASSUME NEW S, \A x, y \in S : x = y
  PROVE  Cardinality(S) = IF S = {} THEN 0 ELSE 1
<1>1. CASE S = {}
  BY <1>1, FS_EmptySet
<1>2. CASE S # {}
  <2>1. PICK x \in S : TRUE
    BY <1>2
  <2>2. S = {x}
    BY <2>1
  <2> QED
    BY <1>2, <2>2, FS_Singleton
<1> QED
  BY <1>1, <1>2

\* The sum of what is in the six places is therefore at most one.
LEMMA AtMostOneInUse ==
  ASSUME IInv, NEW n \in SeqNo
  PROVE  InUse(n) <= 1 /\ (resolved[n] = 1 => InUse(n) = 0)
<1> DEFINE A == {s \in Sender : op[s].seq = n}
           B == {i \in DOMAIN pipe : pipe[i].seq = n}
           C == {p \in working : p.seq = n}
           D == {i \in DOMAIN outgoing : outgoing[i].seq = n}
           E == {i \in DOMAIN queued : queued[i].seq = n}
<1>1. Once(n) /\ OnePlace(n) /\ Done(n)
  BY DEF IInv, NumberInv
<1>2. /\ Cardinality(A) = IF A = {} THEN 0 ELSE 1
      /\ Cardinality(B) = IF B = {} THEN 0 ELSE 1
      /\ Cardinality(C) = IF C = {} THEN 0 ELSE 1
      /\ Cardinality(D) = IF D = {} THEN 0 ELSE 1
      /\ Cardinality(E) = IF E = {} THEN 0 ELSE 1
  <2>1. /\ \A x, y \in A : x = y
        /\ \A x, y \in B : x = y
        /\ \A x, y \in C : x = y
        /\ \A x, y \in D : x = y
        /\ \A x, y \in E : x = y
    BY <1>1 DEF Once, Single
  <2> HIDE DEF A, B, C, D, E
  <2> QED
    BY <2>1, CardinalityOnce
<1>3. /\ A # {} <=> InOp(n)
      /\ B # {} <=> InPipe(n)
      /\ C # {} <=> InWork(n)
      /\ D # {} <=> InOut(n)
      /\ E # {} <=> InLoop(n)
  BY DEF InOp, InPipe, InWork, InOut, InLoop, Has
<1>4. InUse(n) = Cardinality(A) + Cardinality(B) + Cardinality(C) + Cardinality(D)
                   + (IF InPop(n) THEN 1 ELSE 0) + Cardinality(E)
  BY DEF InUse, InPop
<1> HIDE DEF A, B, C, D, E
<1> QED
  BY <1>1, <1>2, <1>3, <1>4 DEF OnePlace, Taken, Done, Written

\* The socket's state keeps its types, for any senders and any bounds.
THEOREM TypeCorrect == Spec => []TypeOK
<1>1. IInv => TypeOK
  BY DEF IInv
<1> QED
  BY <1>1, Invariance, PTL

\* make_packet, pydevd_request and send keep answers and requests together: a number is
\* on one packet or answer at a time, each future is resolved at most once, and no answer
\* to a request reaches the event handler.
THEOREM AnswersMatch == Spec => []RepliesMatched
<1>1. ASSUME IInv PROVE RepliesMatched
  <2> SUFFICES ASSUME NEW n \in SeqNo
               PROVE  /\ InUse(n) <= 1
                      /\ resolved[n] <= 1 /\ (resolved[n] = 1 => n \notin requests /\ InUse(n) = 0)
                      /\ n \in stray => kindOf[n] = "notify"
    BY DEF RepliesMatched
  <2>1. InUse(n) <= 1 /\ (resolved[n] = 1 => InUse(n) = 0)
    BY <1>1, AtMostOneInUse
  <2> QED
    BY <1>1, <2>1 DEF IInv, NumberInv, Registered, Done
<1> QED
  BY <1>1, Invariance, PTL
=============================================================================
