----------------------------- MODULE PydevdSocket -----------------------------
(***************************************************************************)
(* ptvsd/wrapper.py, class PydevdSocket: the object that is a socket to    *)
(* pydevd and a request interface to the message processor.                *)
(*                                                                         *)
(* Senders write packets into a pipe (make_packet, pydevd_notify,          *)
(* pydevd_request); pydevd's reader takes them out (recv), pydevd answers  *)
(* some of them, later and in any order, and pydevd's writer hands answers *)
(* and events to send, which queues the resolution of the request with     *)
(* that sequence number on the event loop or calls the event handler.  The *)
(* loop's thread resolves what is queued until close stops it.             *)
(*                                                                         *)
(* self.lock is modelled as held only by close, which keeps it while it    *)
(* closes the message processor; every other lock section is one step,     *)
(* enabled while close does not hold the lock.                             *)
(*                                                                         *)
(* pydevd itself is the actions Recv .. PydevdEvent: of a packet only its  *)
(* kind matters, "request" (answered), "quiet" (CMD_RUN and                *)
(* CMD_REDIRECT_OUTPUT: sent by pydevd_request, answered only by an error) *)
(* or "notify" (answered only by an error).                                *)
(***************************************************************************)
EXTENDS Naturals, Sequences, FiniteSets, SequencesExt

CONSTANTS
  Sender,      \* threads that notify and request
  MaxSeq,      \* bound: sequence numbers 1..MaxSeq are handed out
  MaxEvents    \* bound: events pydevd sends of its own accord

ASSUME BoundAssumption == MaxSeq \in Nat /\ MaxEvents \in Nat

VARIABLES
  seq,         \* self.seq, counted from 1 instead of 1000000000
  requests,    \* DOMAIN self.requests: numbers whose future is registered
  pipe,        \* packets written and not yet read
  pipeOpen,    \* self.pipe_w is not None (and self.pipe_r)
  lockHeld,    \* close holds self.lock
  op,          \* Sender -> the packet made by make_packet and not yet written
  working,     \* packets pydevd has read and is working on
  outgoing,    \* WriterThread.cmdQueue: messages on their way to send
  popped,      \* what send has found: the message and whether a future was popped
  writerUp,    \* pydevd's writer thread has not died of an exception
  queued,      \* answers whose fut.set_result is queued on the event loop
  loopUp,      \* the event loop's thread is in run_forever
  events,      \* history: events sent by pydevd
  kindOf,      \* history: sequence number -> kind of the packet it was made for
  resolved,    \* history: sequence number -> times its future was resolved
  stray        \* history: sequence numbers of answers given to the event handler

vars == <<seq, requests, pipe, pipeOpen, lockHeld, op, working, outgoing, popped,
          writerUp, queued, loopUp, events, kindOf, resolved, stray>>

SeqNo == 1..MaxSeq
Kind == {"request", "quiet", "notify"}
Packet == [kind : Kind, seq : SeqNo]
NoPacket == [kind |-> "none", seq |-> 0]
Event == [what |-> "event", seq |-> 0]
Unsupported == [what |-> "unsupported", seq |-> 0]
Reply == [what : {"result", "error"}, seq : SeqNo]
Message == {Event, Unsupported} \cup Reply
Nothing == [msg |-> Event, found |-> "idle"]

Init ==
  /\ seq = 1
  /\ requests = {}
  /\ pipe = <<>>
  /\ pipeOpen = TRUE
  /\ lockHeld = FALSE
  /\ op = [s \in Sender |-> NoPacket]
  /\ working = {}
  /\ outgoing = <<>>
  /\ popped = Nothing
  /\ writerUp = TRUE
  /\ queued = <<>>
  /\ loopUp = TRUE
  /\ events = 0
  /\ kindOf = [n \in SeqNo |-> "none"]
  /\ resolved = [n \in SeqNo |-> 0]
  /\ stray = {}

-----------------------------------------------------------------------------
\* make_packet: the lock section that takes the next sequence number.

\* mutant: the number after the increment is used
MakePacketAfter(s, k) ==
  /\ op[s] = NoPacket
  /\ ~lockHeld
  /\ seq <= MaxSeq
  /\ seq' = seq + 1
  /\ op' = [op EXCEPT ![s] = [kind |-> k, seq |-> seq']]
  /\ kindOf' = [kindOf EXCEPT ![seq] = k]
  /\ UNCHANGED <<requests, pipe, pipeOpen, lockHeld, working, outgoing, popped,
                 writerUp, events, resolved, stray, queued, loopUp>>

MakePacket(s, k) ==
  /\ op[s] = NoPacket
  /\ ~lockHeld
  /\ seq <= MaxSeq
  /\ seq' = seq + 1
  /\ op' = [op EXCEPT ![s] = [kind |-> k, seq |-> seq]]
  /\ kindOf' = [kindOf EXCEPT ![seq] = k]
  /\ UNCHANGED <<requests, pipe, pipeOpen, lockHeld, working, outgoing, popped,
                 writerUp, events, resolved, stray, queued, loopUp>>

\* os.write(self.pipe_w, packet): raises in the sender when the pipe is closed.
Write(s) ==
  /\ pipe' = IF pipeOpen THEN Append(pipe, op[s]) ELSE pipe
  /\ op' = [op EXCEPT ![s] = NoPacket]

\* pydevd_notify, after make_packet: no lock around the write.
WriteNotify(s) ==
  /\ op[s].kind = "notify"
  /\ Write(s)
  /\ UNCHANGED <<seq, requests, pipeOpen, lockHeld, working, outgoing, popped,
                 writerUp, events, kindOf, resolved, stray, queued, loopUp>>

\* pydevd_request, after make_packet: registered and written in one lock section;
\* the registration stays behind when the write raises.
\* mutant: no future for the requests whose answer nobody awaits
WriteRequestUnawaited(s) ==
  /\ op[s].kind \in {"request", "quiet"}
  /\ ~lockHeld
  /\ requests' = IF op[s].kind = "quiet" THEN requests ELSE requests \cup {op[s].seq}
  /\ Write(s)
  /\ UNCHANGED <<seq, pipeOpen, lockHeld, working, outgoing, popped,
                 writerUp, events, kindOf, resolved, stray, queued, loopUp>>

WriteRequest(s) ==
  /\ op[s].kind \in {"request", "quiet"}
  /\ ~lockHeld
  /\ requests' = requests \cup {op[s].seq}
  /\ Write(s)
  /\ UNCHANGED <<seq, pipeOpen, lockHeld, working, outgoing, popped,
                 writerUp, events, kindOf, resolved, stray, queued, loopUp>>

-----------------------------------------------------------------------------
\* pydevd: the reader thread takes the packets in order ...
Recv ==
  /\ pipeOpen
  /\ pipe # <<>>
  /\ working' = working \cup {Head(pipe)}
  /\ pipe' = Tail(pipe)
  /\ UNCHANGED <<seq, requests, pipeOpen, lockHeld, op, outgoing, popped,
                 writerUp, events, kindOf, resolved, stray, queued, loopUp>>

\* ... they are processed in any order (internal commands wait for their thread):
\* a request is answered, a "quiet" request or a notification is not ...
Answer(p) ==
  /\ p \in working
  /\ working' = working \ {p}
  /\ outgoing' = IF p.kind = "request"
                 THEN Append(outgoing, [what |-> "result", seq |-> p.seq])
                 ELSE outgoing
  /\ UNCHANGED <<seq, requests, pipe, pipeOpen, lockHeld, op, popped,
                 writerUp, events, kindOf, resolved, stray, queued, loopUp>>

\* ... and any packet may fail, which process_net_command answers by CMD_ERROR.
AnswerError(p) ==
  /\ p \in working
  /\ working' = working \ {p}
  /\ outgoing' = Append(outgoing, [what |-> "error", seq |-> p.seq])
  /\ UNCHANGED <<seq, requests, pipe, pipeOpen, lockHeld, op, popped,
                 writerUp, events, kindOf, resolved, stray, queued, loopUp>>

\* Events carry numbers of pydevd's own, which no request has; the message processor
\* handles seven kinds of them and no other.
PydevdEvent ==
  /\ events < MaxEvents
  /\ events' = events + 1
  /\ \E m \in {Event, Unsupported} : outgoing' = Append(outgoing, m)
  /\ UNCHANGED <<seq, requests, pipe, pipeOpen, lockHeld, op, working, popped,
                 writerUp, kindOf, resolved, stray, queued, loopUp>>

-----------------------------------------------------------------------------
\* send, on the writer thread: the lock section that pops the request.
SendPop ==
  /\ writerUp
  /\ popped = Nothing
  /\ ~lockHeld
  /\ outgoing # <<>>
  /\ LET m == Head(outgoing) IN
       /\ popped' = [msg |-> m, found |-> IF m.seq \in requests THEN "future" ELSE "none"]
       /\ requests' = requests \ {m.seq}
  /\ outgoing' = Tail(outgoing)
  /\ UNCHANGED <<seq, pipe, pipeOpen, lockHeld, op, working,
                 writerUp, events, kindOf, resolved, stray, queued, loopUp>>

\* ... then loop.call_soon_threadsafe(fut.set_result, ...): queued, also on a loop that
\* has stopped.
\* mutant: an error answer is dropped instead of being passed on
SendReplyNoError ==
  /\ popped.found = "future"
  /\ queued' = IF popped.msg.what = "error" THEN queued ELSE Append(queued, popped.msg)
  /\ popped' = Nothing
  /\ UNCHANGED <<seq, requests, pipe, pipeOpen, lockHeld, op, working, outgoing,
                 writerUp, loopUp, events, kindOf, resolved, stray>>

SendReply ==
  /\ popped.found = "future"
  /\ queued' = Append(queued, popped.msg)
  /\ popped' = Nothing
  /\ UNCHANGED <<seq, requests, pipe, pipeOpen, lockHeld, op, working, outgoing,
                 writerUp, loopUp, events, kindOf, resolved, stray>>

\* ... or self.event_handler(...), which raises for every command it has no handler for,
\* CMD_ERROR and the results of commands among them ("Unsupported pydevd command"): the
\* writer thread ends.
SendEvent ==
  /\ popped.found = "none"
  /\ popped' = Nothing
  /\ writerUp' = (popped.msg = Event)
  /\ stray' = IF popped.msg \in Reply THEN stray \cup {popped.msg.seq} ELSE stray
  /\ UNCHANGED <<seq, requests, pipe, pipeOpen, lockHeld, op, working, outgoing,
                 events, kindOf, resolved, queued, loopUp>>

-----------------------------------------------------------------------------
\* close: both ends of the pipe are closed, what is in it is lost; the lock is
\* kept while the message processor is closed.
CloseBegin ==
  /\ ~lockHeld
  /\ pipeOpen
  /\ lockHeld' = TRUE
  /\ pipeOpen' = FALSE
  /\ pipe' = <<>>
  /\ UNCHANGED <<seq, requests, op, working, outgoing, popped,
                 writerUp, events, kindOf, resolved, stray, queued, loopUp>>

CloseEnd ==
  /\ lockHeld
  /\ lockHeld' = FALSE
  /\ UNCHANGED <<seq, requests, pipe, pipeOpen, op, working, outgoing, popped,
                 writerUp, events, kindOf, resolved, stray, queued, loopUp>>

-----------------------------------------------------------------------------
\* The event loop's thread calls what is queued, in order ...
LoopResolve ==
  /\ loopUp
  /\ queued # <<>>
  /\ resolved' = [resolved EXCEPT ![Head(queued).seq] = @ + 1]
  /\ queued' = Tail(queued)
  /\ UNCHANGED <<seq, requests, pipe, pipeOpen, lockHeld, op, working, outgoing, popped,
                 writerUp, loopUp, events, kindOf, stray>>

\* ... until run_forever sees the stop of VSCodeMessageProcessor.close, which comes after
\* the pipe is closed, by this close (under the lock) or by one that called it (without):
\* what is queued then, or later, is never called.
LoopStop ==
  /\ loopUp
  /\ ~pipeOpen
  /\ loopUp' = FALSE
  /\ UNCHANGED <<seq, requests, pipe, pipeOpen, lockHeld, op, working, outgoing, popped,
                 writerUp, queued, events, kindOf, resolved, stray>>

-----------------------------------------------------------------------------
Send == SendPop \/ SendReply \/ SendEvent

Next ==
  \/ \E s \in Sender :
       \/ \E k \in Kind : MakePacket(s, k)
       \/ WriteNotify(s)
       \/ WriteRequest(s)
  \/ Recv
  \/ \E p \in working : Answer(p) \/ AnswerError(p)
  \/ PydevdEvent
  \/ Send
  \/ CloseBegin
  \/ CloseEnd
  \/ LoopResolve
  \/ LoopStop

\* The writer thread keeps sending, the loop's thread keeps calling and close ends (its
\* waits have timeouts); nothing makes pydevd answer.
Fairness == WF_vars(Send) /\ WF_vars(LoopResolve) /\ WF_vars(CloseEnd)

Spec == Init /\ [][Next]_vars /\ Fairness

-----------------------------------------------------------------------------
TypeOK ==
  /\ seq \in 1..(MaxSeq + 1)
  /\ requests \in SUBSET SeqNo
  /\ pipe \in Seq(Packet)
  /\ pipeOpen \in BOOLEAN
  /\ lockHeld \in BOOLEAN
  /\ op \in [Sender -> Packet \cup {NoPacket}]
  /\ working \in SUBSET Packet
  /\ outgoing \in Seq(Message)
  /\ popped \in {Nothing} \cup [msg : Message, found : {"future", "none"}]
  /\ writerUp \in BOOLEAN
  /\ queued \in Seq(Reply)
  /\ loopUp \in BOOLEAN
  /\ events \in 0..MaxEvents
  /\ kindOf \in [SeqNo -> Kind \cup {"none"}]
  /\ resolved \in [SeqNo -> Nat]
  /\ stray \in SUBSET SeqNo

\* The numbers in use: unwritten, in the pipe, in pydevd, on their way back, or queued
\* on the loop.
InUse(n) ==
  Cardinality({s \in Sender : op[s].seq = n})
  + Cardinality({i \in DOMAIN pipe : pipe[i].seq = n})
  + Cardinality({p \in working : p.seq = n})
  + Cardinality({i \in DOMAIN outgoing : outgoing[i].seq = n})
  + (IF popped.msg.seq = n THEN 1 ELSE 0)
  + Cardinality({i \in DOMAIN queued : queued[i].seq = n})

\* Answers and requests belong together.  A number is on one packet or answer at a
\* time, whatever the senders interleave; a future is resolved at most once and is not
\* registered any more then; and the answer to a request never reaches the event
\* handler, where it would end the writer thread and with it the session: it cannot
\* overtake the registration.  Only an error about a notification can.
RepliesMatched ==
  \A n \in SeqNo :
    /\ InUse(n) <= 1
    /\ resolved[n] <= 1 /\ (resolved[n] = 1 => n \notin requests /\ InUse(n) = 0)
    /\ n \in stray => kindOf[n] = "notify"

\* Every answer pydevd gives to a request, error or not, makes its future done on the
\* event loop, also while the socket is being closed.  There are two ways to lose it: the
\* writer thread ended before it took the answer, by an event without a handler or by an
\* error about a notification, which has no future; or close stopped the loop first.  An
\* answer send has taken is only lost the second way.
EveryReplyResolves ==
  \A n \in SeqNo :
    /\ (kindOf[n] # "notify" /\ \E i \in DOMAIN outgoing : outgoing[i].seq = n)
         ~> (resolved[n] = 1 \/ ~writerUp \/ ~loopUp)
    /\ ((popped.found = "future" /\ popped.msg.seq = n) \/ \E i \in DOMAIN queued : queued[i].seq = n)
         ~> (resolved[n] = 1 \/ ~loopUp)
=============================================================================
