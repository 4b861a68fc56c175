------------------------------- MODULE Shutdown -------------------------------
(***************************************************************************)
(* The end of a debug session: VSCodeMessageProcessor.close and            *)
(* PydevdSocket.close of ptvsd/wrapper.py, which call each other, and the  *)
(* three threads that may run them at once: the main thread (exit_handler, *)
(* signal_handler), pydevd's writer thread (killReceived) and the server   *)
(* thread (a disconnect request).  The server thread is the loop of        *)
(* ptvsd/ipcjson.py with its ways to end.                                  *)
(*                                                                         *)
(* A thread has a program counter and a stack of return labels; labels of  *)
(* close start with "p" (processor) and "s" (socket), those of the server  *)
(* thread are the other ones.  No clock: a wait with a time-out may end at *)
(* any time.                                                               *)
(***************************************************************************)
EXTENDS Naturals, Sequences, FiniteSets

CONSTANTS
  Leaves,        \* how the client may end the connection: "eof" or "cut" (between or
                 \* inside messages), "reset"
  Requests,      \* kinds of requests the client may send, each at most once
  MaxRequests    \* bound: requests of a session

Thread == {"main", "writer", "server"}
Kind == {"config", "pause", "disconnect", "unknown"}
None == "none"

ASSUME LeavesAssumption == Leaves \subseteq {"eof", "cut", "reset"}
ASSUME RequestsAssumption == Requests \subseteq Kind /\ MaxRequests \in Nat

VARIABLES
  pc,           \* Thread -> label
  stack,        \* Thread -> labels to return to
  holds,        \* the threads whose local variable pydevd of close is not None
  closed,       \* VSCodeMessageProcessor._closed
  hasPydevd,    \* VSCodeMessageProcessor.pydevd is not None
  pending,      \* VSCodeMessageProcessor.disconnect_request: there is one
  reason,       \* VSCodeMessageProcessor.start_reason
  lock,         \* holder of PydevdSocket.lock
  closing,      \* PydevdSocket._closing
  sockClosed,   \* PydevdSocket._closed
  pipe,         \* PydevdSocket.pipe_w and pipe_r are open
  hasProc,      \* PydevdSocket._vscprocessor is not None
  exit,         \* IpcChannel.__exit
  conn,         \* the client's connection: "open", "closed" (by ptvsd) or how
                \* the client has left
  inbox,        \* requests on their way
  msg,          \* the request the server thread works on
  kill,         \* its local variable killProcess
  process,      \* "running", "exited", "killed"
  sent,         \* history: requests the client has made
  answers,      \* history: Kind -> responses sent: 0, 1, 2 or more
  told,         \* history: which of the events "exited" and "terminated" were sent
  disorder,     \* history: one was sent twice, or the second before the first
  stored,       \* history: when the disconnect was stored: "no", "inTime", "late"
  waited,       \* history: some close has ended its wait for the disconnect
  raced,        \* history: two threads were past the test of _closed
  overtaken     \* history: another close began after killProcess was computed

processor == <<closed, hasPydevd, pending, reason>>
socket == <<lock, closing, sockClosed, pipe, hasProc>>
control == <<pc, stack, holds>>
announced == <<told, disorder>>
history == <<stored, waited, raced, overtaken>>
vars == <<control, processor, socket, exit, conn, inbox, msg, kill, process, sent,
          answers, announced, history>>

Init ==
  /\ pc = [t \in Thread |-> IF t = "server" THEN "read" ELSE "run"]
  /\ stack = [t \in Thread |-> <<>>]
  /\ holds = {}
  /\ closed = FALSE /\ hasPydevd = TRUE /\ pending = FALSE
  /\ reason \in {None, "launch", "attach"}
  /\ lock = None /\ closing = FALSE /\ sockClosed = FALSE /\ pipe = TRUE /\ hasProc = TRUE
  /\ exit = FALSE
  /\ conn = "open" /\ inbox = <<>>
  /\ msg = None /\ kill = FALSE
  /\ process = "running"
  /\ sent = {} /\ answers = [k \in Kind |-> 0] /\ told = {} /\ disorder = FALSE
  /\ stored = "no" /\ waited = FALSE /\ raced = FALSE /\ overtaken = FALSE

-----------------------------------------------------------------------------
\* Control.

At(t, label) == process = "running" /\ pc[t] = label
Goto(t, label) == pc' = [pc EXCEPT ![t] = label] /\ UNCHANGED stack
Call(t, label, back) ==
  /\ pc' = [pc EXCEPT ![t] = label]
  /\ stack' = [stack EXCEPT ![t] = <<back>> \o @]
Return(t) ==
  /\ pc' = [pc EXCEPT ![t] = Head(stack[t])]
  /\ stack' = [stack EXCEPT ![t] = Tail(@)]

\* Where an exception ends up: on_request answers it, WriterThread ignores it, in
\* the exit handler it keeps the rest from being done; out of the signal handler it
\* unwinds the program, whose end runs the exit handler.
Handler(t) ==
  CASE t = "server" -> "refuse"
    [] t = "writer" -> "done"
    [] OTHER -> IF \E i \in DOMAIN stack[t] : stack[t][i] = "exiting" THEN "exiting" ELSE "over"

\* An exception leaves every frame of close, and with it "with self.lock".
Raise(t) ==
  /\ pc' = [pc EXCEPT ![t] = Handler(t)]
  /\ stack' = [stack EXCEPT ![t] = <<>>]
  /\ lock' = IF lock = t THEN None ELSE lock
  /\ UNCHANGED <<closing, sockClosed, pipe, hasProc>>

\* SocketIO._send: BrokenPipeError is ignored, a reset is reported once, and the
\* closed socket raises.
Sends == conn \in {"open", "eof", "cut"}
Fails == ~Sends /\ conn' = (IF conn = "reset" THEN "eof" ELSE conn)

\* Thread t sends: then effect, label; or the exception.
SendThen(t, effect, label) ==
  \/ Sends /\ effect /\ Goto(t, label) /\ UNCHANGED <<conn, socket>>
  \/ Fails /\ Raise(t) /\ UNCHANGED <<answers, announced>>

Answer(k) ==
  answers' = [answers EXCEPT ![k] = IF @ < 2 THEN @ + 1 ELSE @] /\ UNCHANGED announced
Announce(event) ==
  /\ told' = told \cup {event}
  /\ disorder' = (disorder \/ event \in told \/ (event = "terminated" /\ told = {}))

-----------------------------------------------------------------------------
\* VSCodeMessageProcessor.close

PTest(t) ==
  /\ At(t, "pTest")
  /\ IF closed THEN Return(t) ELSE Goto(t, "pMark")
  /\ overtaken' = (overtaken \/ (Head(stack[t]) = "dKill" /\ kill /\ closed))
  /\ UNCHANGED <<holds, processor, socket, exit, conn, inbox, msg, kill, process, sent,
                 answers, announced, stored, waited, raced>>

\* mutant: the flag is never set
PMarkNot(t) ==
  /\ At(t, "pMark")
  /\ UNCHANGED closed
  /\ holds' = IF hasPydevd THEN holds \cup {t} ELSE holds \ {t}
  /\ Goto(t, "pTake")
  /\ raced' = (raced \/ closed)
  /\ UNCHANGED <<hasPydevd, pending, reason, socket, exit, conn, inbox, msg, kill, process,
                 sent, answers, announced, stored, waited, overtaken>>

PMark(t) ==
  /\ At(t, "pMark")
  /\ closed' = TRUE
  /\ holds' = IF hasPydevd THEN holds \cup {t} ELSE holds \ {t}
  /\ Goto(t, "pTake")
  /\ raced' = (raced \/ closed)
  /\ UNCHANGED <<hasPydevd, pending, reason, socket, exit, conn, inbox, msg, kill, process,
                 sent, answers, announced, stored, waited, overtaken>>

\* self.pydevd = None; pydevd.shutdown, which does nothing; pydevd.close
PTake(t) ==
  /\ At(t, "pTake")
  /\ hasPydevd' = FALSE
  /\ IF t \in holds THEN Call(t, "sTest", "pExited") /\ UNCHANGED socket
     ELSE Raise(t)
  /\ holds' = holds \ {t}
  /\ UNCHANGED <<closed, pending, reason, exit, conn, inbox, msg, kill, process, sent,
                 answers, announced, history>>

\* send_event('exited', ...), send_event('terminated')
PEvent(t, at, event, next) ==
  /\ At(t, at)
  /\ SendThen(t, Announce(event) /\ UNCHANGED answers, next)
  /\ UNCHANGED <<holds, processor, exit, inbox, msg, kill, process, sent, history>>

\* mutant: the wait ends without a look at the request
PAnswerNot(t) ==
  /\ At(t, "pAnswer")
  /\ waited' = TRUE
  /\ Goto(t, "pStop") /\ UNCHANGED <<socket, conn, answers, announced>>
  /\ UNCHANGED <<holds, processor, exit, inbox, msg, kill, process, sent,
                 stored, raced, overtaken>>

\* The wait for the disconnect ends, and one that has been stored is answered.
PAnswer(t) ==
  /\ At(t, "pAnswer")
  /\ waited' = TRUE
  /\ IF pending THEN SendThen(t, Answer("disconnect"), "pStop")
     ELSE Goto(t, "pStop") /\ UNCHANGED <<socket, conn, answers, announced>>
  /\ UNCHANGED <<holds, processor, exit, inbox, msg, kill, process, sent,
                 stored, raced, overtaken>>

\* self.disconnect_request = None; set_exit; loop.stop, and a join with a time-out
PStop(t) ==
  /\ At(t, "pStop")
  /\ pending' = FALSE
  /\ exit' = TRUE
  /\ Goto(t, "pDown")
  /\ UNCHANGED <<holds, closed, hasPydevd, reason, socket, conn, inbox, msg, kill, process, sent,
                 answers, announced, history>>

\* socket.shutdown, which may find that the client has left, and socket.close
PDown(t) ==
  /\ At(t, "pDown")
  /\ \/ conn # "reset" /\ conn # "closed" /\ conn' = "closed" /\ Return(t) /\ UNCHANGED socket
     \/ conn # "open" /\ conn' = (IF conn = "reset" THEN "eof" ELSE conn) /\ Raise(t)
  /\ UNCHANGED <<holds, processor, exit, inbox, msg, kill, process, sent, answers, announced,
                 history>>

\* mutant: the test without the lock is dropped
STestNot(t) ==
  /\ At(t, "sTest")
  /\ Goto(t, "sLock")
  /\ UNCHANGED <<holds, processor, socket, exit, conn, inbox, msg, kill, process, sent,
                 answers, announced, history>>

\* PydevdSocket.close
STest(t) ==
  /\ At(t, "sTest")
  /\ IF closing THEN Return(t) ELSE Goto(t, "sLock")
  /\ UNCHANGED <<holds, processor, socket, exit, conn, inbox, msg, kill, process, sent,
                 answers, announced, history>>

\* The lock, the pipe, and the processor if no close has taken it.
SLock(t) ==
  /\ At(t, "sLock")
  /\ lock = None
  /\ IF sockClosed THEN Return(t) /\ UNCHANGED socket
     ELSE /\ lock' = t /\ closing' = TRUE /\ pipe' = FALSE /\ hasProc' = FALSE
          /\ UNCHANGED sockClosed
          /\ IF hasProc THEN Call(t, "pTest", "sDone") ELSE Goto(t, "sDone")
  /\ UNCHANGED <<holds, processor, exit, conn, inbox, msg, kill, process, sent,
                 answers, announced, history>>

\* mutant: the lock is kept
SDoneHolding(t) ==
  /\ At(t, "sDone")
  /\ sockClosed' = TRUE /\ closing' = FALSE /\ UNCHANGED lock
  /\ Return(t)
  /\ UNCHANGED <<holds, processor, pipe, hasProc, exit, conn, inbox, msg, kill, process,
                 sent, answers, announced, history>>

SDone(t) ==
  /\ At(t, "sDone")
  /\ sockClosed' = TRUE /\ closing' = FALSE /\ lock' = None
  /\ Return(t)
  /\ UNCHANGED <<holds, processor, pipe, hasProc, exit, conn, inbox, msg, kill, process,
                 sent, answers, announced, history>>

CloseStep(t) ==
  \/ PTest(t) \/ PMark(t) \/ PTake(t)
  \/ PEvent(t, "pExited", "exited", "pTerminated")
  \/ PEvent(t, "pTerminated", "terminated", "pAnswer")
  \/ PAnswer(t) \/ PStop(t) \/ PDown(t)
  \/ STest(t) \/ SLock(t) \/ SDone(t)

-----------------------------------------------------------------------------
\* The main thread.

\* exit_handler, run at the end of the program and after a signal handler's sys.exit
Exit ==
  /\ At("main", "run") \/ At("main", "exiting")
  /\ Call("main", "pTest", "join")
  /\ UNCHANGED <<holds, processor, socket, exit, conn, inbox, msg, kill, process, sent,
                 answers, announced, history>>

\* The join of the server thread ends by its end or a time-out, or an exception has
\* skipped it; then the process ends and its daemon threads with it.
EndOfProcess ==
  /\ At("main", "join") \/ At("main", "over")
  /\ process' = "exited"
  /\ UNCHANGED <<control, processor, socket, exit, conn, inbox, msg, kill, sent,
                 answers, announced, history>>

\* SIGHUP runs signal_handler on top of whatever the main thread does; sys.exit then
\* leads to the exit handler, or out of it.
Hangup ==
  /\ process = "running"
  /\ pc["main"] \notin {"exiting", "over"}
  /\ \A i \in DOMAIN stack["main"] : stack["main"][i] \notin {"exiting", "over"}
  /\ Call("main", "pTest", IF pc["main"] = "run" THEN "exiting" ELSE "over")
  /\ UNCHANGED <<holds, processor, socket, exit, conn, inbox, msg, kill, process, sent,
                 answers, announced, history>>

\* The writer thread: killReceived and nothing left to write.
WriterClose ==
  /\ At("writer", "run")
  /\ Call("writer", "sTest", "done")
  /\ UNCHANGED <<holds, processor, socket, exit, conn, inbox, msg, kill, process, sent,
                 answers, announced, history>>

-----------------------------------------------------------------------------
\* The client.

ClientRequest(k) ==
  /\ process = "running" /\ conn = "open"
  /\ k \notin sent /\ Cardinality(sent) < MaxRequests
  /\ sent' = sent \cup {k}
  /\ inbox' = Append(inbox, k)
  /\ UNCHANGED <<control, processor, socket, exit, conn, msg, kill, process, answers, announced,
                 history>>

ClientLeaves ==
  /\ process = "running" /\ conn = "open"
  /\ conn' \in Leaves
  /\ UNCHANGED <<control, processor, socket, exit, inbox, msg, kill, process, sent, answers, announced, history>>

-----------------------------------------------------------------------------
\* The server thread: process_one_message and the handlers.

Read ==
  /\ At("server", "read")
  /\ conn # "closed" /\ inbox # <<>>
  /\ msg' = Head(inbox)
  /\ inbox' = Tail(inbox)
  /\ Goto("server", "handle")
  /\ UNCHANGED <<holds, processor, socket, exit, conn, kill, process, sent, answers, announced,
                 history>>

\* mutant: an empty read is not an occasion to look at the flag
ReadEndForever ==
  /\ At("server", "read")
  /\ conn # "open" /\ inbox = <<>>
  /\ conn \in {"cut", "reset"}
  /\ conn' = IF conn = "reset" THEN "eof" ELSE conn
  /\ Goto("server", "ended")
  /\ UNCHANGED <<holds, processor, socket, exit, inbox, msg, kill, process, sent, answers, announced, history>>

\* No message any more.  An empty read between messages and the closed socket lead
\* back to recv unless the flag is set; a reset and an end inside a message raise.
ReadEnd ==
  /\ At("server", "read")
  /\ conn = "closed" \/ (inbox = <<>> /\ conn # "open")
  /\ exit \/ conn \in {"cut", "reset"}
  /\ conn' = IF conn = "reset" THEN "eof" ELSE conn
  /\ Goto("server", "ended")
  /\ UNCHANGED <<holds, processor, socket, exit, inbox, msg, kill, process, sent, answers, announced, history>>

\* return self.__exit, at the end of process_one_message
After == IF exit THEN "ended" ELSE "read"

\* on_request's answer to an exception; its own failure is only printed.
Refuse ==
  /\ At("server", "refuse")
  /\ \/ Sends /\ Answer(msg) /\ UNCHANGED conn
     \/ Fails /\ UNCHANGED <<answers, announced>>
  /\ Goto("server", After)
  /\ UNCHANGED <<holds, processor, socket, exit, inbox, msg, kill, process, sent, history>>

Handle(k) == At("server", "handle") /\ msg = k

\* on_invalid_request
OnUnknown ==
  /\ Handle("unknown")
  /\ SendThen("server", Answer("unknown"), "unknown")
  /\ UNCHANGED <<holds, processor, exit, inbox, msg, kill, process, sent, history>>

SetExit ==
  /\ At("server", "unknown")
  /\ exit' = TRUE
  /\ Goto("server", "ended")
  /\ UNCHANGED <<holds, processor, socket, conn, inbox, msg, kill, process, sent, answers, announced, history>>

\* on_configurationDone answers first ...
OnConfigurationDone ==
  /\ Handle("config")
  /\ SendThen("server", Answer("config"), "pydevd")
  /\ UNCHANGED <<holds, processor, exit, inbox, msg, kill, process, sent, history>>

OnPause ==
  /\ Handle("pause")
  /\ Goto("server", "pydevd")
  /\ UNCHANGED <<holds, processor, socket, exit, conn, inbox, msg, kill, process, sent,
                 answers, announced, history>>

\* ... then both use self.pydevd,
UsePydevd ==
  /\ At("server", "pydevd")
  /\ Goto("server", IF hasPydevd THEN "packet" ELSE "refuse")
  /\ UNCHANGED <<holds, processor, socket, exit, conn, inbox, msg, kill, process, sent,
                 answers, announced, history>>

\* make_packet under the lock and os.write to the pipe,
Packet ==
  /\ At("server", "packet")
  /\ lock = None
  /\ Goto("server", IF pipe THEN "reply" ELSE "refuse")
  /\ UNCHANGED <<holds, processor, socket, exit, conn, inbox, msg, kill, process, sent,
                 answers, announced, history>>

\* and send: the process event, for which there must be a start_reason; the response.
Reply ==
  /\ At("server", "reply")
  /\ IF msg = "config" /\ reason = None
     THEN Goto("server", "refuse") /\ UNCHANGED <<socket, conn, answers, announced>>
     ELSE SendThen("server",
            IF msg = "config" THEN UNCHANGED <<answers, announced>> ELSE Answer(msg), After)
  /\ UNCHANGED <<holds, processor, exit, inbox, msg, kill, process, sent, history>>

\* on_disconnect, without a start_reason and in the attach case
OnDisconnect ==
  /\ Handle("disconnect")
  /\ reason # "launch"
  /\ IF reason = None THEN Goto("server", "refuse") /\ UNCHANGED <<socket, conn, answers, announced>>
     ELSE SendThen("server", Answer("disconnect"), After)
  /\ UNCHANGED <<holds, processor, exit, inbox, msg, kill, process, sent, history>>

\* The launch case stores the request and sets the event, ...
OnDisconnectLaunch ==
  /\ Handle("disconnect")
  /\ reason = "launch"
  /\ pending' = TRUE
  /\ stored' = IF waited THEN "late" ELSE "inTime"
  /\ Goto("server", "dTest")
  /\ UNCHANGED <<holds, closed, hasPydevd, reason, socket, exit, conn, inbox, msg, kill,
                 process, sent, answers, announced, waited, raced, overtaken>>

\* ... looks whether it is the first to close, closes, ...
KillTest ==
  /\ At("server", "dTest")
  /\ kill' = ~closed
  /\ Call("server", "pTest", "dKill")
  /\ UNCHANGED <<holds, processor, socket, exit, conn, inbox, msg, process, sent, answers, announced, history>>

\* mutant: the response is sent here as in the attach case
KillAnswered ==
  /\ At("server", "dKill")
  /\ process' = IF kill THEN "killed" ELSE process
  /\ Answer("disconnect")
  /\ Goto("server", After)
  /\ UNCHANGED <<holds, processor, socket, exit, conn, inbox, msg, kill, sent, history>>

\* ... and if so ends the process.
Kill ==
  /\ At("server", "dKill")
  /\ process' = IF kill THEN "killed" ELSE process
  /\ kill' = FALSE
  /\ Goto("server", After)
  /\ UNCHANGED <<holds, processor, socket, exit, conn, inbox, msg, sent, answers, announced,
                 history>>

ServerStep ==
  \/ Read \/ ReadEnd \/ Refuse
  \/ OnUnknown \/ SetExit
  \/ OnConfigurationDone \/ OnPause \/ UsePydevd \/ Packet \/ Reply
  \/ OnDisconnect \/ OnDisconnectLaunch \/ KillTest \/ Kill

-----------------------------------------------------------------------------
Next ==
  \/ \E t \in Thread : CloseStep(t)
  \/ Exit \/ EndOfProcess \/ Hangup \/ WriterClose
  \/ \E k \in Requests : ClientRequest(k)
  \/ ClientLeaves
  \/ ServerStep

\* The threads are scheduled and time-outs expire; nobody has to exit or to hang up,
\* and the client owes nothing.
Fairness ==
  /\ \A t \in Thread : WF_vars(CloseStep(t))
  /\ WF_vars(ServerStep) /\ WF_vars(EndOfProcess)

Spec == Init /\ [][Next]_vars /\ Fairness

-----------------------------------------------------------------------------
CloseLabel == {"pTest", "pMark", "pTake", "pExited", "pTerminated", "pAnswer", "pStop",
               "pDown", "sTest", "sLock", "sDone"}
Label == CloseLabel \cup
         {"run", "exiting", "join", "over", "done", "read", "handle", "refuse",
          "unknown", "pydevd", "packet", "reply", "dTest", "dKill", "ended"}

\* The lock is held by a thread inside PydevdSocket.close, or one that a signal has just
\* torn out of it, and by nobody else.
LockHeld ==
  lock # None => \/ pc[lock] \in {"sDone", "over"}
                 \/ \E i \in DOMAIN stack[lock] : stack[lock][i] \in {"sDone", "over"}

TypeOK ==
  /\ pc \in [Thread -> Label]
  /\ \A t \in Thread : stack[t] \in Seq(Label) /\ Len(stack[t]) <= 5
  /\ holds \subseteq Thread /\ lock \in Thread \cup {None}
  /\ {closed, hasPydevd, pending, closing, sockClosed, pipe, hasProc, exit, kill,
      waited, raced, overtaken} \subseteq BOOLEAN
  /\ reason \in {None, "launch", "attach"}
  /\ conn \in {"open", "eof", "cut", "reset", "closed"}
  /\ inbox \in Seq(Requests) /\ msg \in Requests \cup {None} /\ sent \subseteq Requests
  /\ process \in {"running", "exited", "killed"}
  /\ answers \in [Kind -> 0..2]
  /\ told \subseteq {"exited", "terminated"} /\ disorder \in BOOLEAN
  /\ stored \in {"no", "inTime", "late"}
  /\ LockHeld

\* However many threads close, the client is told once that the debuggee has exited and
\* then once that the session is over, unless two of them got past the unlocked test of
\* _closed at the same time.
AnnouncedOnce ==
  ~raced => ~disorder

\* The client's disconnect: one that came before the wait of close was over is answered
\* before the connection is closed, races or not; and when it ends the process, the
\* session has been closed in full before, unless another thread began to close between
\* the handler's look at _closed and its own close.
DisconnectHonoured ==
  /\ conn = "closed" /\ stored = "inTime" => answers["disconnect"] > 0
  /\ process = "killed" /\ ~overtaken
       => /\ answers["disconnect"] > 0
          /\ told = {"exited", "terminated"}
          /\ conn = "closed"

\* No request is answered twice while the client is there, whichever threads answer it,
\* except a configurationDone that fails after its answer.
AnsweredOnce ==
  ~raced /\ conn \in {"open", "closed"} =>
    \A k \in Requests : answers[k] <= IF k = "config" THEN 2 ELSE 1

Closers == {t \in Thread : pc[t] \in CloseLabel}

\* Nobody waits for ever.  Every close comes to an end, by its end or an exception: neither
\* the lock nor the calls of the two close methods to each other keep a thread; and the
\* server thread finishes every request it has read, whatever lock it needs for it.
CloseEnds ==
  /\ (Closers # {}) ~> (Closers = {} \/ process # "running")
  /\ (pc["server"] = "handle") ~> (pc["server"] \in {"read", "ended"} \/ process # "running")

\* Once a close has run to the exit flag the server thread ends, whatever state the
\* client left the connection in.
ServerEnds == exit ~> (pc["server"] = "ended" \/ process # "running")
=============================================================================
