---------------------------- MODULE MacosGamepad ----------------------------
(***************************************************************************)
(* A gamepad of the macOS backend: the portable handle's mutex             *)
(* (core/runtime.cpp), the client end MacosGamepad with its reader and     *)
(* callback threads (macos_broker_client.cpp), the socket, and the         *)
(* broker's session that owns the HID device                               *)
(* (libvirtualhid_macos_broker.cpp).                                       *)
(*                                                                         *)
(* The behaviour starts when the broker has activated the HID device and   *)
(* has still to answer the create request.  The host system, which takes   *)
(* input reports and writes output reports, is the environment, and so is  *)
(* the licence, which may be withdrawn at any time.  call_mutex_ is left   *)
(* out: the device mutex is held around every call that takes it.          *)
(***************************************************************************)
EXTENDS Naturals, Sequences

CONSTANTS
  Clients,        \* application threads that use the handle
  Worker,         \* the thread that runs the output callback
  None,           \* no thread
  NumReports,     \* reports of one submit: 2 for Xbox One and Series, else 1
  QueueLimit,     \* outputs the client keeps for the callback (64)
  CallbackCloses, \* whether the output callback closes the gamepad
  MaxCalls,       \* bound: MaxCalls[t] calls of thread t
  MaxOutputs      \* bound: outputs the host writes

ASSUME MacosAssumption ==
  /\ Worker \notin Clients
  /\ None \notin Clients \cup {Worker}
  /\ NumReports \in Nat \ {0}
  /\ QueueLimit \in Nat \ {0}
  /\ CallbackCloses \in BOOLEAN
  /\ MaxCalls \in [Clients \cup {Worker} -> Nat] /\ MaxOutputs \in Nat

Threads == Clients \cup {Worker}

VARIABLES
  lock,          \* holder of the device mutex
  open,          \* GamepadDevice::open
  counted,       \* reports of the submits the handle counts as successful
  pc,            \* pc[t]: where thread t is
  left,          \* left[t]: reports t's submit has still to send
  calls,         \* calls[t]: calls t has made
  created,       \* "no", "constructing", "yes" or "failed": the client's gamepad
  fd,            \* the client's socket: "open", "shut" or "closed"
  answer,        \* response_ and response_ready_
  disconnected,  \* disconnected_
  reader,        \* the reader thread: "none", "reading" or "ended"
  reports, stop, callback,  \* CallbackState
  detached,      \* the callback thread is detached
  heard,         \* outputs the callback was called with
  upstream, downstream,     \* messages in the socket, to and from the broker
  session,       \* the broker's: "activated", "serving", "ending" or "gone"
  sent,          \* reports the client has sent
  accepted,      \* reports the HID device took
  written        \* outputs the host has written

handleVars == <<lock, open, counted>>
threadVars == <<pc, left, calls>>
clientVars == <<created, fd, answer, disconnected, reader>>
callbackVars == <<reports, stop, callback, detached, heard>>
brokerVars == <<session, accepted, written>>
vars == <<handleVars, threadVars, clientVars, callbackVars, upstream,
          downstream, brokerVars, sent>>

Submit(n) == [type |-> "submit", report |-> n]
Response(n, ok) == [type |-> "response", report |-> n, ok |-> ok]
Output(n) == [type |-> "output", output |-> n]
CloseMessage == [type |-> "close"]
Unanswered == [ready |-> FALSE, report |-> 0, ok |-> FALSE]

ReportIds == Nat \ {0}
Labels == {"idle", "want_submit", "send", "await", "want_close", "shut",
           "join_reader", "join_worker", "wait", "calling", "done", "dead"}

TypeOK ==
  /\ lock \in Threads \cup {None}
  /\ open \in BOOLEAN
  /\ counted \subseteq ReportIds /\ accepted \subseteq ReportIds
  /\ pc \in [Threads -> Labels]
  /\ left \in [Threads -> 0..NumReports]
  /\ \A t \in Threads : calls[t] \in 0..MaxCalls[t]
  /\ created \in {"no", "constructing", "yes", "failed"}
  /\ fd \in {"open", "shut", "closed"}
  /\ answer \in [ready : BOOLEAN, report : {0} \cup ReportIds, ok : BOOLEAN]
  /\ reader \in {"none", "reading", "ended"}
  /\ reports \in Seq(1..MaxOutputs) /\ Len(reports) <= QueueLimit
  /\ heard \in Seq(1..MaxOutputs)
  /\ {disconnected, stop, callback, detached} \subseteq BOOLEAN
  /\ session \in {"activated", "serving", "ending", "gone"}
  /\ sent \in {0} \cup ReportIds
  /\ written \in 0..MaxOutputs

Init ==
  /\ lock = None /\ open = TRUE /\ counted = {}
  /\ pc = [t \in Threads |-> IF t = Worker THEN "wait" ELSE "idle"]
  /\ left = [t \in Threads |-> 0]
  /\ calls = [t \in Threads |-> 0]
  /\ created = "no" /\ fd = "open"
  /\ answer = Unanswered /\ disconnected = FALSE
  /\ reader = "none"
  /\ reports = <<>> /\ stop = FALSE /\ callback = FALSE
  /\ detached = FALSE /\ heard = <<>>
  /\ upstream = <<>> /\ downstream = <<>>
  /\ session = "activated" /\ accepted = {} /\ written = 0
  /\ sent = 0

-----------------------------------------------------------------------------
(* create_macos_brokered_gamepad takes the first message as the answer to  *)
(* its request; anything else, an output the host wrote early included,    *)
(* fails the creation.                                                     *)

Create ==
  /\ created = "no"
  /\ downstream # <<>>
  /\ downstream' = Tail(downstream)
  /\ IF Head(downstream).type = "response"
       THEN /\ created' = "constructing"
            /\ reader' = "reading"
            /\ UNCHANGED fd
       ELSE /\ created' = "failed"
            /\ fd' = "closed"
            /\ UNCHANGED reader
  /\ UNCHANGED <<handleVars, threadVars, answer, disconnected, callbackVars,
                 upstream, brokerVars, sent>>

CreateDisconnected ==
  /\ created = "no"
  /\ session = "gone" /\ downstream = <<>>
  /\ created' = "failed"
  /\ fd' = "closed"
  /\ UNCHANGED <<handleVars, threadVars, answer, disconnected, reader,
                 callbackVars, upstream, downstream, brokerVars, sent>>

\* The reader thread starts before the members declared after it are
\* initialised: what it stored in them by now is overwritten.
Construct ==
  /\ created = "constructing"
  /\ created' = "yes"
  /\ answer' = Unanswered
  /\ disconnected' = FALSE
  /\ UNCHANGED <<handleVars, threadVars, fd, reader, callbackVars, upstream,
                 downstream, brokerVars, sent>>

-----------------------------------------------------------------------------
(* Calls through the handle.  The callback thread makes them from inside   *)
(* the callback; every other thread is idle between calls.                 *)

Home(t) == IF t = Worker THEN "calling" ELSE "idle"

Call(t, label) ==
  /\ created = "yes"
  /\ pc[t] = Home(t)
  /\ calls[t] < MaxCalls[t]
  /\ calls' = [calls EXCEPT ![t] = @ + 1]
  /\ pc' = [pc EXCEPT ![t] = label]
  /\ UNCHANGED <<handleVars, left, clientVars, callbackVars, upstream,
                 downstream, brokerVars, sent>>

CallSubmit(t) == t # Worker /\ Call(t, "want_submit")

CallClose(t) == (t = Worker => CallbackCloses) /\ Call(t, "want_close")

SetOutputCallback(t, c) ==
  /\ created = "yes" /\ t # Worker
  /\ pc[t] = "idle" /\ calls[t] < MaxCalls[t]
  /\ lock = None
  /\ calls' = [calls EXCEPT ![t] = @ + 1]
  /\ callback' = c
  /\ UNCHANGED <<handleVars, pc, left, clientVars, reports, stop, detached,
                 heard, upstream, downstream, brokerVars, sent>>

Goto(t, label) == pc' = [pc EXCEPT ![t] = label]

\* A call through a handle that is closed already.
EnterClosed(t) ==
  /\ pc[t] \in {"want_submit", "want_close"}
  /\ lock = None
  /\ ~open
  /\ Goto(t, Home(t))
  /\ UNCHANGED <<handleVars, left, calls, clientVars, callbackVars, upstream,
                 downstream, brokerVars, sent>>

EnterSubmit(t) ==
  /\ pc[t] = "want_submit"
  /\ lock = None /\ open
  /\ lock' = t
  /\ left' = [left EXCEPT ![t] = NumReports]
  /\ Goto(t, "send")
  /\ UNCHANGED <<open, counted, calls, clientVars, callbackVars, upstream,
                 downstream, brokerVars, sent>>

\* The end of a submit: the handle's state changes only if it succeeded.
FinishSubmit(t, ok) ==
  /\ lock' = None
  /\ counted' = IF ok THEN counted \cup ((sent - NumReports + 1)..sent) ELSE counted
  /\ Goto(t, "idle")
  /\ UNCHANGED open

\* MacosGamepad::call up to its wait.
SendReport(t) ==
  /\ pc[t] = "send"
  /\ fd = "open" /\ session # "gone"
  /\ answer' = Unanswered
  /\ sent' = sent + 1
  /\ upstream' = Append(upstream, Submit(sent + 1))
  /\ Goto(t, "await")
  /\ UNCHANGED <<handleVars, left, calls, created, fd, disconnected, reader,
                 callbackVars, downstream, brokerVars>>

SendFails(t) ==
  /\ pc[t] = "send"
  /\ fd # "open" \/ session = "gone"
  /\ answer' = Unanswered
  /\ FinishSubmit(t, FALSE)
  /\ UNCHANGED <<left, calls, created, fd, disconnected, reader, callbackVars,
                 upstream, downstream, brokerVars, sent>>

Answered(t) ==
  /\ pc[t] = "await"
  /\ answer.ready
  /\ IF answer.ok /\ left[t] > 1
       THEN Goto(t, "send") /\ UNCHANGED handleVars
       ELSE FinishSubmit(t, answer.ok)
  /\ left' = [left EXCEPT ![t] = @ - 1]
  /\ UNCHANGED <<calls, clientVars, callbackVars, upstream, downstream,
                 brokerVars, sent>>

AnswerLost(t) ==
  /\ pc[t] = "await"
  /\ ~answer.ready /\ disconnected
  /\ FinishSubmit(t, FALSE)
  /\ UNCHANGED <<left, calls, clientVars, callbackVars, upstream, downstream,
                 brokerVars, sent>>

\* Faulty variant: a call waits without a time limit.
WaitsForever(t) == FALSE /\ UNCHANGED vars

\* Faulty variant: the socket stays in use after a timeout.
TimesOutOpen(t) ==
  /\ pc[t] = "await"
  /\ ~answer.ready /\ ~disconnected
  /\ FinishSubmit(t, FALSE)
  /\ UNCHANGED <<left, calls, clientVars, callbackVars, upstream, downstream,
                 brokerVars, sent>>

\* After ten seconds.  The socket is shut so that no later call can take the
\* answer that may still come.
TimesOut(t) ==
  /\ pc[t] = "await"
  /\ ~answer.ready /\ ~disconnected
  /\ fd' = "shut"
  /\ FinishSubmit(t, FALSE)
  /\ UNCHANGED <<left, calls, created, answer, disconnected, reader,
                 callbackVars, upstream, downstream, brokerVars, sent>>

-----------------------------------------------------------------------------
(* MacosGamepad::close, called by Gamepad::close with the mutex held.      *)

EnterClose(t) ==
  /\ pc[t] = "want_close"
  /\ lock = None /\ open
  /\ lock' = t
  /\ Goto(t, "shut")
  /\ UNCHANGED <<open, counted, left, calls, clientVars, callbackVars,
                 upstream, downstream, brokerVars, sent>>

CloseSocket(t) ==
  /\ pc[t] = "shut"
  /\ upstream' = IF fd = "open" /\ session # "gone"
                   THEN Append(upstream, CloseMessage) ELSE upstream
  /\ fd' = "closed"
  /\ Goto(t, "join_reader")
  /\ UNCHANGED <<handleVars, left, calls, created, answer, disconnected,
                 reader, callbackVars, downstream, brokerVars, sent>>

JoinReader(t) ==
  /\ pc[t] = "join_reader"
  /\ reader = "ended"
  /\ stop' = TRUE
  /\ Goto(t, "join_worker")
  /\ UNCHANGED <<handleVars, left, calls, clientVars, reports, callback,
                 detached, heard, upstream, downstream, brokerVars, sent>>

\* Faulty variant: nobody waits for the callback thread.
FinishCloseUnjoined(t) ==
  /\ pc[t] = "join_worker"
  /\ detached' = (t = Worker)
  /\ open' = FALSE
  /\ lock' = None
  /\ Goto(t, Home(t))
  /\ UNCHANGED <<counted, left, calls, clientVars, reports, stop, callback,
                 heard, upstream, downstream, brokerVars, sent>>

\* Another thread waits for the callback thread; the callback thread, closing
\* its own gamepad, detaches itself instead.
FinishClose(t) ==
  /\ pc[t] = "join_worker"
  /\ t = Worker \/ pc[Worker] = "done"
  /\ detached' = (t = Worker)
  /\ open' = FALSE
  /\ lock' = None
  /\ Goto(t, Home(t))
  /\ UNCHANGED <<counted, left, calls, clientVars, reports, stop, callback,
                 heard, upstream, downstream, brokerVars, sent>>

-----------------------------------------------------------------------------
(* read_loop and callback_loop.                                            *)

\* Faulty variant: the queue has no limit.
ReaderTakesAll ==
  /\ reader = "reading"
  /\ downstream # <<>>
  /\ downstream' = Tail(downstream)
  /\ LET m == Head(downstream) IN
       IF m.type = "response"
         THEN /\ answer' = [ready |-> TRUE, report |-> m.report, ok |-> m.ok]
              /\ UNCHANGED reports
         ELSE /\ reports' = Append(reports, m.output)
              /\ UNCHANGED answer
  /\ UNCHANGED <<handleVars, threadVars, created, fd, disconnected, reader,
                 stop, callback, detached, heard, upstream, brokerVars, sent>>

\* What arrived before the client shut its socket may be stored after that.
ReaderTakes ==
  /\ reader = "reading"
  /\ downstream # <<>>
  /\ downstream' = Tail(downstream)
  /\ LET m == Head(downstream) IN
       IF m.type = "response"
         THEN /\ answer' = [ready |-> TRUE, report |-> m.report, ok |-> m.ok]
              /\ UNCHANGED reports
         ELSE /\ reports' = IF Len(reports) < QueueLimit
                              THEN Append(reports, m.output) ELSE reports
              /\ UNCHANGED answer
  /\ UNCHANGED <<handleVars, threadVars, created, fd, disconnected, reader,
                 stop, callback, detached, heard, upstream, brokerVars, sent>>

\* The end of the stream: the broker's, after what it has sent, or our own.
ReaderEnds ==
  /\ reader = "reading"
  /\ fd # "open" \/ (session = "gone" /\ downstream = <<>>)
  /\ reader' = "ended"
  /\ disconnected' = TRUE
  /\ stop' = TRUE
  /\ UNCHANGED <<handleVars, threadVars, created, fd, answer, reports,
                 callback, detached, heard, upstream, downstream, brokerVars,
                 sent>>

WorkerTakes ==
  /\ pc[Worker] = "wait"
  /\ reports # <<>>
  /\ reports' = Tail(reports)
  /\ IF callback
       THEN Goto(Worker, "calling") /\ heard' = Append(heard, Head(reports))
       ELSE UNCHANGED <<pc, heard>>
  /\ UNCHANGED <<handleVars, left, calls, clientVars, stop, callback,
                 detached, upstream, downstream, brokerVars, sent>>

CallbackReturns ==
  /\ pc[Worker] = "calling"
  /\ Goto(Worker, "wait")
  /\ UNCHANGED <<handleVars, left, calls, clientVars, callbackVars, upstream,
                 downstream, brokerVars, sent>>

WorkerEnds ==
  /\ pc[Worker] = "wait"
  /\ stop /\ reports = <<>>
  /\ Goto(Worker, "done")
  /\ UNCHANGED <<handleVars, left, calls, clientVars, callbackVars, upstream,
                 downstream, brokerVars, sent>>

\* The application's process dies: the system closes its socket.
ProcessDies ==
  /\ created # "failed"
  /\ pc' = [t \in Threads |-> "dead"]
  /\ created' = "failed"
  /\ fd' = "closed"
  /\ reader' = "ended"
  /\ UNCHANGED <<handleVars, left, calls, answer, disconnected, callbackVars,
                 upstream, downstream, brokerVars, sent>>

-----------------------------------------------------------------------------
(* serve_client and receive_reports.                                       *)

\* DeviceSession::send to a client that may have gone.
Deliver(m) == downstream' = IF fd = "open" THEN Append(downstream, m) ELSE downstream

AnswerCreate ==
  /\ session = "activated"
  /\ Deliver(Response(0, TRUE))
  /\ session' = "serving"
  /\ UNCHANGED <<handleVars, threadVars, clientVars, callbackVars, upstream,
                 accepted, written, sent>>

\* The host writes an output report, on a thread of its own, as soon as the
\* HID device is active.  A failed send shuts the session's socket.
HostWrites ==
  /\ session \in {"activated", "serving"}
  /\ written < MaxOutputs
  /\ written' = written + 1
  /\ Deliver(Output(written + 1))
  /\ UNCHANGED <<handleVars, threadVars, clientVars, callbackVars, upstream,
                 session, accepted, sent>>

ReceiveSubmit(ok) ==
  /\ session = "serving"
  /\ upstream # <<>> /\ Head(upstream).type = "submit"
  /\ upstream' = Tail(upstream)
  /\ LET n == Head(upstream).report IN
       /\ accepted' = IF ok THEN accepted \cup {n} ELSE accepted
       /\ Deliver(Response(n, ok))
  /\ session' = IF fd = "open" THEN "serving" ELSE "ending"
  /\ UNCHANGED <<handleVars, threadVars, clientVars, callbackVars, written, sent>>

\* Faulty variant: only a close message ends the session.
ReceiveCloseOnly ==
  /\ session = "serving"
  /\ upstream # <<>> /\ Head(upstream).type = "close"
  /\ session' = "ending"
  /\ UNCHANGED <<handleVars, threadVars, clientVars, callbackVars, upstream,
                 downstream, accepted, written, sent>>

\* poll() reports that the client hung up, or the message is its close.
ReceiveEnd ==
  /\ session = "serving"
  /\ \/ fd # "open"
     \/ upstream # <<>> /\ Head(upstream).type = "close"
  /\ session' = "ending"
  /\ UNCHANGED <<handleVars, threadVars, clientVars, callbackVars, upstream,
                 downstream, accepted, written, sent>>

\* device_is_authorized() answers no: the licence was withdrawn.
Revoke ==
  /\ session = "serving"
  /\ session' = "ending"
  /\ UNCHANGED <<handleVars, threadVars, clientVars, callbackVars, upstream,
                 downstream, accepted, written, sent>>

\* The HID device is cancelled and removed, then the socket closed.
EndSession ==
  /\ session = "ending"
  /\ session' = "gone"
  /\ UNCHANGED <<handleVars, threadVars, clientVars, callbackVars, upstream,
                 downstream, accepted, written, sent>>

\* The broker's process dies and takes its HID devices with it.
BrokerDies ==
  /\ session \in {"activated", "serving"}
  /\ session' = "gone"
  /\ UNCHANGED <<handleVars, threadVars, clientVars, callbackVars, upstream,
                 downstream, accepted, written, sent>>

-----------------------------------------------------------------------------
Application(t) ==
  \/ CallSubmit(t) \/ CallClose(t)
  \/ \E c \in BOOLEAN : SetOutputCallback(t, c)

Inside(t) ==
  \/ EnterClosed(t) \/ EnterSubmit(t) \/ SendReport(t) \/ SendFails(t)
  \/ Answered(t) \/ AnswerLost(t) \/ TimesOut(t)
  \/ EnterClose(t) \/ CloseSocket(t) \/ JoinReader(t) \/ FinishClose(t)

Creation == Create \/ CreateDisconnected \/ Construct
Reader == ReaderTakes \/ ReaderEnds
CallbackThread == WorkerTakes \/ CallbackReturns \/ WorkerEnds
Serving == ReceiveEnd \/ EndSession
Broker == AnswerCreate \/ (\E ok \in BOOLEAN : ReceiveSubmit(ok)) \/ Revoke
          \/ BrokerDies \/ Serving

Next ==
  \/ Creation \/ Reader \/ CallbackThread \/ ProcessDies \/ Broker \/ HostWrites
  \/ \E t \in Threads : Application(t) \/ Inside(t)

Spec == Init /\ [][Next]_vars

\* Threads keep running and callbacks return; the broker notices the end of a
\* session, but may take longer than a call waits to answer a report.
FairSpec ==
  /\ Spec
  /\ WF_vars(Creation) /\ WF_vars(Reader) /\ WF_vars(CallbackThread)
  /\ WF_vars(AnswerCreate) /\ WF_vars(Serving)
  /\ \A t \in Threads : WF_vars(Inside(t))

-----------------------------------------------------------------------------
(* Properties.                                                             *)

\* call() matches answers to calls by order alone: an answer a submit takes is
\* the answer to the report it sent, even after timeouts and late answers.
AnswerIsOwn ==
  \A t \in Clients : pc[t] = "await" /\ answer.ready => answer.report = sent

\* submit_count() is the number of successful submits: every report of a
\* counted submit was accepted by the HID device.
CountedWereAccepted == counted \subseteq accepted

\* The callback hears outputs in the order the host wrote them, each once.
OutputsInOrder ==
  \A i, j \in DOMAIN heard : i < j => heard[i] < heard[j]

\* Neither direction of the socket mixes up messages: a submit's result is that
\* of its own reports, and outputs are heard in order, each once.
MessagesMatch == AnswerIsOwn /\ CountedWereAccepted /\ OutputsInOrder

\* Once close() has returned, on another thread than the callback's, no thread
\* of the gamepad is left: no callback runs or will run.
ClosedIsQuiet ==
  ~open => reader = "ended" /\ (detached \/ pc[Worker] \in {"done", "dead"})

\* Every call returns, whatever the broker does or stops doing, as long as no
\* callback closes the gamepad: an answer, the end of the connection or the
\* timeout ends a submit, and close() finds the reader and callback threads
\* ended.
CallsReturn ==
  [](pc[Worker] # "want_close")
    => \A t \in Clients : pc[t] # "idle" ~> pc[t] \in {"idle", "dead"}

\* "A callback may close its own gamepad" (macos_broker_client.cpp, close()):
\* such a close() returns.
CallbackMayClose == pc[Worker] = "want_close" ~> pc[Worker] # "want_close"

\* The broker removes the HID device of a client that closed its gamepad, that
\* gave up on creating it, or that died.
DeviceIsRemoved == fd = "closed" ~> session = "gone"
=============================================================================
