--------------------------- MODULE WindowsGamepad ---------------------------
(***************************************************************************)
(* A gamepad of the Windows backend (class WindowsGamepad of               *)
(* windows_backend.cpp).  The client's calls do not overlap (device mutex  *)
(* of runtime.cpp).  Beside them run the thread that streams the report of *)
(* a Switch controller, and the one that reads what the host sends to an   *)
(* Xbox 360 controller; the output of the others is in WindowsOutput.      *)
(* Reports are numbers, 0 is none; what the host sends is numbered in its  *)
(* order.                                                                  *)
(***************************************************************************)
EXTENDS Integers, Sequences

CONSTANTS
  Pads,          \* profiles
  Reports,       \* reports the client submits
  MaxOutputs     \* bound: events of the host

PadAssumption ==
  /\ Pads \subseteq {"switch_pro", "xbox_360", "xbox_one", "generic"}
  /\ Reports \subseteq Nat \ {0} /\ MaxOutputs \in Nat

VARIABLES
  pad,           \* the profile
  call,          \* where the client's call is
  exists,        \* the driver or the broker has the device
  leaked,        \* history: it was asked to destroy it and did not
  open,          \* open
  streamed,          \* switch_pro_input_report
  lastReport,    \* last_input_report_
  arrived,       \* the last report the driver took
  accepted,      \* history: the last report whose submit succeeded
  streamer, copy,    \* switch_pro_report_thread_ and its report
  listener, event,   \* xbox360_output_thread_ and the event it read
  streamStop, listenStop,   \* the stop tokens of the two
  stopEvent,     \* xbox360_output_stop_event_ is signaled
  handler,       \* output_callback
  pipe, written, \* events of the host on their way, and how many there were
  noticed,       \* the last event of a callback
  dropped        \* history: an event found no callback

streamVars == <<streamer, copy, streamStop, streamed>>
listenVars == <<listener, event, listenStop, stopEvent, handler, noticed, dropped>>
hostVars == <<pipe, written>>
reportVars == <<lastReport, arrived, accepted>>
deviceVars == <<exists, leaked, open>>
vars == <<pad, call, deviceVars, reportVars, streamVars, listenVars, hostVars>>

TypeOK ==
  /\ call \in {"idle", "made", "failed", "ready", "streaming", "silencing", "asking", "joining",
               "destroying", "closed"}
  /\ {streamed, lastReport, arrived, accepted, copy} \subseteq Reports \cup {0}
  /\ streamer \in {"none", "waiting", "copying", "sending", "ended"}
  /\ listener \in {"none", "checking", "reading", "pausing", "holding", "calling", "ended"}
  /\ {event, noticed, written} \subseteq 0..MaxOutputs

Init ==
  /\ pad \in Pads /\ call = "idle" /\ exists = FALSE /\ leaked = FALSE /\ open = FALSE
  /\ streamed = 0 /\ lastReport = 0 /\ arrived = 0 /\ accepted = 0
  /\ streamer = "none" /\ copy = 0 /\ streamStop = FALSE
  /\ listener = "none" /\ event = 0 /\ listenStop = FALSE /\ stopEvent = FALSE
  /\ handler = FALSE /\ noticed = 0 /\ dropped = FALSE
  /\ pipe = <<>> /\ written = 0

-----------------------------------------------------------------------------
(* WindowsBackendContext::create_gamepad()                                 *)

CreateDevice ==
  /\ call = "idle"
  /\ \/ call' = "made" /\ exists' = TRUE
     \/ call' = "failed" /\ UNCHANGED exists
  /\ UNCHANGED <<pad, leaked, open, reportVars, streamVars, listenVars, hostVars>>

\* destroy_device(), whose result is the result of close().
DestroyDevice ==
  \/ exists' = FALSE /\ UNCHANGED leaked
  \/ leaked' = TRUE /\ UNCHANGED exists

\* take_transport_handle() gives nothing.
NoTransport ==
  /\ call = "made" /\ pad = "xbox_360" /\ call' = "failed"
  /\ DestroyDevice
  /\ UNCHANGED <<pad, open, reportVars, streamVars, listenVars, hostVars>>

\* WindowsGamepad::WindowsGamepad(); without an event there is no listener.
StartThreads ==
  /\ call = "made" /\ call' = "ready" /\ open' = TRUE
  /\ streamer' = IF pad = "switch_pro" THEN "waiting" ELSE "none"
  /\ listener' \in IF pad = "xbox_360" THEN {"none", "checking"} ELSE {"none"}
  /\ UNCHANGED <<pad, exists, leaked, reportVars, copy, streamStop, streamed, event, listenStop,
                 stopEvent, handler, noticed, dropped, hostVars>>

SetOutputCallback ==
  /\ call = "ready" /\ ~handler /\ handler' = TRUE
  /\ UNCHANGED <<pad, call, deviceVars, reportVars, streamVars, listener, event, listenStop,
                 stopEvent, noticed, dropped, hostVars>>

-----------------------------------------------------------------------------
(* submit()                                                                *)

\* A Switch report waits for the stream.
SubmitStreamed(report) ==
  /\ call = "ready" /\ pad = "switch_pro"
  /\ streamed' = report /\ accepted' = report
  /\ UNCHANGED <<pad, call, deviceVars, lastReport, arrived, streamer, copy, streamStop,
                 listenVars, hostVars>>

\* A report of an Xbox One pad that equals the last one is not sent again.
SubmitChanged(report) ==
  /\ call = "ready" /\ pad = "xbox_one"
  /\ \/ /\ lastReport = report /\ accepted' = report
        /\ UNCHANGED <<lastReport, arrived>>
     \/ /\ lastReport # report
        /\ lastReport' = report /\ arrived' = report /\ accepted' = report
     \/ /\ lastReport # report
        /\ UNCHANGED reportVars
  /\ UNCHANGED <<pad, call, deviceVars, streamVars, listenVars, hostVars>>

\* submit_device_report() and submit_xbox360_input(), which may fail.
SubmitDirect(report) ==
  /\ call = "ready" /\ pad \in {"generic", "xbox_360"}
  /\ \/ arrived' = report /\ accepted' = report /\ UNCHANGED lastReport
     \/ UNCHANGED reportVars
  /\ UNCHANGED <<pad, call, deviceVars, streamVars, listenVars, hostVars>>

-----------------------------------------------------------------------------
(* stream_switch_pro_reports()                                             *)

\* 15 ms are over, or the stop has been signaled.
StreamWakes ==
  /\ streamer = "waiting"
  /\ streamer' = IF streamStop THEN "ended" ELSE "copying"
  /\ UNCHANGED <<pad, call, deviceVars, reportVars, copy, streamStop, streamed, listenVars, hostVars>>

CopyReport ==
  /\ streamer = "copying"
  /\ copy' = IF open THEN streamed ELSE copy
  /\ streamer' = IF ~open THEN "ended" ELSE IF streamed = 0 THEN "waiting" ELSE "sending"
  /\ UNCHANGED <<pad, call, deviceVars, reportVars, streamStop, streamed, listenVars, hostVars>>

\* A report that fails is not missed, the next one has it.
SendCopy(ok) ==
  /\ streamer = "sending" /\ streamer' = "waiting"
  /\ arrived' = IF ok THEN copy ELSE arrived
  /\ UNCHANGED <<pad, call, deviceVars, lastReport, accepted, copy, streamStop, streamed, listenVars, hostVars>>

-----------------------------------------------------------------------------
(* stream_xbox360_output()                                                 *)

HostWrites ==
  /\ exists /\ pad = "xbox_360" /\ written < MaxOutputs
  /\ written' = written + 1 /\ pipe' = Append(pipe, written')
  /\ UNCHANGED <<pad, call, deviceVars, reportVars, streamVars, listenVars>>

Listening(from, to) == listener = from /\ listener' = to

CheckStop ==
  /\ listener = "checking"
  /\ listener' = IF listenStop THEN "ended" ELSE "reading"
  /\ UNCHANGED <<pad, call, deviceVars, reportVars, streamVars, event, listenStop, stopEvent,
                 handler, noticed, dropped, hostVars>>

\* read_xbox360_output()
ReadOutput ==
  /\ Listening("reading", "holding") /\ pipe # <<>>
  /\ event' = Head(pipe) /\ pipe' = Tail(pipe)
  /\ UNCHANGED <<pad, call, deviceVars, reportVars, streamVars, listenStop, stopEvent, handler,
                 noticed, dropped, written>>

\* It waits for the stop event too, and it may fail.
ReadNothing ==
  /\ Listening("reading", "pausing")
  /\ UNCHANGED <<pad, call, deviceVars, reportVars, streamVars, event, listenStop, stopEvent,
                 handler, noticed, dropped, hostVars>>

\* At most 10 ms.
PauseEnds ==
  /\ listener = "pausing"
  /\ listener' = IF listenStop \/ stopEvent THEN "ended" ELSE "checking"
  /\ UNCHANGED <<pad, call, deviceVars, reportVars, streamVars, event, listenStop, stopEvent,
                 handler, noticed, dropped, hostVars>>

DispatchOutput ==
  /\ listener = "holding"
  /\ listener' = IF open /\ handler THEN "calling" ELSE "checking"
  /\ dropped' = (dropped \/ ~handler)
  /\ UNCHANGED <<pad, call, deviceVars, reportVars, streamVars, event, listenStop, stopEvent,
                 handler, noticed, hostVars>>

\* The callback returns.
CallBack ==
  /\ Listening("calling", "checking")
  /\ noticed' = event
  /\ UNCHANGED <<pad, call, deviceVars, reportVars, streamVars, event, listenStop, stopEvent,
                 handler, dropped, hostVars>>

-----------------------------------------------------------------------------
(* close()                                                                 *)

Calling(from, to) == call = from /\ call' = to

\* stop_switch_pro_report_stream()
Close ==
  /\ Calling("ready", "streaming") /\ streamStop' = TRUE
  /\ UNCHANGED <<pad, deviceVars, reportVars, streamer, copy, streamed, listenVars, hostVars>>

JoinStreamer ==
  /\ Calling("streaming", "silencing") /\ streamer \in {"none", "ended"}
  /\ UNCHANGED <<pad, deviceVars, reportVars, streamVars, listenVars, hostVars>>

\* stop_xbox360_output_stream()
SetStopEvent ==
  /\ Calling("silencing", "asking") /\ stopEvent' = TRUE
  /\ UNCHANGED <<pad, deviceVars, reportVars, streamVars, listener, event, listenStop, handler,
                 noticed, dropped, hostVars>>

RequestStop ==
  /\ Calling("asking", "joining") /\ listenStop' = TRUE
  /\ UNCHANGED <<pad, deviceVars, reportVars, streamVars, listener, event, stopEvent, handler,
                 noticed, dropped, hostVars>>

JoinListener ==
  /\ Calling("joining", "destroying") /\ listener \in {"none", "ended"}
  /\ UNCHANGED <<pad, deviceVars, reportVars, streamVars, listenVars, hostVars>>

\* WindowsBackendContext::close_device()
CloseDevice ==
  /\ Calling("destroying", "closed") /\ open' = FALSE
  /\ DestroyDevice
  /\ UNCHANGED <<pad, reportVars, streamVars, listenVars, hostVars>>

-----------------------------------------------------------------------------
StreamerSteps == StreamWakes \/ CopyReport \/ \E ok \in BOOLEAN : SendCopy(ok)
ListenerWorks == CheckStop \/ PauseEnds \/ DispatchOutput \/ CallBack
Reading == ReadOutput \/ (stopEvent /\ ReadNothing)
CloseGoesOn == JoinStreamer \/ SetStopEvent \/ RequestStop \/ JoinListener \/ CloseDevice

Done == call \in {"closed", "failed"} /\ UNCHANGED vars

Next ==
  \/ CreateDevice \/ NoTransport \/ StartThreads \/ SetOutputCallback
  \/ \E r \in Reports : SubmitStreamed(r) \/ SubmitChanged(r) \/ SubmitDirect(r)
  \/ StreamerSteps \/ HostWrites \/ ListenerWorks \/ ReadOutput \/ ReadNothing
  \/ Close \/ CloseGoesOn \/ Done

\* The threads run, close() goes on, the callback returns; a driver that is there takes
\* a report of the stream now and then.
Fairness ==
  /\ WF_vars(StreamerSteps) /\ SF_vars(SendCopy(TRUE))
  /\ WF_vars(ListenerWorks) /\ WF_vars(Reading) /\ WF_vars(CloseGoesOn)
Spec == Init /\ [][Next]_vars /\ Fairness

-----------------------------------------------------------------------------
\* Whatever submits failed and whatever report was held back as unchanged, the driver
\* has the last report that was accepted; a Switch pad gets it from the stream.
DriverHasAccepted ==
  call # "idle" /\ pad # "switch_pro" => arrived = accepted

\* A creation that fails and a closed gamepad leave no thread, and no device unless
\* the broker failed to destroy it.
NothingLeft ==
  call \in {"failed", "closed"} =>
    /\ streamer \in {"none", "ended"} /\ listener \in {"none", "ended"}
    /\ exists => leaked

\* Once a callback was set, no event of the host is lost or overtaken.
OutputNoticed ==
  /\ listener \in {"checking", "reading"} /\ pipe = <<>> /\ ~dropped => noticed = written
  /\ noticed <= event

\* close() returns though a stop can come at any moment, and a Switch report that is
\* accepted arrives unless another one or close() comes.
PadLive ==
  /\ (call = "streaming") ~> (call = "closed")
  /\ \A r \in Reports :
       (streamed = r /\ call = "ready") ~> (arrived = r \/ streamed # r \/ call # "ready")
=============================================================================
