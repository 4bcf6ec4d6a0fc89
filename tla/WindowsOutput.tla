--------------------------- MODULE WindowsOutput ---------------------------
(***************************************************************************)
(* Output reports on Windows: the UMDF driver's buffered events and        *)
(* pending reads (libvirtualhid_umdf.cpp), and the output thread of each   *)
(* client that reads them (WindowsBackendContext, windows_backend.cpp).    *)
(*                                                                         *)
(* A client has one control handle, WDFFILEOBJECT in the driver, and at    *)
(* most one read outstanding on it, so a read request goes by its client.  *)
(* What the source does not contain is modelled from how it is used: VHF,  *)
(* which calls back for one output report of a device at a time and whose  *)
(* VhfDelete waits for that call, and the framework, which refuses to      *)
(* unmark a request whose cancellation has begun and then calls the cancel *)
(* routine.  A create request keeps the handle it came through open.  What *)
(* the VHF callback does besides, for PID effects and Switch replies, has  *)
(* no part in this state.                                                  *)
(***************************************************************************)
EXTENDS Naturals, Sequences, SequencesExt

CONSTANTS
  Clients,     \* client processes, each with one control handle
  Devices,     \* devices of the driver
  Owner,       \* Owner[d]: the client through whose handle d was created
  MaxOutputs   \* bound: output reports the host writes, to all devices

ASSUME OutputAssumption ==
  /\ Owner \in [Devices -> Clients]
  /\ MaxOutputs \in Nat

VARIABLES
  device,      \* device[d]: from its VhfStart to its VhfDelete
  sent,        \* sent[d]: output reports the host has written to d
  vhf,         \* vhf[d]: where the VHF callback of d is
  holds,       \* holds[d]: the report that callback carries
  buffered,    \* buffered[c]: the events of buffered_output_events for c
  pending,     \* pending_output_requests
  read,        \* read[c]: the read request of c, as the framework sees it
  result,      \* result[c]: what the read of c was completed with
  cleanup,     \* cleanup[c]: LvhEvtFileCleanup() for c's handle
  hardware,    \* LvhEvtDeviceReleaseHardware(): "on" before it
  taken,       \* requests it took from pending and has still to complete
  reader,      \* reader[c]: c's output_loop()
  stop,        \* stop[c]: stop_event_ is set, and then the thread's token
  received     \* received[c]: the events c has dispatched

deviceVars == <<device, sent>>
callbackVars == <<vhf, holds>>
requestVars == <<pending, read, result>>
endVars == <<cleanup, hardware, taken>>
clientVars == <<reader, stop, received>>
vars == <<deviceVars, callbackVars, buffered, requestVars, endVars, clientVars>>

Event(d, n) == [device |-> d, n |-> n]
Events == [device : Devices, n : Nat]

\* A read that was cancelled, or failed, brings no event.
NoEvent == [device |-> "none"]

\* The handler has it, or had and has not completed it.
Marked == {"cancelable", "canceling", "canceled"}

TypeOK ==
  /\ device \in [Devices -> {"none", "starting", "live", "destroying",
                          "destroyed", "closing", "closed"}]
  /\ sent \in [Devices -> Nat]
  /\ vhf \in [Devices -> {"idle", "queue", "complete", "rebuffer"}]
  /\ holds \in [Devices -> Events \cup {NoEvent}]
  /\ buffered \in [Clients -> Seq(Events)]
  /\ read \in [Clients -> Marked \cup {"none", "sent", "sent_canceled", "done"}]
  /\ pending \subseteq {c \in Clients : read[c] \in {"cancelable", "canceling"}}
  /\ result \in [Clients -> Events \cup {NoEvent}]
  /\ cleanup \in [Clients -> {"no", "devices", "requests", "complete", "done"}]
  /\ hardware \in {"on", "requests", "devices", "off"}
  /\ taken \subseteq Clients
  /\ reader \in [Clients -> {"loop", "wait", "drain", "ended", "dead"}]
  /\ stop \in [Clients -> {"no", "event", "token"}]
  /\ received \in [Clients -> Seq(Events)]

Init ==
  /\ device = [d \in Devices |-> "none"]
  /\ sent = [d \in Devices |-> 0]
  /\ vhf = [d \in Devices |-> "idle"]
  /\ holds = [d \in Devices |-> NoEvent]
  /\ buffered = [c \in Clients |-> <<>>]
  /\ pending = {}
  /\ read = [c \in Clients |-> "none"]
  /\ result = [c \in Clients |-> NoEvent]
  /\ cleanup = [c \in Clients |-> "no"]
  /\ hardware = "on"
  /\ taken = {}
  /\ reader = [c \in Clients |-> "loop"]
  /\ stop = [c \in Clients |-> "no"]
  /\ received = [c \in Clients |-> <<>>]

Complete(c, event) ==
  /\ read' = [read EXCEPT ![c] = "done"]
  /\ result' = [result EXCEPT ![c] = event]

Buffer(event) ==
  buffered' = [buffered EXCEPT ![Owner[event.device]] = Append(@, event)]

-----------------------------------------------------------------------------
(* Devices.                                                                *)

HandleOpen(c) == reader[c] \notin {"ended", "dead"}

\* create_vhf_device(): VHF calls back before the record is in the map.
CreateDevice(d) ==
  /\ device[d] = "none"
  /\ HandleOpen(Owner[d]) /\ hardware = "on"
  /\ device' = [device EXCEPT ![d] = "starting"]
  /\ UNCHANGED <<sent, callbackVars, buffered, requestVars, endVars, clientVars>>

RegisterDevice(d) ==
  /\ device[d] = "starting"
  /\ device' = [device EXCEPT ![d] = "live"]
  /\ UNCHANGED <<sent, callbackVars, buffered, requestVars, endVars, clientVars>>

\* handle_destroy_device_request(): the record leaves the map.
DestroyDevice(d) ==
  /\ device[d] = "live" /\ hardware = "on"
  /\ device' = [device EXCEPT ![d] = "destroying"]
  /\ UNCHANGED <<sent, callbackVars, buffered, requestVars, endVars, clientVars>>

\* handle_reset_devices_request(): all records leave the map.
ResetDevices ==
  /\ hardware = "on" /\ \E d \in Devices : device[d] = "live"
  /\ device' = [d \in Devices |-> IF device[d] = "live" THEN "destroying" ELSE device[d]]
  /\ UNCHANGED <<sent, callbackVars, buffered, requestVars, endVars, clientVars>>

\* delete_vhf_device(): VhfDelete(TRUE) waits for the callbacks.
DeleteDevice(d) ==
  /\ device[d] \in {"destroying", "closing"}
  /\ vhf[d] = "idle"
  /\ device' = [device EXCEPT ![d] = IF @ = "closing" THEN "closed" ELSE "destroyed"]
  /\ UNCHANGED <<sent, callbackVars, buffered, requestVars, endVars, clientVars>>

-----------------------------------------------------------------------------
(* LvhEvtVhfWriteReport() and queue_output_event().                        *)

WriteReport(d) ==
  /\ device[d] \in {"starting", "live", "destroying", "closing"}
  /\ vhf[d] = "idle" /\ SumFunction(sent) < MaxOutputs
  /\ sent' = [sent EXCEPT ![d] = @ + 1]
  /\ holds' = [holds EXCEPT ![d] = Event(d, sent'[d])]
  /\ vhf' = [vhf EXCEPT ![d] = "queue"]
  /\ UNCHANGED <<device, buffered, requestVars, endVars, clientVars>>

CallbackReturns(d) ==
  /\ vhf' = [vhf EXCEPT ![d] = "idle"]
  /\ holds' = [holds EXCEPT ![d] = NoEvent]

\* Under output_requests_mutex: the event is kept when no read waits for it,
\* or else takes the read out of the vector.
BufferEvent(d) ==
  /\ vhf[d] = "queue" /\ Owner[d] \notin pending
  /\ Buffer(holds[d])
  /\ CallbackReturns(d)
  /\ UNCHANGED <<deviceVars, requestVars, endVars, clientVars>>

TakeRead(d) ==
  /\ vhf[d] = "queue" /\ Owner[d] \in pending
  /\ pending' = pending \ {Owner[d]}
  /\ vhf' = [vhf EXCEPT ![d] = "complete"]
  /\ UNCHANGED <<deviceVars, holds, buffered, read, result, endVars, clientVars>>

\* complete_output_request(): once unmarked, the read is the driver's alone.
CompleteRead(d) ==
  /\ vhf[d] = "complete" /\ read[Owner[d]] = "cancelable"
  /\ Complete(Owner[d], holds[d])
  /\ CallbackReturns(d)
  /\ UNCHANGED <<deviceVars, buffered, pending, endVars, clientVars>>

UnmarkFails(d) ==
  /\ vhf[d] = "complete" /\ read[Owner[d]] # "cancelable"
  /\ vhf' = [vhf EXCEPT ![d] = "rebuffer"]
  /\ UNCHANGED <<deviceVars, holds, buffered, requestVars, endVars, clientVars>>

RebufferEvent(d) ==
  /\ vhf[d] = "rebuffer"
  /\ Buffer(holds[d])
  /\ CallbackReturns(d)
  /\ UNCHANGED <<deviceVars, requestVars, endVars, clientVars>>

-----------------------------------------------------------------------------
(* handle_read_output_report_request() and LvhEvtOutputReadCanceled().     *)

\* Faulty: the newest event first.
AnswerWithNewest(c) ==
  /\ read[c] \in {"sent", "sent_canceled"} /\ hardware = "on"
  /\ buffered[c] # <<>>
  /\ Complete(c, Last(buffered[c]))
  /\ buffered' = [buffered EXCEPT ![c] = Front(@)]
  /\ UNCHANGED <<deviceVars, callbackVars, pending, endVars, clientVars>>

AnswerRead(c) ==
  /\ read[c] \in {"sent", "sent_canceled"} /\ hardware = "on"
  /\ buffered[c] # <<>>
  /\ Complete(c, Head(buffered[c]))
  /\ buffered' = [buffered EXCEPT ![c] = Tail(@)]
  /\ UNCHANGED <<deviceVars, callbackVars, pending, endVars, clientVars>>

\* Faulty: a read waits for the next event, whatever is buffered.
KeepReadAnyhow(c) ==
  /\ read[c] = "sent" /\ hardware = "on"
  /\ read' = [read EXCEPT ![c] = "cancelable"]
  /\ pending' = pending \cup {c}
  /\ UNCHANGED <<deviceVars, callbackVars, buffered, result, endVars, clientVars>>

KeepRead(c) ==
  /\ read[c] = "sent" /\ hardware = "on"
  /\ buffered[c] = <<>>
  /\ read' = [read EXCEPT ![c] = "cancelable"]
  /\ pending' = pending \cup {c}
  /\ UNCHANGED <<deviceVars, callbackVars, buffered, result, endVars, clientVars>>

\* WdfRequestMarkCancelableEx() fails: the request was cancelled already.
MarkFails(c) ==
  /\ read[c] = "sent_canceled" /\ hardware = "on"
  /\ buffered[c] = <<>>
  /\ Complete(c, NoEvent)
  /\ UNCHANGED <<deviceVars, callbackVars, buffered, pending, endVars, clientVars>>

\* The framework fails what its stopped queue still holds.
QueueFails(c) ==
  /\ read[c] \in {"sent", "sent_canceled"} /\ hardware # "on"
  /\ Complete(c, NoEvent)
  /\ UNCHANGED <<deviceVars, callbackVars, buffered, pending, endVars, clientVars>>

\* Faulty: the request is completed whoever has taken it.
CancelRoutineAlways(c) ==
  /\ read[c] = "canceling"
  /\ pending' = pending \ {c}
  /\ Complete(c, NoEvent)
  /\ UNCHANGED <<deviceVars, callbackVars, buffered, endVars, clientVars>>

\* Faulty: the request stays in the vector.
CancelRoutineLeaves(c) ==
  /\ read[c] = "canceling"
  /\ Complete(c, NoEvent)
  /\ UNCHANGED <<deviceVars, callbackVars, buffered, pending, endVars, clientVars>>

\* The request is left alone when it is no longer in the vector.
CancelRoutine(c) ==
  /\ read[c] = "canceling"
  /\ pending' = pending \ {c}
  /\ IF c \in pending THEN Complete(c, NoEvent)
     ELSE /\ read' = [read EXCEPT ![c] = "canceled"]
          /\ UNCHANGED result
  /\ UNCHANGED <<deviceVars, callbackVars, buffered, endVars, clientVars>>

-----------------------------------------------------------------------------
(* LvhEvtFileCleanup(): the devices created through the handle go first,   *)
(* then its reads and events.                                              *)

DevicesOf(c) == {d \in Devices : Owner[d] = c}

Closing(ds) ==
  device' = [d \in Devices |->
    IF d \in ds /\ device[d] = "live" THEN "closing" ELSE device[d]]

CleanupDevices(c) ==
  /\ cleanup[c] = "no" /\ ~HandleOpen(c)
  /\ \A d \in DevicesOf(c) : device[d] # "starting"
  /\ Closing(DevicesOf(c))
  /\ cleanup' = [cleanup EXCEPT ![c] = "devices"]
  /\ UNCHANGED <<sent, callbackVars, buffered, requestVars, hardware, taken,
                 clientVars>>

\* Faulty: the devices may still be going.
CleanupRequestsEarly(c) ==
  /\ cleanup[c] = "devices"
  /\ cleanup' = [cleanup EXCEPT ![c] = IF c \in pending THEN "complete" ELSE "done"]
  /\ pending' = pending \ {c}
  /\ buffered' = [buffered EXCEPT ![c] = <<>>]
  /\ UNCHANGED <<deviceVars, callbackVars, read, result, hardware, taken,
                 clientVars>>

\* cancel_output_requests_for_file()
CleanupRequests(c) ==
  /\ cleanup[c] = "devices"
  /\ \A d \in DevicesOf(c) : device[d] # "closing"
  /\ cleanup' = [cleanup EXCEPT ![c] = IF c \in pending THEN "complete" ELSE "done"]
  /\ pending' = pending \ {c}
  /\ buffered' = [buffered EXCEPT ![c] = <<>>]
  /\ UNCHANGED <<deviceVars, callbackVars, read, result, hardware, taken,
                 clientVars>>

CompleteIfUnmarked(c) ==
  IF read[c] = "cancelable" THEN Complete(c, NoEvent) ELSE UNCHANGED <<read, result>>

CleanupCompletes(c) ==
  /\ cleanup[c] = "complete"
  /\ CompleteIfUnmarked(c)
  /\ cleanup' = [cleanup EXCEPT ![c] = "done"]
  /\ UNCHANGED <<deviceVars, callbackVars, buffered, pending, hardware, taken,
                 clientVars>>

-----------------------------------------------------------------------------
(* LvhEvtDeviceReleaseHardware(): complete_pending_output_requests(), and  *)
(* then all devices go.                                                    *)

ReleaseHardware ==
  /\ hardware = "on"
  /\ \A d \in Devices : device[d] # "starting"
  /\ hardware' = "requests"
  /\ taken' = pending /\ pending' = {}
  /\ buffered' = [c \in Clients |-> <<>>]
  /\ UNCHANGED <<deviceVars, callbackVars, read, result, cleanup, clientVars>>

ReleaseCompletes(c) ==
  /\ c \in taken
  /\ taken' = taken \ {c}
  /\ CompleteIfUnmarked(c)
  /\ UNCHANGED <<deviceVars, callbackVars, buffered, pending, cleanup, hardware,
                 clientVars>>

ReleaseDevices ==
  /\ hardware = "requests" /\ taken = {}
  /\ Closing(Devices)
  /\ hardware' = "devices"
  /\ UNCHANGED <<sent, callbackVars, buffered, requestVars, cleanup, taken,
                 clientVars>>

Released ==
  /\ hardware = "devices"
  /\ \A d \in Devices : device[d] # "closing"
  /\ hardware' = "off"
  /\ UNCHANGED <<deviceVars, callbackVars, buffered, requestVars, cleanup, taken,
                 clientVars>>

-----------------------------------------------------------------------------
(* The client: output_loop(), read_output_report() and stop().             *)

\* With the hardware gone DeviceIoControl() fails, and the loop goes on.
StartRead(c) ==
  /\ reader[c] = "loop" /\ stop[c] # "token" /\ hardware = "on"
  /\ read' = [read EXCEPT ![c] = "sent"]
  /\ reader' = [reader EXCEPT ![c] = "wait"]
  /\ UNCHANGED <<deviceVars, callbackVars, buffered, pending, result, endVars,
                 stop, received>>

\* dispatch_output_report(); a read that failed is tried again.
ReadDone(c) ==
  /\ reader[c] \in {"wait", "drain"} /\ read[c] = "done"
  /\ received' = IF reader[c] = "wait" /\ result[c] # NoEvent
                   THEN [received EXCEPT ![c] = Append(@, result[c])]
                   ELSE received
  /\ read' = [read EXCEPT ![c] = "none"]
  /\ result' = [result EXCEPT ![c] = NoEvent]
  /\ reader' = [reader EXCEPT ![c] = "loop"]
  /\ UNCHANGED <<deviceVars, callbackVars, buffered, pending, endVars, stop>>

\* CancelIoEx(), and the end of a process: a request that is not marked only
\* remembers it.
Cancelled(c) ==
  read' = [read EXCEPT ![c] = CASE @ = "sent" -> "sent_canceled"
                                [] @ = "cancelable" -> "canceling"
                                [] OTHER -> @]

\* Then GetOverlappedResult() waits for the completion, without a limit.
CancelRead(c) ==
  /\ reader[c] = "wait" /\ stop[c] # "no" /\ read[c] # "done"
  /\ Cancelled(c)
  /\ reader' = [reader EXCEPT ![c] = "drain"]
  /\ UNCHANGED <<deviceVars, callbackVars, buffered, pending, result, endVars,
                 stop, received>>

LoopEnds(c) ==
  /\ reader[c] = "loop" /\ stop[c] = "token"
  /\ reader' = [reader EXCEPT ![c] = "ended"]
  /\ UNCHANGED <<deviceVars, callbackVars, buffered, requestVars, endVars, stop,
                 received>>

SetStopEvent(c) ==
  /\ HandleOpen(c) /\ stop[c] = "no"
  /\ stop' = [stop EXCEPT ![c] = "event"]
  /\ UNCHANGED <<deviceVars, callbackVars, buffered, requestVars, endVars,
                 reader, received>>

RequestStop(c) ==
  /\ HandleOpen(c) /\ stop[c] = "event"
  /\ stop' = [stop EXCEPT ![c] = "token"]
  /\ UNCHANGED <<deviceVars, callbackVars, buffered, requestVars, endVars,
                 reader, received>>

ClientDies(c) ==
  /\ HandleOpen(c)
  /\ reader' = [reader EXCEPT ![c] = "dead"]
  /\ Cancelled(c)
  /\ UNCHANGED <<deviceVars, callbackVars, buffered, pending, result, endVars,
                 stop, received>>

-----------------------------------------------------------------------------
VhfStep(d) ==
  BufferEvent(d) \/ TakeRead(d) \/ CompleteRead(d) \/ UnmarkFails(d) \/ RebufferEvent(d)

ReadStep(c) ==
  AnswerRead(c) \/ KeepRead(c) \/ MarkFails(c) \/ QueueFails(c) \/ CancelRoutine(c)

CleanupStep(c) == CleanupDevices(c) \/ CleanupRequests(c) \/ CleanupCompletes(c)

ReaderStep(c) == StartRead(c) \/ ReadDone(c) \/ CancelRead(c) \/ LoopEnds(c)

Next ==
  \/ \E d \in Devices :
       \/ CreateDevice(d) \/ RegisterDevice(d) \/ DestroyDevice(d)
       \/ DeleteDevice(d) \/ WriteReport(d) \/ VhfStep(d)
  \/ \E c \in Clients :
       \/ ReadStep(c) \/ CleanupStep(c) \/ ReleaseCompletes(c) \/ ReaderStep(c)
       \/ SetStopEvent(c) \/ RequestStop(c) \/ ClientDies(c)
  \/ ResetDevices \/ ReleaseHardware \/ ReleaseDevices \/ Released

Spec == Init /\ [][Next]_vars

\* Threads of the driver and of the client run.  Nothing is assumed of the
\* host, of the calls an application makes, or of ends and removals.
Fairness ==
  /\ \A d \in Devices : WF_vars(VhfStep(d)) /\ WF_vars(DeleteDevice(d))
  /\ \A c \in Clients : WF_vars(ReadStep(c)) /\ WF_vars(ReaderStep(c))

FairSpec == Spec /\ Fairness

-----------------------------------------------------------------------------
(* Safety.                                                                 *)

\* The VHF callbacks that have taken the read of c out of the vector.
Callbacks(c) == {d \in DevicesOf(c) : vhf[d] = "complete"}

Parties == {"vector", "callback", "cleanup", "hardware"}

Owns(party, c) ==
  \/ party = "vector" /\ c \in pending
  \/ party = "callback" /\ Callbacks(c) # {}
  \/ party = "cleanup" /\ cleanup[c] = "complete"
  \/ party = "hardware" /\ c \in taken

\* A read has one owner, who finds it not completed: a VHF callback, the
\* cleanup of the handle, the removal of the hardware and the cancel routine
\* can meet over one read, and a request completed twice ends the driver.
OneOwner ==
  \A c \in Clients :
    /\ \A p, q \in Parties : Owns(p, c) /\ Owns(q, c) => p = q
    /\ \A d, e \in Callbacks(c) : d = e
    /\ (\E p \in Parties : Owns(p, c)) => read[c] \in Marked

Undisturbed(c) == reader[c] \in {"loop", "wait"} /\ stop[c] = "no" /\ hardware = "on"

\* What c has of device d, and what is on its way: dispatched, in the read
\* just completed, buffered, and carried by the callback.
Stream(c, d) == received[c] \o <<result[c]>> \o buffered[c] \o <<holds[d]>>

\* Where s has output reports of d, which ones, and whether they come in order.
Of(s, d) == {i \in DOMAIN s : s[i] # NoEvent /\ s[i].device = d}
Numbers(s, d) == {s[i].n : i \in Of(s, d)}
Growing(s, d) == \A i, j \in Of(s, d) : i < j => s[i].n < s[j].n

\* A client that goes on reading gets every output report of a device once and
\* in the order the host wrote them, whether they found a read or not.
OutputsInOrder ==
  \A d \in Devices : Undisturbed(Owner[d]) =>
    /\ Numbers(Stream(Owner[d], d), d) = 1..sent[d]
    /\ Growing(Stream(Owner[d], d), d)

\* A client that is stopping, whose reads are cancelled while events go back
\* into the buffer, never gets an output report twice or after a later one.
NoneRepeated == \A c \in Clients, d \in Devices : Growing(received[c], d)

\* A client gets every output report of its devices, in order and once, and
\* while it is being stopped still none twice or late.
ReportsInOrder == OutputsInOrder /\ NoneRepeated

\* When a handle was cleaned up nothing is kept for it: no read, and no event
\* unless another thread was destroying the device meanwhile.
CleanedUp ==
  \A c \in Clients : cleanup[c] \in {"complete", "done"} =>
    /\ c \notin pending
    /\ \A i \in DOMAIN buffered[c] :
         device[buffered[c][i].device] \in {"destroying", "destroyed"}

\* "Keep the cancelable request under driver ownership": a read that the driver
\* has accepted and not completed is in its vector or in the hands of a thread,
\* as long as its client and the hardware are there.
DriverOwnsReads ==
  \A c \in Clients : read[c] \in Marked /\ HandleOpen(c) /\ hardware = "on" =>
    \E p \in Parties : Owns(p, c)

-----------------------------------------------------------------------------
(* Liveness.                                                               *)

\* The clients catch up: every output report reaches its client, buffered or not,
\* unless the client stops or ends or the hardware goes.
OutputArrives ==
  []<>(\A d \in Devices : Undisturbed(Owner[d]) =>
         Numbers(received[Owner[d]], d) = 1..sent[d])

=============================================================================
