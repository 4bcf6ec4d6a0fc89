----------------------------- MODULE XboxInput ------------------------------
(***************************************************************************)
(* An Xbox 360 gamepad on Windows: the software device that the broker     *)
(* creates for it (xbox_360_software_device.cpp) and the UMDF driver that  *)
(* serves it (libvirtualhid_xbox360_umdf.cpp), which has one state for one *)
(* device and handles requests in parallel: the broker's initialize, the   *)
(* client's submits and a game's requests to wait for input.               *)
(*                                                                         *)
(* VHF is modelled as in WindowsInput; WDF's manual queue holds requests   *)
(* until one is retrieved.  A device is removed at any step but while its  *)
(* initialize request is handled.  The client submits from one thread, a   *)
(* game waits with one request.  A report, and the input it shows, is its  *)
(* packet number.                                                          *)
(***************************************************************************)
EXTENDS Integers

CONSTANTS
  MaxPackets   \* bound: inputs submitted that differ from the one before

PacketsAssumption == MaxPackets \in Nat

VARIABLES
  context,     \* CreationCallbackContext: who frees it, "none" before and "freed" after
  created,     \* SwDeviceCreate()'s callback: "none", "due", "good", "failed"
  initialized, \* initialized
  shutting,    \* cleanup_driver_state(): "no", "drain", "vhf", "reset", "done"
  handle,      \* virtual_hid.handle is not null
  ready,       \* virtual_hid.ready
  pending,     \* virtual_hid.pending_report
  latest,      \* virtual_hid.latest_report
  inFlight,    \* virtual_hid.in_flight_report
  active,      \* virtual_hid.active_submissions
  packet,      \* packet_number and input
  waits,       \* a game's request in wait_input_queue: "idle", "queued", "taken"
  pc,          \* pc[t]: where thread t is
  held,        \* held[t]: the report, packet number or level t works on
  vhf,         \* VHF: runs, holds a report, has asked for one, has been granted it
  delivered,   \* history: the last report VHF accepted
  seen,        \* history: the last packet number a game's wait was answered with
  early,       \* history: VHF asked before the handle was stored
  refused      \* history: VHF has refused a report

creationVars == <<context, created, initialized>>
hidVars == <<shutting, handle, ready, pending, latest, inFlight, active, vhf, delivered,
             early, refused>>
inputVars == <<packet, waits, seen>>
vars == <<creationVars, hidVars, inputVars, pc, held>>

None == -1

Threads == {"broker", "client", "pump", "vhf"}

TypeOK ==
  /\ context \in {"none", "shared", "abandoned", "freed"}
  /\ created \in {"none", "due", "good", "failed"}
  /\ initialized \in BOOLEAN /\ shutting \in {"no", "drain", "vhf", "reset", "done"}
  /\ handle \in BOOLEAN /\ ready \in BOOLEAN
  /\ {pending, latest, inFlight, delivered, seen} \subseteq None..MaxPackets
  /\ active \in 0..3 /\ packet \in 0..MaxPackets
  /\ waits \in {"idle", "queued", "taken"}
  /\ pc \in [Threads -> {"idle", "create", "late", "open", "start", "store", "found", "report",
                         "next", "submit", "finish", "refused", "wake", "woken", "answer", "end"}]
  /\ held \in [Threads -> None..MaxPackets]
  /\ vhf \in [runs : BOOLEAN, holds : None..MaxPackets, asks : BOOLEAN, granted : BOOLEAN]
  /\ {early, refused} \subseteq BOOLEAN

Init ==
  /\ context = "none" /\ created = "none" /\ initialized = FALSE
  /\ shutting = "no" /\ handle = FALSE /\ ready = FALSE
  /\ pending = None /\ latest = None /\ inFlight = None /\ active = 0
  /\ packet = 0 /\ waits = "idle"
  /\ pc = [t \in Threads |-> "idle"] /\ held = [t \in Threads |-> None]
  /\ vhf = [runs |-> FALSE, holds |-> None, asks |-> FALSE, granted |-> FALSE]
  /\ delivered = None /\ seen = None
  /\ early = FALSE /\ refused = FALSE

Goto(t, place) == pc' = [pc EXCEPT ![t] = place]
Takes(t, value) == held' = [held EXCEPT ![t] = value]

\* initialized_request()
Serves == initialized /\ shutting = "no"

-----------------------------------------------------------------------------
(* Xbox360SoftwareDevice::create() in the broker.                          *)

\* SwDeviceCreate() accepts the device: its callback is due.
CreateDevice ==
  /\ pc["broker"] = "idle" /\ created = "none"
  /\ context' = "shared" /\ created' = "due"
  /\ Goto("broker", "create")
  /\ UNCHANGED <<initialized, hidVars, inputVars, held>>

\* software_device_created()
DeviceCreated ==
  /\ created = "due"
  /\ created' \in {"good", "failed"}
  /\ context' = IF context = "abandoned" THEN "freed" ELSE context
  /\ UNCHANGED <<initialized, hidVars, inputVars, pc, held>>

\* The wait ends with the event, or with the timeout while the callback may be
\* on its way.
WaitEnds ==
  /\ pc["broker"] = "create"
  /\ \/ /\ created # "due" /\ context' = "freed"
        /\ Goto("broker", IF created = "good" THEN "open" ELSE "end")
     \/ Goto("broker", "late") /\ UNCHANGED context
  /\ UNCHANGED <<created, initialized, hidVars, inputVars, held>>

TimesOut ==
  /\ pc["broker"] = "late"
  /\ context' = IF created = "due" THEN "abandoned" ELSE "freed"
  /\ Goto("broker", "end")
  /\ UNCHANGED <<created, initialized, hidVars, inputVars, held>>

\* The interface appears and initialize is sent, or not.
OpenDevice ==
  /\ pc["broker"] = "open"
  /\ \/ shutting = "no" /\ Goto("broker", "start")
     \/ Goto("broker", "end")
  /\ UNCHANGED <<creationVars, hidVars, inputVars, held>>

-----------------------------------------------------------------------------
(* handle_initialize(), initialize_vhf()                                   *)

\* VhfCreate() and VhfStart(), unless one fails: VHF calls back from here on.
StartVhf ==
  /\ pc["broker"] = "start"
  /\ \/ vhf' = [vhf EXCEPT !.runs = TRUE, !.asks = TRUE] /\ Goto("broker", "store")
     \/ Goto("broker", "end") /\ UNCHANGED vhf
  /\ UNCHANGED <<creationVars, shutting, handle, ready, pending, latest, inFlight, active,
                 delivered, early, refused, inputVars, held>>

StoreHandle ==
  /\ pc["broker"] = "store"
  /\ handle' = TRUE
  /\ Goto("broker", "found")
  /\ UNCHANGED <<creationVars, shutting, ready, pending, latest, inFlight, active, vhf,
                 delivered, early, refused, inputVars, held>>

Initialized ==
  /\ pc["broker"] = "found"
  /\ initialized' = TRUE
  /\ Takes("broker", packet) /\ Goto("broker", "report")
  /\ UNCHANGED <<context, created, hidVars, inputVars>>

-----------------------------------------------------------------------------
(* queue_hid_report(), submit_pending_hid_report()                         *)

\* Where a thread goes on when the report is out of its hands.
Onward(t) == CASE t = "broker" -> "end" [] t = "client" -> "wake" [] OTHER -> "idle"

QueueReport(t) ==
  /\ pc[t] = "report"
  /\ IF shutting # "no" \/ ~handle
       THEN Goto(t, Onward(t)) /\ UNCHANGED <<pending, latest>>
       ELSE pending' = held[t] /\ latest' = held[t] /\ Goto(t, "next")
  /\ UNCHANGED <<creationVars, shutting, handle, ready, inFlight, active, vhf, delivered,
                 early, refused, inputVars, held>>

MayPrepare == shutting = "no" /\ handle /\ ready /\ pending # None

\* prepare_vhf_submission()
PrepareSubmission(t) ==
  /\ pc[t] = "next"
  /\ IF MayPrepare
       THEN /\ Takes(t, pending) /\ inFlight' = pending /\ pending' = None
            /\ ready' = FALSE /\ active' = active + 1
            /\ Goto(t, "submit")
       ELSE Goto(t, Onward(t)) /\ UNCHANGED <<held, inFlight, pending, ready, active>>
  /\ UNCHANGED <<creationVars, shutting, handle, latest, vhf, delivered, early, refused,
                 inputVars>>

\* VhfReadReportSubmit(): accepted, or refused, and then VHF may ask again.
Submit(t) ==
  /\ pc[t] = "submit"
  /\ \/ /\ vhf' = [vhf EXCEPT !.holds = held[t], !.granted = FALSE]
        /\ delivered' = (IF shutting = "no" /\ ~refused THEN held[t] ELSE None)
        /\ Goto(t, "finish") /\ UNCHANGED refused
     \/ /\ \E again \in BOOLEAN : vhf' = [vhf EXCEPT !.asks = again, !.granted = FALSE]
        /\ refused' = TRUE /\ delivered' = None /\ Goto(t, "refused")
  /\ UNCHANGED <<creationVars, shutting, handle, ready, pending, latest, inFlight, active,
                 early, inputVars, held>>

\* A submit that VHF refused fails and leaves the games' requests to the timer.
FinishSubmission(t) ==
  /\ pc[t] \in {"finish", "refused"}
  /\ active' = active - 1
  /\ inFlight' = IF pc[t] = "refused" /\ inFlight = held[t] THEN None ELSE inFlight
  /\ Goto(t, IF pc[t] = "refused" /\ t = "client" THEN "idle" ELSE Onward(t))
  /\ UNCHANGED <<creationVars, shutting, handle, ready, pending, latest, vhf, delivered,
                 early, refused, inputVars, held>>

-----------------------------------------------------------------------------
(* VHF.                                                                    *)

VhfCallsBack == vhf.runs /\ shutting \in {"no", "drain"}

\* LvhXbox360EvtVhfReadyForNextReadReport(), which forgets what VHF asks for before
\* the handle is stored.
ReadyForNext ==
  /\ pc["vhf"] = "idle" /\ vhf.asks /\ VhfCallsBack
  /\ IF shutting # "no" \/ ~handle
       THEN /\ vhf' = [vhf EXCEPT !.asks = FALSE]
            /\ early' = (early \/ shutting = "no")
            /\ UNCHANGED <<inFlight, ready, pc>>
       ELSE /\ vhf' = [vhf EXCEPT !.asks = FALSE, !.granted = TRUE]
            /\ inFlight' = None /\ ready' = TRUE
            /\ Goto("vhf", "next") /\ UNCHANGED early
  /\ UNCHANGED <<creationVars, shutting, handle, pending, latest, active, delivered, refused,
                 inputVars, held>>

\* The host has read the report: VHF drops the buffer and asks for the next.
HostReads ==
  /\ vhf.holds # None /\ VhfCallsBack
  /\ vhf' = [vhf EXCEPT !.holds = None, !.asks = TRUE]
  /\ UNCHANGED <<creationVars, shutting, handle, ready, pending, latest, inFlight, active,
                 delivered, early, refused, inputVars, pc, held>>

-----------------------------------------------------------------------------
(* handle_submit_input(), LVH_WINDOWS_IOCTL_XUSB_WAIT_FOR_INPUT and        *)
(* complete_one_wait_for_input()                                           *)

\* The client has the device when the broker's create() has returned.
ClientServed == Serves /\ pc["broker"] = "end"

\* An input equal to the last one changes nothing.
SubmitInput ==
  /\ pc["client"] = "idle" /\ ClientServed /\ packet < MaxPackets
  /\ packet' = packet + 1
  /\ Takes("client", packet + 1) /\ Goto("client", "report")
  /\ UNCHANGED <<creationVars, hidVars, waits, seen>>

WaitForInput ==
  /\ waits = "idle" /\ created = "good" /\ shutting = "no"
  /\ waits' = "queued"
  /\ UNCHANGED <<creationVars, hidVars, packet, seen, pc, held>>

\* The client after a submit, and LvhXbox360EvtInputPump() every 8 ms.
Wake(t) ==
  /\ \/ t = "client" /\ pc[t] = "wake"
     \/ t = "pump" /\ pc[t] = "idle" /\ waits = "queued"
  /\ IF shutting = "no" /\ waits = "queued"
       THEN waits' = "taken" /\ Goto(t, "woken")
       ELSE Goto(t, "idle") /\ UNCHANGED waits
  /\ UNCHANGED <<creationVars, hidVars, packet, seen, held>>

\* make_xusb_state()
ReadInput(t) ==
  /\ pc[t] = "woken"
  /\ Takes(t, packet) /\ Goto(t, "answer")
  /\ UNCHANGED <<creationVars, hidVars, inputVars>>

AnswerWait(t) ==
  /\ pc[t] = "answer"
  /\ seen' = (IF shutting = "no" THEN held[t] ELSE None) /\ waits' = "idle"
  /\ Goto(t, "idle")
  /\ UNCHANGED <<creationVars, hidVars, packet, held>>

-----------------------------------------------------------------------------
(* cleanup_driver_state(), when the device goes.                           *)

Initializing == pc["broker"] \in {"start", "store", "found", "report", "next", "submit",
                                  "finish", "refused"}

\* WDF stops the queues and completes the requests in them.  The histories end here.
CleanupBegins ==
  /\ shutting = "no" /\ created = "good" /\ ~Initializing
  /\ shutting' = "drain" /\ handle' = FALSE /\ ready' = FALSE /\ pending' = None
  /\ waits' = (IF waits = "queued" THEN "idle" ELSE waits)
  /\ delivered' = None /\ seen' = None /\ early' = FALSE /\ refused' = FALSE
  /\ UNCHANGED <<creationVars, latest, inFlight, active, vhf, packet, pc, held>>

Drained ==
  /\ shutting = "drain" /\ active = 0 /\ shutting' = "vhf"
  /\ UNCHANGED <<creationVars, handle, ready, pending, latest, inFlight, active, vhf,
                 delivered, early, refused, inputVars, pc, held>>

\* VhfDelete(TRUE) waits for the callbacks and drops the buffer.
VhfDelete ==
  /\ shutting = "vhf" /\ pc["vhf"] = "idle"
  /\ shutting' = "reset"
  /\ vhf' = [vhf EXCEPT !.runs = FALSE, !.holds = None, !.asks = FALSE]
  /\ UNCHANGED <<creationVars, handle, ready, pending, latest, inFlight, active, delivered,
                 early, refused, inputVars, pc, held>>

CleanupEnds ==
  /\ shutting = "reset"
  /\ shutting' = "done" /\ inFlight' = None
  /\ UNCHANGED <<creationVars, handle, ready, pending, latest, active, vhf, delivered, early,
                 refused, inputVars, pc, held>>

-----------------------------------------------------------------------------
Create == WaitEnds \/ TimesOut \/ OpenDevice \/ StartVhf \/ StoreHandle \/ Initialized

Step(t) ==
  \/ QueueReport(t) \/ PrepareSubmission(t) \/ Submit(t) \/ FinishSubmission(t)
  \/ Wake(t) \/ ReadInput(t) \/ AnswerWait(t)

Next ==
  \/ CreateDevice \/ DeviceCreated \/ Create
  \/ \E t \in Threads : Step(t)
  \/ ReadyForNext \/ HostReads
  \/ SubmitInput \/ WaitForInput
  \/ CleanupBegins \/ Drained \/ VhfDelete \/ CleanupEnds

Spec == Init /\ [][Next]_vars

\* The threads of the driver and of the broker run, the timer fires, the host reads
\* and the game waits again.  Nobody has to submit or to remove the device.
Fairness ==
  /\ WF_vars(Create) /\ WF_vars(DeviceCreated)
  /\ \A t \in Threads : WF_vars(Step(t))
  /\ WF_vars(ReadyForNext) /\ WF_vars(HostReads)
  /\ WF_vars(WaitForInput)
  /\ WF_vars(Drained \/ VhfDelete \/ CleanupEnds)

-----------------------------------------------------------------------------
Submitting == {t \in Threads : pc[t] \in {"submit", "finish", "refused"}}

\* VHF hears of one report for each time it asked, whichever of the broker, the client
\* and its own callback submits it, and never once VhfDelete() may have been called;
\* and the buffer it refers to lives.
VhfContractKept ==
  /\ \A t \in Threads : pc[t] = "submit" => vhf.granted
  /\ \A t, u \in Threads : pc[t] = "submit" /\ pc[u] = "submit" => t = u
  /\ shutting \in {"vhf", "reset", "done"} => Submitting = {}
  /\ vhf.holds # None => \/ inFlight = vhf.holds
                          \/ \E t \in Submitting : held[t] = vhf.holds

\* The context of SwDeviceCreate()'s callback is freed once, by the broker or by the
\* callback, and never while the callback may come.
ContextOutlivesCallback ==
  /\ created = "due" => context \in {"shared", "abandoned"}
  /\ created \in {"good", "failed"} /\ pc["broker"] \in {"open", "end"} => context = "freed"

\* The newest input is on its way to VHF or there, although every input overwrites the
\* one that waits; what VHF gets never goes back, and GET_REPORT answers with nothing
\* older.
NewestKept ==
  Serves /\ ~refused =>
    /\ \/ \E t \in {"broker", "client"} : pc[t] = "report" /\ held[t] = packet
       \/ pending = packet \/ delivered = packet
       \/ \E t \in Threads : pc[t] = "submit" /\ held[t] = packet
    /\ delivered <= latest
    /\ pending # None => delivered < pending

\* When the client stops submitting, the host gets its last input, unless VHF refuses a
\* report or asked for one before the driver knew its handle, and so does a game that goes
\* on waiting for input, whatever VHF does.
InputArrives ==
  []<>(Serves => seen = packet /\ (delivered = packet \/ refused \/ early))

=============================================================================
