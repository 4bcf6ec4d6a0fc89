---------------------------- MODULE WindowsInput ----------------------------
(***************************************************************************)
(* Input reports in the Windows UMDF driver: the record of one device      *)
(* (libvirtualhid_umdf.cpp) with its VhfInputReportQueue, the threads that *)
(* queue reports, VHF's callbacks and the deletion of the device.          *)
(*                                                                         *)
(* VHF is modelled from how the driver uses it.  It asks for a report with *)
(* EvtVhfReadyForNextReadReport, refers to a submitted buffer until it     *)
(* asks again, which it may do before VhfReadReportSubmit() has returned,  *)
(* may refuse a report, and VhfDelete(TRUE) waits for its callbacks.       *)
(*                                                                         *)
(* A report is its class, what must not be coalesced away (buttons, keys,  *)
(* contacts) as `discrete`, its relative motion on an axis of 16 bits, x,  *)
(* and on one of 8 bits, wheel, and its number.  The packet timer of       *)
(* Switch reports is left out.                                             *)
(***************************************************************************)
EXTENDS Integers, Sequences, SequencesExt

CONSTANTS
  Submitters,  \* threads that carry submit requests
  Readiers,    \* threads VHF asks for a report on
  Writers,     \* threads VHF delivers output reports on
  Kinds,       \* of the device: subset of {"gamepad", "keyboard", "mouse"}
  Limit,       \* vhf_max_pending_input_reports
  Reach,       \* largest motion of one report, i16 and i8 in the code
  Moves,       \* bound: the motions <<x, wheel>> clients send
  MaxReports   \* bound: reports queued, accepted or not

InputAssumption ==
  /\ Kinds \subseteq {"gamepad", "keyboard", "mouse"}
  /\ Limit \in Nat /\ Limit > 1 /\ Reach \in Nat \ {0} /\ MaxReports \in Nat
  /\ Moves \subseteq (-Reach - 1 .. Reach) \X (-Reach - 1 .. Reach)

VARIABLES
  kind,        \* the create request's device type
  life,        \* creation: "new", "created", "started", "live"
  del,         \* delete_vhf_device(): "no" before it has begun
  handle,      \* vhf_handle is not null
  waiting,     \* pending_input_reports: its three deques
  latest,      \* latest_input_reports, by class
  ready,       \* vhf_ready_for_input_report
  inFlight,    \* in_flight_input_report: the number of a buffer, 0 for null
  active,      \* active_input_submissions
  pc,          \* pc[t]: where thread t is
  held,        \* held[t]: the submission of t
  buffers,     \* buffers allocated so far; the last one's number
  vhf,         \* VHF: holds a buffer, has asked for a report, calls back
  pushed,      \* history: reports that queue_vhf_input_report() accepted
  delivered,   \* history: reports that VHF accepted
  lost,        \* history: reports make_room() dropped, and for which class
  refused      \* history: VHF has refused a report

queueVars == <<waiting, latest, pushed, lost>>
vars == <<kind, life, del, handle, queueVars, ready, inFlight, active, pc, held,
          buffers, vhf, delivered, refused>>

Threads == Submitters \cup Readiers \cup Writers

Report(class, discrete, move, n) ==
  [class |-> class, discrete |-> discrete, x |-> move[1], wheel |-> move[2], n |-> n]
Reports == [class : {"state", "protocol", "mouse"}, discrete : 0..1,
            x : Int, wheel : Int, n : Nat]

NoSubmission == [buffer |-> 0]
Empty == [protocol |-> <<>>, mouse |-> <<>>, state |-> <<>>]

Size(q) == Len(q.protocol) + Len(q.mouse) + Len(q.state)

TypeOK ==
  /\ kind \in Kinds
  /\ life \in {"new", "created", "started", "live"}
  /\ del \in {"no", "drain", "vhf", "reset", "done"}
  /\ handle \in BOOLEAN /\ ready \in BOOLEAN /\ refused \in BOOLEAN
  /\ waiting \in [{"protocol", "mouse", "state"} -> Seq(Reports)]
  /\ latest \in [{"protocol", "mouse", "state"} -> 0..MaxReports]
  /\ inFlight \in 0..buffers /\ active \in Nat /\ buffers \in Nat
  /\ pc \in [Threads -> {"idle", "found", "next", "submit", "finish"}]
  /\ \A t \in Threads : held[t] = NoSubmission \/
       held[t] \in [buffer : 1..buffers, report : Reports, ok : BOOLEAN]
  /\ vhf \in [holds : 0..buffers, asks : BOOLEAN, granted : BOOLEAN]
  /\ Size(waiting) <= Limit
  /\ pushed \in Seq(Reports) /\ delivered \in Seq(Reports)

Init ==
  /\ kind \in Kinds
  /\ life = "new" /\ del = "no" /\ handle = FALSE
  /\ waiting = Empty /\ latest = [c \in DOMAIN Empty |-> 0]
  /\ ready = FALSE /\ inFlight = 0 /\ active = 0
  /\ pc = [t \in Threads |-> "idle"]
  /\ held = [t \in Threads |-> NoSubmission]
  /\ buffers = 0
  /\ vhf = [holds |-> 0, asks |-> FALSE, granted |-> FALSE]
  /\ pushed = <<>> /\ delivered = <<>> /\ lost = <<>> /\ refused = FALSE

Goto(t, place) == pc' = [pc EXCEPT ![t] = place]

-----------------------------------------------------------------------------
(* VhfInputReportQueue.                                                    *)

\* The deque make_room() takes its oldest report from.
Victim(q) == IF q.state # <<>> THEN "state"
             ELSE IF q.mouse # <<>> THEN "mouse" ELSE "protocol"

\* Faulty: one too many.
OverFull(q) == Size(q) > Limit

Full(q) == Size(q) >= Limit

MakeRoom(q) == IF Full(q) THEN [q EXCEPT ![Victim(q)] = Tail(@)] ELSE q

\* push_mouse_report() accumulates motion while the buttons are the same.
Accumulated(old, new) ==
  [new EXCEPT !.x = old.x + new.x, !.wheel = old.wheel + new.wheel]

\* Faulty: whatever has changed, the newer report replaces the older.
CoalescesAny(q, r) ==
  q[r.class] # <<>> /\ (r.class = "mouse" \/ (r.class = "state" /\ kind = "gamepad"))

\* same_discrete_state(), for gamepads; and the buttons of a mouse.
Coalesces(q, r) ==
  /\ q[r.class] # <<>>
  /\ r.class = "mouse" \/ (r.class = "state" /\ kind = "gamepad")
  /\ Last(q[r.class]).discrete = r.discrete

Push(q, r) ==
  IF Coalesces(q, r)
    THEN [q EXCEPT ![r.class] = Append(Front(@), IF r.class = "mouse"
                                                   THEN Accumulated(Last(@), r) ELSE r)]
    ELSE LET room == MakeRoom(q) IN [room EXCEPT ![r.class] = Append(@, r)]

Clamp(value, low, high) == IF value < low THEN low ELSE IF value > high THEN high ELSE value

\* pop_mouse_report(): what one report can carry of the pending motion.
Carried(r) == [r EXCEPT !.x = Clamp(@, -Reach - 1, Reach), !.wheel = Clamp(@, -Reach, Reach)]

Remainder(r) == [r EXCEPT !.x = @ - Carried(r).x, !.wheel = @ - Carried(r).wheel]

Source(q) == IF q.protocol # <<>> THEN "protocol"
             ELSE IF q.mouse # <<>> THEN "mouse" ELSE "state"

Front1(q) == Head(q[Source(q)])

Popped(q) == IF Source(q) = "mouse" THEN Carried(Front1(q)) ELSE Front1(q)

Pop(q) ==
  LET rest == Remainder(Front1(q)) IN
  [q EXCEPT ![Source(q)] =
     IF Source(q) = "mouse" /\ (rest.x # 0 \/ rest.wheel # 0)
       THEN <<rest>> \o Tail(@) ELSE Tail(@)]

-----------------------------------------------------------------------------
(* create_vhf_device() and handle_create_device_request().                 *)

VhfCreate ==
  /\ life = "new" /\ del = "no"
  /\ life' = "created" /\ handle' = TRUE
  /\ UNCHANGED <<kind, del, queueVars, ready, inFlight, active, pc, held, buffers,
                 vhf, delivered, refused>>

VhfStart ==
  /\ life = "created" /\ del = "no"
  /\ life' = "started" /\ vhf' = [vhf EXCEPT !.asks = TRUE]
  /\ UNCHANGED <<kind, del, handle, queueVars, ready, inFlight, active, pc, held,
                 buffers, delivered, refused>>

Register ==
  /\ life = "started" /\ del = "no"
  /\ life' = "live"
  /\ UNCHANGED <<kind, del, handle, queueVars, ready, inFlight, active, pc, held,
                 buffers, vhf, delivered, refused>>

-----------------------------------------------------------------------------
(* handle_submit_input_report_request() and submit_switch_pro_reply().     *)

\* find_device(): the thread keeps the record, whatever becomes of it.
FindDevice(t) ==
  /\ t \in Submitters /\ pc[t] = "idle"
  /\ life = "live" /\ del = "no"
  /\ Goto(t, "found")
  /\ UNCHANGED <<kind, life, del, handle, queueVars, ready, inFlight, active, held,
                 buffers, vhf, delivered, refused>>

VhfCallsBack == life \in {"started", "live"} /\ del \in {"no", "drain"}

\* LvhEvtVhfWriteReport() for a Switch Pro controller.
SwitchCommand(t) ==
  /\ t \in Writers /\ pc[t] = "idle"
  /\ VhfCallsBack /\ kind = "gamepad"
  /\ Goto(t, "found")
  /\ UNCHANGED <<kind, life, del, handle, queueVars, ready, inFlight, active, held,
                 buffers, vhf, delivered, refused>>

Inputs(t, n) ==
  IF t \in Writers THEN {Report("protocol", 0, <<0, 0>>, n)}
  ELSE IF kind = "mouse" THEN {Report("mouse", b, m, n) : b \in 0..1, m \in Moves}
  ELSE {Report("state", b, <<0, 0>>, n) : b \in 0..1}

\* queue_vhf_input_report(), its first critical section.
QueueReport(t) ==
  /\ pc[t] = "found" /\ Len(pushed) < MaxReports
  /\ IF del # "no" \/ ~handle
       THEN Goto(t, "idle") /\ UNCHANGED queueVars
       ELSE \E r \in Inputs(t, Len(pushed) + 1) :
              /\ waiting' = Push(waiting, r)
              /\ latest' = [latest EXCEPT ![r.class] = r.n]
              /\ lost' = IF Coalesces(waiting, r) \/ ~Full(waiting) THEN lost
                         ELSE Append(lost, [report |-> Head(waiting[Victim(waiting)]),
                                            class |-> r.class])
              /\ pushed' = Append(pushed, r)
              /\ Goto(t, "next")
  /\ UNCHANGED <<kind, life, del, handle, ready, inFlight, active, held, buffers,
                 vhf, delivered, refused>>

-----------------------------------------------------------------------------
(* submit_next_vhf_input_report().                                         *)

MayPrepare == del = "no" /\ handle /\ ready /\ Size(waiting) > 0

\* prepare_vhf_input_submission()
PrepareSubmission(t) ==
  /\ pc[t] = "next"
  /\ IF ~MayPrepare
       THEN /\ Goto(t, "idle")
            /\ UNCHANGED <<waiting, ready, inFlight, active, held, buffers>>
       ELSE /\ waiting' = Pop(waiting)
            /\ ready' = FALSE
            /\ buffers' = buffers + 1 /\ inFlight' = buffers + 1
            /\ active' = active + 1
            /\ held' = [held EXCEPT ![t] =
                 [buffer |-> buffers + 1, report |-> Popped(waiting), ok |-> TRUE]]
            /\ Goto(t, "submit")
  /\ UNCHANGED <<kind, life, del, handle, latest, pushed, lost, vhf, delivered,
                 refused>>

\* Histories end where nothing more is claimed of them.
Forget == delivered' = <<>> /\ lost' = <<>>

\* VhfReadReportSubmit(): accepted, or refused, and then VHF may ask again.
Submit(t) ==
  /\ pc[t] = "submit"
  /\ \/ /\ vhf' = [vhf EXCEPT !.holds = held[t].buffer, !.granted = FALSE]
        /\ delivered' = Append(delivered, held[t].report)
        /\ UNCHANGED <<held, refused, lost>>
     \/ /\ \E again \in BOOLEAN :
             vhf' = [vhf EXCEPT !.asks = again, !.granted = FALSE]
        /\ held' = [held EXCEPT ![t].ok = FALSE]
        /\ refused' = TRUE
        /\ Forget
  /\ Goto(t, "finish")
  /\ UNCHANGED <<kind, life, del, handle, waiting, latest, pushed, ready, inFlight,
                 active, buffers>>

FinishSubmission(t) ==
  /\ pc[t] = "finish"
  /\ active' = active - 1
  /\ inFlight' = IF ~held[t].ok /\ inFlight = held[t].buffer THEN 0 ELSE inFlight
  /\ held' = [held EXCEPT ![t] = NoSubmission]
  /\ Goto(t, "idle")
  /\ UNCHANGED <<kind, life, del, handle, queueVars, ready, buffers, vhf, delivered,
                 refused>>

-----------------------------------------------------------------------------
(* VHF.                                                                    *)

\* The host has read the report: VHF drops the buffer and asks for the next.
HostReads ==
  /\ vhf.holds # 0 /\ VhfCallsBack
  /\ vhf' = [vhf EXCEPT !.holds = 0, !.asks = TRUE]
  /\ UNCHANGED <<kind, life, del, handle, queueVars, ready, inFlight, active, pc,
                 held, buffers, delivered, refused>>

\* Faulty: the callback leaves the next report to the next request.
ReadyOnly(t) ==
  /\ t \in Readiers /\ pc[t] = "idle"
  /\ vhf.asks /\ VhfCallsBack
  /\ IF del # "no" \/ ~handle
       THEN UNCHANGED <<inFlight, ready>> /\ vhf' = [vhf EXCEPT !.asks = FALSE]
       ELSE /\ inFlight' = 0 /\ ready' = TRUE
            /\ vhf' = [vhf EXCEPT !.asks = FALSE, !.granted = TRUE]
  /\ UNCHANGED <<kind, life, del, handle, queueVars, active, pc, held, buffers,
                 delivered, refused>>

\* LvhEvtVhfReadyForNextReadReport()
ReadyForNext(t) ==
  /\ t \in Readiers /\ pc[t] = "idle"
  /\ vhf.asks /\ VhfCallsBack
  /\ IF del # "no" \/ ~handle
       THEN UNCHANGED <<inFlight, ready, pc>> /\ vhf' = [vhf EXCEPT !.asks = FALSE]
       ELSE /\ inFlight' = 0 /\ ready' = TRUE
            /\ vhf' = [vhf EXCEPT !.asks = FALSE, !.granted = TRUE]
            /\ Goto(t, "next")
  /\ UNCHANGED <<kind, life, del, handle, queueVars, active, held, buffers, delivered,
                 refused>>

-----------------------------------------------------------------------------
(* delete_vhf_device(), after a failed creation, for a request to destroy  *)
(* or reset, the cleanup of a handle or the removal of the hardware.       *)

\* Faulty: the buffer goes with the pending reports.
DeleteBeginsAll ==
  /\ del = "no"
  /\ del' = "drain" /\ handle' = FALSE /\ ready' = FALSE /\ inFlight' = 0
  /\ waiting' = Empty /\ latest' = [c \in DOMAIN latest |-> 0]
  /\ Forget /\ pushed' = <<>>
  /\ UNCHANGED <<kind, life, active, pc, held, buffers, vhf, refused>>

DeleteBegins ==
  /\ del = "no"
  /\ del' = "drain" /\ handle' = FALSE /\ ready' = FALSE
  /\ waiting' = Empty /\ latest' = [c \in DOMAIN latest |-> 0]
  /\ Forget /\ pushed' = <<>>
  /\ UNCHANGED <<kind, life, inFlight, active, pc, held, buffers, vhf, refused>>

Drained ==
  /\ del = "drain" /\ active = 0
  /\ del' = "vhf"
  /\ UNCHANGED <<kind, life, handle, queueVars, ready, inFlight, active, pc, held,
                 buffers, vhf, delivered, refused>>

\* VhfDelete(TRUE) waits for the callbacks and drops the buffer.
VhfDelete ==
  /\ del = "vhf"
  /\ \A t \in Readiers \cup Writers : pc[t] = "idle"
  /\ del' = "reset" /\ vhf' = [vhf EXCEPT !.holds = 0, !.asks = FALSE]
  /\ UNCHANGED <<kind, life, handle, queueVars, ready, inFlight, active, pc, held,
                 buffers, delivered, refused>>

DeleteEnds ==
  /\ del = "reset"
  /\ del' = "done" /\ inFlight' = 0
  /\ UNCHANGED <<kind, life, handle, queueVars, ready, active, pc, held, buffers, vhf,
                 delivered, refused>>

-----------------------------------------------------------------------------
Step(t) == QueueReport(t) \/ PrepareSubmission(t) \/ Submit(t) \/ FinishSubmission(t)

Next ==
  \/ VhfCreate \/ VhfStart \/ Register
  \/ \E t \in Threads : FindDevice(t) \/ SwitchCommand(t) \/ Step(t) \/ ReadyForNext(t)
  \/ HostReads
  \/ DeleteBegins \/ Drained \/ VhfDelete \/ DeleteEnds

Spec == Init /\ [][Next]_vars

\* The driver's threads run, and the host goes on reading.  Nothing is assumed
\* of clients, or of who deletes the device.
Fairness ==
  /\ \A t \in Threads : WF_vars(Step(t))
  /\ WF_vars(\E t \in Readiers : ReadyForNext(t))
  /\ WF_vars(HostReads)
  /\ WF_vars(Drained \/ VhfDelete \/ DeleteEnds)

FairSpec == Spec /\ Fairness

-----------------------------------------------------------------------------
Submitting == {t \in Threads : pc[t] \in {"submit", "finish"}}

\* VHF hears of one report for each time it asked, whichever threads queue and
\* ask meanwhile; and never again once VhfDelete() may have been called.
OneSubmissionPerGrant ==
  /\ \A t \in Threads : pc[t] = "submit" => vhf.granted
  /\ \A t, u \in Threads : pc[t] = "submit" /\ pc[u] = "submit" => t = u
  /\ del \in {"vhf", "reset", "done"} => Submitting = {}

\* The buffer VHF refers to is referred to by the record or by the thread that
\* submitted it, however late that thread returns and whenever the device goes.
BufferOutlivesVhf ==
  vhf.holds # 0 => \/ inFlight = vhf.holds
                   \/ \E t \in Threads : held[t].buffer = vhf.holds

\* The contract of VHF is kept: one report for each request, and memory that
\* lives as long as VHF may use it.
VhfContractKept == OneSubmissionPerGrant /\ BufferOutlivesVhf

\* The reports of one class.
OfClass(class, s) ==
  LET upto[i \in 0..Len(s)] ==
        IF i = 0 THEN <<>>
        ELSE IF s[i].class = class THEN Append(upto[i - 1], s[i]) ELSE upto[i - 1]
  IN upto[Len(s)]

\* The discrete states a sequence of reports goes through.
Extended(states, r) ==
  IF states # <<>> /\ Last(states) = r.discrete THEN states ELSE Append(states, r.discrete)

Transitions(s) ==
  LET upto[i \in 0..Len(s)] == IF i = 0 THEN <<>> ELSE Extended(upto[i - 1], s[i])
  IN upto[Len(s)]

\* How far a sequence of reports moves on an axis, "x" or "wheel".
Motion(axis, s) ==
  LET upto[i \in 0..Len(s)] == IF i = 0 THEN 0 ELSE upto[i - 1] + s[i][axis]
  IN upto[Len(s)]

\* What a thread is about to hand to VHF.
Submitted == SetToSeq({held[t].report : t \in {u \in Threads : pc[u] = "submit"}})

\* What VHF has, is about to get and will get, in one class.
Stream(class) == OfClass(class, delivered) \o OfClass(class, Submitted) \o waiting[class]

Sent(class) == OfClass(class, pushed)
Dropped == [i \in DOMAIN lost |-> lost[i].report]

Undisturbed == del = "no" /\ ~refused

\* Presses, releases and contacts reach VHF all and in order, while reports wait,
\* are coalesced, split and overtaken by replies, unless more wait than fit: every
\* report of a keyboard, every change of the others.
TransitionsKept ==
  Undisturbed /\ lost = <<>> =>
    \A class \in {"state", "mouse", "protocol"} :
      IF kind = "keyboard" \/ class = "protocol"
        THEN Stream(class) = Sent(class)
        ELSE Transitions(Stream(class)) = Transitions(Sent(class))

\* Relative motion is neither lost nor made up: what VHF gets, what waits and
\* what was dropped for want of room add up to what clients sent.
MotionConserved ==
  Undisturbed =>
    \A axis \in {"x", "wheel"} :
      Motion(axis, Stream("mouse")) + Motion(axis, Dropped) = Motion(axis, pushed)

\* At the limit old reports give way to new ones: the newest state is lost only to
\* a Switch reply, and GET_REPORT never answers with less than VHF has got.
NewestKept ==
  Undisturbed => \A class \in {"state", "mouse", "protocol"} :
    /\ Sent(class) # <<>> =>
         \/ Stream(class) # <<>> /\ Last(Stream(class)).n = latest[class]
         \/ \E i \in DOMAIN lost : lost[i].report.n = latest[class] /\ lost[i].class = "protocol"
    /\ \A i \in DOMAIN Stream(class) : Stream(class)[i].n <= latest[class]

\* What the host is told of buttons, keys and contacts is complete as long as
\* reports fit, and up to date even when they do not.
ReportsKept == TransitionsKept /\ NewestKept

\* VHF catches up: every report that was queued reaches it, or a later one of its class
\* does, unless a reply took its place, VHF refuses a report or the device goes.
InputArrives ==
  []<>(Undisturbed => \A n \in DOMAIN pushed :
    \/ \E i \in DOMAIN delivered :
         delivered[i].class = pushed[n].class /\ delivered[i].n >= n
    \/ \E i \in DOMAIN lost : lost[i].report.n = n /\ lost[i].class = "protocol")

=============================================================================
