---------------------------- MODULE LinuxGamepad ----------------------------
(***************************************************************************)
(* A gamepad of the Linux backend (uhid_backend.cpp): made with UHID, with *)
(* uinput for the profiles that need it or can fall back to it.  The       *)
(* client's calls do not overlap (device mutex of runtime.cpp); beside     *)
(* them run the reader of what the kernel sends and, for PlayStation and   *)
(* Switch, the thread that repeats the last state.  States are numbered in *)
(* the order they are submitted, 0 is the neutral one.                     *)
(*                                                                         *)
(* Rumble of uinput gamepads: the host's force feedback effects of the     *)
(* kernel's ff-core, in ticks; effect e has strength e, the gain is 0 or 1.*)
(***************************************************************************)
EXTENDS Integers, Sequences, FiniteSets, FiniteSetsExt

CONSTANTS
  Profiles,      \* profiles asked for
  MaxSubmits,    \* bound: states submitted
  MaxRequests,   \* bound: events of the kernel for a UHID device, after START
  Effects,       \* effect ids
  Lengths,       \* replay lengths, 0 for endless
  Counts,        \* times an effect is played
  MaxTime,       \* bound: ticks
  MaxOrders      \* bound: events of the kernel for a uinput device

GamepadAssumption ==
  /\ Profiles \subseteq {"playstation", "switch_pro", "xbox_one", "xbox_360"}
  /\ Effects \subseteq Nat /\ Lengths \subseteq Nat /\ Counts \subseteq Nat \ {0}
  /\ {MaxSubmits, MaxRequests, MaxTime, MaxOrders} \subseteq Nat

VARIABLES
  profile, backend,
  client,        \* where the client's call is
  running,       \* running_, and no stop requested
  started,       \* started_
  reader, reporter,
  mutex,         \* who holds state_mutex_ or submit_mutex_
  last, packed,  \* last_state_, and the reporter's report
  devices,       \* the kernel's devices
  queue,         \* what the kernel has for the reader
  outstanding,   \* the kernel's requests without an answer
  sent, shown,   \* history: states submitted, the state in the last state report
  partly,        \* history: the last submit failed at its second report
  neutral,       \* history: a reply with neutral buttons came since
  effects,       \* rumble_effects_
  gain, told,    \* gain_, last_low_frequency_ and last_high_frequency_
  callback, felt,
  missed,        \* history: the last change found no callback
  now, updated,  \* the clock; the reader has been awake since it moved
  defined, playing, orders   \* the host's effects, and those it plays

threadVars == <<running, started, reader, reporter>>
stateVars == <<mutex, last, packed, sent, shown, partly, neutral>>
kernelVars == <<devices, queue, outstanding>>
hostVars == <<defined, playing, orders, now>>
rumbleVars == <<effects, gain, told, callback, felt, missed, updated>>
vars == <<profile, backend, client, threadVars, stateVars, kernelVars, hostVars, rumbleVars>>

None == [op |-> "none"]

TypeOK ==
  /\ backend \in {"none", "uhid", "uinput"} /\ devices \subseteq {"uhid", "uinput"}
  /\ client \in {"idle", "starting", "waiting", "stopping", "abandoning", "opening", "failed",
                 "ready", "submitting", "recording", "joining", "ending", "closed"}
  /\ reader \in {"none", "reading", "handling", "batch", "updating", "exited"}
  /\ reporter \in {"none", "sleeping", "packed", "exited"}
  /\ mutex \in {"free", "client", "reporter"} /\ {last, packed, shown} \subseteq 0..sent
  /\ DOMAIN effects \subseteq Effects /\ told \in Nat /\ felt \in Nat

Init ==
  /\ profile \in Profiles /\ backend = "none" /\ client = "idle"
  /\ running = FALSE /\ started = FALSE /\ reader = "none" /\ reporter = "none"
  /\ mutex = "free" /\ last = 0 /\ packed = 0 /\ sent = 0 /\ shown = 0
  /\ partly = FALSE /\ neutral = FALSE
  /\ devices = {} /\ queue = <<>> /\ outstanding = {}
  /\ effects = <<>> /\ gain = 1 /\ told = 0 /\ callback = FALSE /\ felt = 0 /\ missed = FALSE
  /\ updated = TRUE
  /\ defined = <<>> /\ playing = <<>> /\ orders = 0 /\ now = 0

-----------------------------------------------------------------------------
(* create_gamepad().                                                       *)

PrefersUhid == profile # "xbox_360"
UsesUinput == profile \in {"xbox_360", "xbox_one"}
Periodic == profile \in {"playstation", "switch_pro"}

\* open(/dev/uhid), the reader's thread begins before the device is made.
OpenUhid ==
  /\ client = "idle" /\ PrefersUhid
  /\ client' = "starting" /\ running' = TRUE /\ reader' = "reading"
  /\ UNCHANGED <<profile, backend, started, reporter, stateVars, kernelVars, hostVars, rumbleVars>>

\* UHID is not wanted, or /dev/uhid does not open.
NoUhid ==
  /\ client = "idle"
  /\ client' = IF UsesUinput THEN "opening" ELSE "failed"
  /\ UNCHANGED <<profile, backend, threadVars, stateVars, kernelVars, hostVars, rumbleVars>>

\* UHID_CREATE2
CreateUhid ==
  /\ client = "starting"
  /\ \/ /\ client' = "waiting" /\ devices' = devices \cup {"uhid"}
     \/ /\ client' = "stopping" /\ UNCHANGED devices
  /\ UNCHANGED <<profile, backend, threadVars, stateVars, queue, outstanding, hostVars, rumbleVars>>

\* wait_for_start(): the kernel may never start the device, or too late.
WaitForStart ==
  /\ client = "waiting"
  /\ IF started
       THEN /\ client' = "ready" /\ backend' = "uhid"
            /\ reporter' = IF Periodic THEN "sleeping" ELSE "none"
       ELSE client' = "stopping" /\ UNCHANGED <<backend, reporter>>
  /\ UNCHANGED <<profile, running, started, reader, stateVars, kernelVars, hostVars, rumbleVars>>

\* stop_reader()
StopReader ==
  /\ client = "stopping"
  /\ client' = "abandoning" /\ running' = FALSE
  /\ UNCHANGED <<profile, backend, started, reader, reporter, stateVars, kernelVars, hostVars, rumbleVars>>

\* Faulty: the device that did not start is left to the kernel.
AbandonLeaves ==
  /\ client = "abandoning" /\ reader = "exited"
  /\ client' = IF UsesUinput THEN "opening" ELSE "failed"
  /\ UNCHANGED <<profile, backend, threadVars, stateVars, kernelVars, hostVars, rumbleVars>>

\* The reader is joined, close() destroys what there is, then comes the fallback.
Abandon ==
  /\ client = "abandoning" /\ reader = "exited"
  /\ client' = IF UsesUinput THEN "opening" ELSE "failed"
  /\ devices' = {} /\ queue' = <<>> /\ outstanding' = {}
  /\ UNCHANGED <<profile, backend, threadVars, stateVars, hostVars, rumbleVars>>

OpenUinput ==
  /\ client = "opening"
  /\ \/ /\ client' = "ready" /\ backend' = "uinput" /\ devices' = devices \cup {"uinput"}
        /\ running' = TRUE /\ reader' = "reading"
     \/ client' = "failed" /\ UNCHANGED <<backend, devices, running, reader>>
  /\ UNCHANGED <<profile, started, reporter, stateVars, queue, outstanding, hostVars, rumbleVars>>

SetOutputCallback ==
  /\ client = "ready" /\ ~callback
  /\ callback' = TRUE
  /\ UNCHANGED <<profile, backend, client, threadVars, stateVars, kernelVars, hostVars,
                 effects, gain, told, felt, missed, updated>>

-----------------------------------------------------------------------------
(* submit() and the periodic reporter.                                     *)

\* Bound: not for the profile of HostOrders below.
Submit ==
  /\ client = "ready" /\ mutex = "free"
  /\ sent < MaxSubmits /\ PrefersUhid
  /\ client' = "submitting" /\ mutex' = "client" /\ sent' = sent + 1
  /\ UNCHANGED <<profile, backend, threadVars, last, packed, shown, partly, neutral, kernelVars,
                 hostVars, rumbleVars>>

\* The report is written, or not; an Xbox pad's battery report may fail after it.
WriteState ==
  /\ client = "submitting"
  /\ \/ /\ client' = "recording" /\ shown' = sent /\ neutral' = FALSE /\ partly' = FALSE
        /\ UNCHANGED mutex
     \/ /\ client' = "ready" /\ mutex' = "free"
        /\ UNCHANGED <<shown, neutral, partly>>
     \/ /\ backend = "uhid" /\ profile = "xbox_one"
        /\ client' = "ready" /\ mutex' = "free" /\ shown' = sent /\ partly' = TRUE
        /\ UNCHANGED neutral
  /\ UNCHANGED <<profile, backend, threadVars, last, packed, sent, kernelVars, hostVars, rumbleVars>>

RecordState ==
  /\ client = "recording"
  /\ client' = "ready" /\ mutex' = "free" /\ last' = sent
  /\ UNCHANGED <<profile, backend, threadVars, packed, sent, shown, partly, neutral, kernelVars,
                 hostVars, rumbleVars>>

\* Faulty: the state is packed whether a submit is under way or not.
PackUnlocked ==
  /\ reporter = "sleeping" /\ running
  /\ reporter' = "packed" /\ packed' = last
  /\ UNCHANGED <<profile, backend, client, running, started, reader, mutex, last, sent, shown,
                 partly, neutral, kernelVars, hostVars, rumbleVars>>

\* periodic_report_loop(), once awake.
Pack ==
  /\ reporter = "sleeping" /\ running /\ mutex = "free"
  /\ mutex' = "reporter" /\ reporter' = "packed" /\ packed' = last
  /\ UNCHANGED <<profile, backend, client, running, started, reader, last, sent, shown, partly,
                 neutral, kernelVars, hostVars, rumbleVars>>

\* The report is dropped when close() has begun.
Repeat ==
  /\ reporter = "packed"
  /\ reporter' = "sleeping" /\ mutex' = (IF mutex = "reporter" THEN "free" ELSE mutex)
  /\ IF running THEN shown' = packed /\ neutral' = FALSE ELSE UNCHANGED <<shown, neutral>>
  /\ UNCHANGED <<profile, backend, client, running, started, reader, last, packed, sent, partly,
                 kernelVars, hostVars, rumbleVars>>

ReporterExits ==
  /\ reporter = "sleeping" /\ ~running
  /\ reporter' = "exited"
  /\ UNCHANGED <<profile, backend, client, running, started, reader, stateVars, kernelVars,
                 hostVars, rumbleVars>>

-----------------------------------------------------------------------------
(* The reader of a UHID device.                                            *)

\* The kernel starts the device, writes output, asks for reports or sets them.
KernelSends(op) ==
  /\ "uhid" \in devices
  /\ IF op = "start" THEN ~started /\ queue = <<>> ELSE started /\ orders < MaxRequests
  /\ orders' = IF op = "start" THEN orders ELSE orders + 1
  /\ queue' = Append(queue, [op |-> op, id |-> orders'])
  /\ outstanding' = IF op \in {"get_report", "set_report"} THEN outstanding \cup {orders'}
                                                           ELSE outstanding
  /\ UNCHANGED <<profile, backend, client, threadVars, stateVars, devices, defined, playing, now,
                 rumbleVars>>

ReadEvent ==
  /\ reader = "reading" /\ running /\ backend # "uinput" /\ queue # <<>>
  /\ reader' = "handling"
  /\ UNCHANGED <<profile, backend, client, running, started, reporter, stateVars, kernelVars,
                 hostVars, rumbleVars>>

\* send_get_report_reply(), send_set_report_reply(): the answer may be an error.
Answered(event) == outstanding \ {event.id}

\* send_switch_pro_reply(): of the replies, which need an open device, some say that
\* no button is down.
RepliesNeutral(event) == event.op = "output" /\ profile = "switch_pro" /\ running

\* handle_event(), and the output callback in it, which returns.
HandleEvent ==
  /\ reader = "handling"
  /\ reader' = "reading" /\ queue' = Tail(queue)
  /\ started' = (started \/ Head(queue).op = "start")
  /\ outstanding' = Answered(Head(queue))
  /\ neutral' = (neutral \/ RepliesNeutral(Head(queue)))
  /\ UNCHANGED <<profile, backend, client, running, reporter, mutex, last, packed, sent, shown,
                 partly, devices, hostVars, rumbleVars>>

\* The end of read_loop() and read_output_loop(): asked to stop, or an error.
ReaderExits ==
  /\ reader = "reading" /\ ~running
  /\ reader' = "exited"
  /\ UNCHANGED <<profile, backend, client, running, started, reporter, stateVars, kernelVars,
                 hostVars, rumbleVars>>

ReadFails ==
  /\ reader = "reading" /\ running
  /\ reader' = "exited"
  /\ UNCHANGED <<profile, backend, client, running, started, reporter, stateVars, kernelVars,
                 hostVars, rumbleVars>>

-----------------------------------------------------------------------------
(* Force feedback of a uinput device.                                      *)

Put(f, x, value) == [y \in DOMAIN f \cup {x} |-> IF y = x THEN value ELSE f[y]]
Drop(f, x) == [y \in DOMAIN f \ {x} |-> f[y]]

\* Whether effect e, of that length, plays at that time.
Plays(e, length, time) ==
  length = 0 \/ time < playing[e].from + length * playing[e].count

\* The host's input core, which waits for the reader at an upload and an erasure.  An
\* effect that plays is played on with what is uploaded for it.  Bounds: only for the
\* profile that has no other backend, and not in the 100 ms in which the reader may not
\* have noticed the end of an effect, which an upload then makes play on.
HostOrders(order) ==
  /\ "uinput" \in devices /\ client = "ready" /\ reader # "exited" /\ orders < MaxOrders
  /\ ~PrefersUhid /\ updated
  /\ \A i \in DOMAIN queue : queue[i].op \notin {"upload", "erase"}
  /\ orders' = orders + 1 /\ queue' = Append(queue, order)
  /\ CASE order.op = "upload" ->
              /\ defined' = Put(defined, order.id, order.length)
              /\ playing' = IF order.id \in DOMAIN playing /\ ~Plays(order.id, order.length, now)
                             THEN Drop(playing, order.id) ELSE playing
       [] order.op = "erase" -> /\ order.id \in DOMAIN defined
                                /\ defined' = Drop(defined, order.id)
                                /\ playing' = Drop(playing, order.id)
       [] order.op = "play" -> /\ order.id \in DOMAIN defined /\ UNCHANGED defined
                               /\ playing' = Put(playing, order.id, [from |-> now, count |-> order.value])
       [] order.op = "stop" -> playing' = Drop(playing, order.id) /\ UNCHANGED defined
       [] OTHER -> UNCHANGED <<defined, playing>>
  /\ UNCHANGED <<profile, backend, client, threadVars, stateVars, devices, outstanding, now, rumbleVars>>

\* The clock moves once the reader has seen the time, which it does every 100 ms.
Tick ==
  /\ "uinput" \in devices /\ client = "ready" /\ now < MaxTime
  /\ updated /\ queue = <<>> /\ reader = "reading"
  /\ now' = now + 1 /\ updated' = FALSE
  /\ playing' = [e \in {e \in DOMAIN playing : Plays(e, defined[e], now + 1)} |-> playing[e]]
  /\ UNCHANGED <<profile, backend, client, threadVars, stateVars, kernelVars, defined, orders,
                 effects, gain, told, callback, felt, missed>>

\* rumble_effect_end()
EndOf(e) == IF e.length = 0 THEN MaxTime + 1 ELSE e.start + e.length * e.count

\* Faulty: an upload begins a stopped effect.
UploadedAnew(id, length) == [length |-> length, start |-> 0, count |-> 1, end |-> 0, active |-> FALSE]

\* upload_rumble_effect()
Uploaded(id, length) ==
  LET e == [length |-> length, start |-> 0, count |-> 1, end |-> 0, active |-> FALSE]
      old == effects[id]
      kept == [e EXCEPT !.active = TRUE, !.start = old.start, !.count = old.count]
  IN IF id \in DOMAIN effects /\ old.active THEN [kept EXCEPT !.end = EndOf(kept)] ELSE e

\* The part of handle_output_event() that plays an effect.
Played(id, count) ==
  LET e == [effects[id] EXCEPT !.active = TRUE, !.start = now, !.count = count]
  IN [e EXCEPT !.end = EndOf(e)]

\* handle_output_event(), for one of the events that were read together.
ReadOrder ==
  /\ reader = "batch" \/ (reader = "reading" /\ running)
  /\ backend = "uinput" /\ queue # <<>>
  /\ reader' = (IF Head(queue).op \in {"upload", "erase"} THEN "updating" ELSE "batch")
  /\ queue' = Tail(queue)
  /\ LET o == Head(queue)
         known == o.id \in DOMAIN effects
     IN /\ gain' = IF o.op = "gain" THEN o.value ELSE gain
        /\ effects' =
             CASE o.op = "upload" -> Put(effects, o.id, Uploaded(o.id, o.length))
               [] o.op = "erase" -> Drop(effects, o.id)
               [] o.op = "play" /\ known -> Put(effects, o.id, Played(o.id, o.value))
               [] o.op = "stop" /\ known -> [effects EXCEPT ![o.id].active = FALSE]
               [] OTHER -> effects
  /\ UNCHANGED <<profile, backend, client, running, started, reporter, stateVars, devices,
                 outstanding, hostVars, told, callback, felt, missed, updated>>

\* dispatch_rumble()
Dispatch(rumble) ==
  /\ told' = rumble
  /\ felt' = IF rumble # told /\ callback THEN rumble ELSE felt
  /\ missed' = IF rumble # told THEN ~callback ELSE missed

\* update_rumble(), after what was read, and when poll() has waited long enough.
UpdateRumble ==
  /\ reader \in {"batch", "updating"} \/ (reader = "reading" /\ queue = <<>> /\ ~updated /\ running)
  /\ backend = "uinput"
  /\ reader' = "reading" /\ updated' = TRUE
  /\ effects' = [id \in DOMAIN effects |->
                  [effects[id] EXCEPT !.active = @ /\ now < effects[id].end]]
  /\ Dispatch(gain * SumSet({id \in DOMAIN effects : effects'[id].active}))
  /\ UNCHANGED <<profile, backend, client, running, started, reporter, stateVars, kernelVars,
                 hostVars, gain, callback>>

-----------------------------------------------------------------------------
(* close()                                                                 *)

\* Faulty: the threads are not told to stop.
CloseOnly ==
  /\ client = "ready"
  /\ client' = "joining"
  /\ UNCHANGED <<profile, backend, running, started, reader, reporter, stateVars, kernelVars,
                 hostVars, rumbleVars>>

Close ==
  /\ client = "ready"
  /\ client' = "joining" /\ running' = FALSE
  /\ UNCHANGED <<profile, backend, started, reader, reporter, stateVars, kernelVars, hostVars,
                 rumbleVars>>

Join ==
  /\ client = "joining" /\ reader = "exited" /\ reporter \in {"none", "exited"}
  /\ client' = "ending"
  /\ UNCHANGED <<profile, backend, threadVars, stateVars, kernelVars, hostVars, rumbleVars>>

\* UHID_DESTROY, or the end of the rumble and UI_DEV_DESTROY.
Destroy ==
  /\ client = "ending"
  /\ client' = "closed" /\ devices' = {} /\ queue' = <<>> /\ outstanding' = {}
  /\ IF backend = "uinput" THEN Dispatch(0) ELSE UNCHANGED <<told, felt, missed>>
  /\ UNCHANGED <<profile, backend, threadVars, stateVars, hostVars, effects, gain, callback, updated>>

-----------------------------------------------------------------------------
Order(op, id, length, value) == [op |-> op, id |-> id, length |-> length, value |-> value]
Orders ==
  {Order("upload", e, l, 0) : e \in Effects, l \in Lengths}
    \cup {Order("play", e, 0, c) : e \in Effects, c \in Counts}
    \cup {Order(op, e, 0, 0) : op \in {"erase", "stop"}, e \in Effects}
    \cup {Order("gain", 0, 0, g) : g \in {0, 1}}

ClientSteps ==
  \/ CreateUhid \/ WaitForStart \/ StopReader \/ Abandon \/ OpenUinput
  \/ WriteState \/ RecordState \/ Join \/ Destroy
ReaderSteps == ReadEvent \/ HandleEvent \/ ReaderExits \/ ReadOrder \/ UpdateRumble
ReporterSteps == Pack \/ Repeat \/ ReporterExits

Done == client \in {"closed", "failed"} /\ UNCHANGED vars

Next ==
  \/ OpenUhid \/ NoUhid \/ SetOutputCallback \/ Submit \/ Close
  \/ ClientSteps \/ ReaderSteps \/ ReporterSteps \/ ReadFails
  \/ \E op \in {"start", "output", "get_report", "set_report"} : KernelSends(op)
  \/ \E order \in Orders : HostOrders(order)
  \/ Tick \/ Done

\* The threads run, a call that has begun goes on, the output callback returns.
Fairness == WF_vars(ClientSteps) /\ WF_vars(ReaderSteps) /\ SF_vars(Pack) /\ WF_vars(ReporterSteps)
Spec == Init /\ [][Next]_vars /\ Fairness

-----------------------------------------------------------------------------
\* The state reports never go back behind a submit that was accepted: whenever no
\* report is being made the host was shown the state that is remembered.  Only an
\* Xbox pad whose battery report failed may show more.
HostShowsNewest ==
  mutex = "free" => shown = last \/ partly

\* A creation that fails leaves no device and no thread, one that falls back to
\* uinput not both devices, and a closed device neither.
OneDeviceLeft ==
  /\ client \in {"ready", "submitting", "recording", "joining"} => devices = {backend}
  /\ client \in {"opening", "failed", "closed"} =>
       /\ devices = {} /\ reader \in {"none", "exited"} /\ reporter \in {"none", "exited"}

\* Whatever the host uploads, plays, stops, erases and uploads again: once the
\* reader has caught up the client feels the effects that play and no others, and
\* nothing after close().
FeltIsPlaying ==
  /\ backend = "uinput" /\ client = "ready" /\ reader = "reading" /\ updated /\ queue = <<>>
       => /\ told = gain * SumSet(DOMAIN playing)
          /\ ~missed => felt = told
  /\ client = "closed" /\ ~missed => felt = 0

\* close() returns.  The kernel's requests are answered while the reader lives.  The
\* buttons a Switch controller holds come back after a reply that shows none down.
GamepadLive ==
  /\ (client = "joining") ~> (client = "closed")
  /\ \A n \in 1..MaxRequests : (n \in outstanding) ~> (n \notin outstanding \/ reader = "exited" \/ ~running)
  /\ neutral ~> (~neutral \/ ~running)
=============================================================================
