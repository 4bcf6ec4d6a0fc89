----------------------------- MODULE WindowsPid -----------------------------
(***************************************************************************)
(* DirectInput force feedback of the Generic Controller on Windows: one    *)
(* report stream, from the host's PID driver through the UMDF driver's     *)
(* GenericPidFeatureState (generic_pid_protocol.hpp) to the client's       *)
(* GenericPidRumbleState (generic_pid_rumble.hpp), which the output thread *)
(* feeds and the PID timer thread advances (windows_backend.cpp).          *)
(*                                                                         *)
(* Time is a number that ticks.  A force is 0 or 1, and so is the device   *)
(* gain.  Envelopes and effects that are neither constant nor sine, which  *)
(* the code ignores, are left out.  The host is modelled from PID: it      *)
(* operates blocks it was given, and it is alone.                          *)
(***************************************************************************)
EXTENDS Integers, Sequences, FiniteSets, FiniteSetsExt

CONSTANTS
  NumBlocks,   \* generic_pid_max_effects
  Durations,   \* of an effect, Infinite among them
  Delays,      \* start delays
  Loops,       \* loop counts of an operation, Infinite among them
  MaxTime,     \* bound: ticks
  MaxEvents,   \* bound: output reports on their way to the client
  MaxReports   \* bound: reports of the host

Infinite == 65535
None == -1
Blocks == 1..NumBlocks

PidAssumption ==
  /\ NumBlocks \in Nat \ {0} /\ MaxTime \in Nat /\ MaxEvents \in Nat \ {0} /\ MaxReports \in Nat
  /\ Durations \subseteq Nat /\ Delays \subseteq Nat /\ Loops \subseteq Nat \ {0}

VARIABLES
  now,         \* the clock
  allocated,   \* allocated_
  load,        \* last_effect_block_index_ and load_status_
  state,       \* state_effect_block_index_ and state_flags_
  events,      \* output report events between driver and client
  effects,     \* effects_
  device,      \* device_gain_, actuators_enabled_, pause_started_, last_strength_
  callback,    \* the application has set its output callback
  open,        \* WindowsVhfDeviceState::open
  output,      \* dispatch_output_report(): where it is, and what it will say
  timer,       \* pid_timer_loop(): likewise, with its copy of now and the next
               \* transition
  notified,    \* pid_timer_generation_ has moved since the timer read it
  felt,        \* the last rumble the application was told
  plan,        \* history: what the host asked of each block, and for how many
               \* ticks that has run, pauses not counted
  early,       \* history: an effect was started or changed in a pause
  missed,      \* history: a report came when there was no callback
  reports      \* history: how many reports the host sent

driverVars == <<allocated, load, state>>
clientVars == <<effects, device>>
vars == <<now, driverVars, events, clientVars, callback, open, output, timer,
          notified, felt, plan, early, missed, reports>>

NoEffect == [force |-> 0, duration |-> 0, infinite |-> TRUE, delay |-> 0,
             operated |-> 0, start |-> 0, end |-> None, loops |-> 1,
             running |-> FALSE, started |-> FALSE]

Powered == [block |-> 0, paused |-> FALSE, enabled |-> TRUE, playing |-> FALSE]

NoPlan == [run |-> -1, delay |-> 0, duration |-> Infinite, loops |-> 1]

Idle == [pc |-> "idle", strength |-> None]

TypeOK ==
  /\ now \in 0..MaxTime
  /\ allocated \subseteq Blocks
  /\ load \in [block : 0..NumBlocks, status : {"none", "success", "full", "error"}]
  /\ state \in [block : 0..NumBlocks, paused : BOOLEAN, enabled : BOOLEAN, playing : BOOLEAN]
  /\ Len(events) <= MaxEvents
  /\ \A b \in Blocks : effects[b].started => effects[b].running
  /\ device.pause \in {None} \cup 0..MaxTime /\ device.last \in 0..NumBlocks
  /\ output.pc \in {"idle", "locked", "notify", "callback"}
  /\ timer.pc \in {"top", "now", "advance", "callback", "wait"}
  /\ output.pc # "idle" => timer.pc # "callback"
  /\ felt \in 0..NumBlocks

Init ==
  /\ now = 0
  /\ allocated = {} /\ load = [block |-> 0, status |-> "none"] /\ state = Powered
  /\ events = <<>>
  /\ effects = [b \in Blocks |-> NoEffect]
  /\ device = [gain |-> 1, enabled |-> TRUE, pause |-> None, last |-> 0]
  /\ callback = FALSE /\ open = TRUE
  /\ output = Idle
  /\ timer = [pc |-> "top", strength |-> None, now |-> 0, next |-> None]
  /\ notified = FALSE /\ felt = 0
  /\ plan = [b \in Blocks |-> NoPlan] /\ early = FALSE /\ missed = FALSE /\ reports = 0

-----------------------------------------------------------------------------
(* The driver: SET_FEATURE and output reports, each handled and queued.    *)

Queue(report) ==
  /\ open /\ Len(events) < MaxEvents /\ events' = Append(events, report)
  /\ reports < MaxReports /\ reports' = reports + 1

driverFrame == <<now, clientVars, callback, open, output, timer, notified, felt,
                 plan, early, missed>>

\* create_effect(): the lowest free block.
CreateEffect(type) ==
  /\ Queue([id |-> "create"])
  /\ LET free == Blocks \ allocated IN
     IF type = "invalid" THEN /\ load' = [block |-> 0, status |-> "error"]
                              /\ UNCHANGED allocated
     ELSE IF free = {} THEN /\ load' = [block |-> 0, status |-> "full"]
                            /\ UNCHANGED allocated
     ELSE /\ load' = [block |-> Min(free), status |-> "success"]
          /\ allocated' = allocated \cup {Min(free)}
  /\ UNCHANGED <<state, driverFrame>>

\* free_effect(), for a feature report and for an output report alike.
FreeEffect(b) ==
  /\ Queue([id |-> "free", block |-> b])
  /\ allocated' = allocated \ {b}
  /\ state' = IF state.block = b THEN [state EXCEPT !.block = 0, !.playing = FALSE] ELSE state
  /\ UNCHANGED <<load, driverFrame>>

\* effect_operation()
Operate(b, operation, loops) ==
  /\ b \in allocated
  /\ Queue([id |-> "operation", block |-> b, operation |-> operation, loops |-> loops])
  /\ state' = [state EXCEPT !.block = b, !.playing = operation # "stop"]
  /\ UNCHANGED <<allocated, load, driverFrame>>

Controls == {"enable", "disable", "stop_all", "reset", "pause", "continue"}

Controlled(s, command) ==
  CASE command = "enable" -> [s EXCEPT !.enabled = TRUE]
    [] command = "disable" -> [s EXCEPT !.enabled = FALSE]
    [] command = "stop_all" -> [s EXCEPT !.block = 0, !.playing = FALSE]
    [] command = "reset" -> Powered
    [] command = "pause" -> [s EXCEPT !.paused = TRUE]
    [] command = "continue" -> [s EXCEPT !.paused = FALSE]

\* device_control()
Control(command) ==
  /\ Queue([id |-> "control", command |-> command])
  /\ state' = Controlled(state, command)
  /\ IF command = "reset" THEN allocated' = {} /\ load' = [block |-> 0, status |-> "none"]
                          ELSE UNCHANGED <<allocated, load>>
  /\ UNCHANGED driverFrame

\* Reports the driver only passes on.
PassOn ==
  /\ \/ \E b \in allocated, d \in Durations, s \in Delays :
          Queue([id |-> "set", block |-> b, duration |-> d, delay |-> s])
     \/ \E b \in allocated, f \in 0..1 : Queue([id |-> "magnitude", block |-> b, force |-> f])
     \/ \E g \in 0..1 : Queue([id |-> "gain", gain |-> g])
  /\ UNCHANGED <<driverVars, driverFrame>>

-----------------------------------------------------------------------------
(* GenericPidRumbleState.                                                  *)

Scheduled(e) ==  \* update_effect_end()
  [e EXCEPT !.end = IF e.infinite \/ e.loops = Infinite THEN None
                    ELSE e.start + e.duration * e.loops]

Stopped(e) == [e EXCEPT !.running = FALSE, !.started = FALSE, !.end = None]

\* Faulty: the effect keeps its marks.
ExpiredHalf(e, t) ==
  IF e.running /\ e.end # None /\ t >= e.end THEN [e EXCEPT !.running = FALSE]
  ELSE [e EXCEPT !.started = e.running /\ (@ \/ t >= e.start)]

\* expire_effect()
Expired(e, t) ==
  IF ~e.running THEN e
  ELSE IF e.end # None /\ t >= e.end THEN Stopped(e)
  ELSE [e EXCEPT !.started = @ \/ t >= e.start]

ExpireEffects(es, t) == IF device.pause # None THEN es ELSE [b \in Blocks |-> Expired(es[b], t)]

\* start_effect()
Started(e, loops, t) ==
  Scheduled([e EXCEPT !.running = TRUE, !.operated = t, !.started = e.delay = 0,
                      !.start = t + e.delay, !.loops = loops])

\* reschedule_running_effect()
Rescheduled(e, t) ==
  IF ~e.running THEN e
  ELSE LET start == IF e.started THEN e.start ELSE e.operated + e.delay
       IN Expired(Scheduled([e EXCEPT !.start = start, !.started = @ \/ t >= start]), t)

\* continue_effects()
Shifted(e, pause) ==
  IF e.running THEN [e EXCEPT !.operated = @ + pause, !.start = @ + pause,
                              !.end = IF @ = None THEN None ELSE @ + pause]
               ELSE e

\* current_strength()
Strength(es, d, t) ==
  IF ~d.enabled \/ d.pause # None \/ d.gain = 0 THEN 0
  ELSE Cardinality({b \in Blocks : /\ es[b].running /\ es[b].started /\ t >= es[b].start /\ es[b].force = 1})

\* What handle_output_report() makes of the effects and of the device.
EffectsAfter(r, es, t) ==
  CASE r.id = "set" ->
         [es EXCEPT ![r.block] = Rescheduled([@ EXCEPT
            !.duration = r.duration, !.infinite = r.duration = Infinite, !.delay = r.delay], t)]
    [] r.id = "magnitude" -> [es EXCEPT ![r.block].force = r.force]
    [] r.id = "operation" ->
         LET others == IF r.operation = "solo" THEN [b \in Blocks |-> Stopped(es[b])] ELSE es
         IN [others EXCEPT ![r.block] = IF r.operation = "stop" THEN Stopped(@)
                                        ELSE Started(@, r.loops, t)]
    [] r.id = "free" -> [es EXCEPT ![r.block] = NoEffect]
    [] r.id = "control" /\ r.command = "stop_all" -> [b \in Blocks |-> Stopped(es[b])]
    [] r.id = "control" /\ r.command = "reset" -> [b \in Blocks |-> NoEffect]
    [] r.id = "control" /\ r.command = "continue" /\ device.pause # None ->
         [b \in Blocks |-> Shifted(es[b], t - device.pause)]
    [] OTHER -> es

DeviceAfter(r, t) ==
  IF r.id = "gain" THEN [device EXCEPT !.gain = r.gain]
  ELSE IF r.id # "control" THEN device
  ELSE CASE r.command = "enable" -> [device EXCEPT !.enabled = TRUE]
         [] r.command = "disable" -> [device EXCEPT !.enabled = FALSE]
         [] r.command = "reset" -> [device EXCEPT !.gain = 1, !.enabled = TRUE, !.pause = None]
         [] r.command = "pause" -> [device EXCEPT !.pause = IF @ = None THEN t ELSE @]
         [] r.command = "continue" -> [device EXCEPT !.pause = None]
         [] OTHER -> device

\* Which reports tell the application a strength at once.  A create report has
\* the number of a set report but is too short for one.
Tells(r, es) ==
  CASE r.id \in {"set", "magnitude"} -> es[r.block].running
    [] r.id = "create" -> FALSE
    [] OTHER -> TRUE

\* next_transition()
NextTransition(es, d) ==
  LET due(e) == IF e.started THEN e.end ELSE e.start
      times == {due(es[b]) : b \in {x \in Blocks : es[x].running /\ due(es[x]) # None}}
  IN IF d.pause # None \/ times = {} THEN None ELSE Min(times)

-----------------------------------------------------------------------------
(* The plan, by the ticks an effect has run instead of by dates.           *)

Playing(p) ==
  /\ p.run >= p.delay
  /\ p.duration # Infinite /\ p.loops # Infinite => p.run < p.delay + p.duration * p.loops

Over(p) == p.run >= p.delay /\ ~Playing(p)

PlanAfter(r) ==
  LET plans == [b \in Blocks |-> IF Over(plan[b]) THEN NoPlan ELSE plan[b]] IN
  CASE r.id = "operation" /\ r.operation # "stop" ->
         [b \in Blocks |->
            IF b = r.block THEN [run |-> 0, delay |-> effects[b].delay, loops |-> r.loops,
               duration |-> IF effects[b].infinite THEN Infinite ELSE effects[b].duration]
            ELSE IF r.operation = "solo" THEN NoPlan ELSE plans[b]]
    [] r.id = "free" \/ (r.id = "operation" /\ r.operation = "stop") -> [plans EXCEPT ![r.block] = NoPlan]
    [] r.id = "control" /\ r.command \in {"stop_all", "reset"} -> [b \in Blocks |-> NoPlan]
    [] r.id = "set" /\ plans[r.block] # NoPlan ->
         [plans EXCEPT ![r.block].duration = r.duration,
                       ![r.block].delay = IF plans[r.block].run >= @ THEN @ ELSE r.delay]
    [] OTHER -> plans

-----------------------------------------------------------------------------
(* The output thread: dispatch_output_report().                            *)

outputFrame == <<now, reports, driverVars, callback, open, timer>>

DispatchLocked == output.pc \in {"locked", "notify", "callback"} \/ timer.pc = "callback"

TakeEvent ==
  /\ output.pc = "idle" /\ events # <<>> /\ ~DispatchLocked
  /\ output' = [pc |-> "locked", strength |-> None]
  /\ UNCHANGED <<events, clientVars, notified, felt, plan, early, missed, outputFrame>>

\* Without a callback, or closed, the report is dropped.
HandleReport ==
  /\ output.pc = "locked"
  /\ events' = Tail(events)
  /\ LET r == Head(events)
         expired == ExpireEffects(effects, now)
         strength == Strength(EffectsAfter(r, expired, now), DeviceAfter(r, now), now)
         tells == Tells(r, expired)
     IN IF ~open \/ ~callback
          THEN /\ output' = Idle /\ missed' = TRUE
               /\ UNCHANGED <<clientVars, plan, early>>
          ELSE /\ effects' = EffectsAfter(r, expired, now)
               /\ device' = IF tells THEN [DeviceAfter(r, now) EXCEPT !.last = strength]
                                     ELSE DeviceAfter(r, now)
               /\ output' = [pc |-> "notify", strength |-> IF tells THEN strength ELSE None]
               /\ plan' = PlanAfter(r)
               /\ UNCHANGED missed
               /\ early' = (early \/ (device.pause # None /\ \E b \in Blocks :
                    r.id \in {"set", "operation"} /\ r.block = b /\ plan'[b] # NoPlan))
  /\ UNCHANGED <<notified, felt, outputFrame>>

\* Faulty: the timer is left to sleep.
NotifyNobody ==
  /\ output.pc = "notify"
  /\ output' = [output EXCEPT !.pc = "callback"]
  /\ UNCHANGED <<events, clientVars, notified, felt, plan, early, missed, outputFrame>>

NotifyTimer ==
  /\ output.pc = "notify"
  /\ notified' = TRUE
  /\ output' = [output EXCEPT !.pc = "callback"]
  /\ UNCHANGED <<events, clientVars, felt, plan, early, missed, outputFrame>>

CallBack ==
  /\ output.pc = "callback"
  /\ felt' = IF output.strength # None THEN output.strength ELSE felt
  /\ output' = Idle
  /\ UNCHANGED <<events, clientVars, notified, plan, early, missed, outputFrame>>

-----------------------------------------------------------------------------
(* The timer thread: pid_timer_loop() and dispatch_pid_transitions().      *)

timerFrame == <<now, reports, driverVars, events, callback, open, output, plan, early, missed>>

ReadGeneration ==
  /\ timer.pc = "top"
  /\ notified' = FALSE
  /\ timer' = [timer EXCEPT !.pc = "now"]
  /\ UNCHANGED <<clientVars, felt, timerFrame>>

ReadClock ==
  /\ timer.pc = "now"
  /\ timer' = [timer EXCEPT !.pc = "advance", !.now = now]
  /\ UNCHANGED <<clientVars, notified, felt, timerFrame>>

\* advance(), under the dispatch lock, at the time read before that lock.
Advance ==
  /\ timer.pc = "advance" /\ ~DispatchLocked
  /\ IF ~open
       THEN timer' = [timer EXCEPT !.pc = "wait", !.now = 0] /\ UNCHANGED clientVars
       ELSE LET es == ExpireEffects(effects, timer.now)
                strength == Strength(es, device, timer.now)
            IN /\ effects' = es
               /\ device' = [device EXCEPT !.last = strength]
               /\ timer' = [timer EXCEPT !.pc = "callback", !.now = 0, !.next = NextTransition(es, device),
                     !.strength = IF callback /\ strength # device.last THEN strength ELSE None]
  /\ UNCHANGED <<notified, felt, timerFrame>>

TimerCallsBack ==
  /\ timer.pc = "callback"
  /\ felt' = IF timer.strength # None THEN timer.strength ELSE felt
  /\ timer' = [timer EXCEPT !.pc = "wait", !.strength = None]
  /\ UNCHANGED <<clientVars, notified, timerFrame>>

Due == notified \/ (timer.next # None /\ now >= timer.next)

WakeUp ==
  /\ timer.pc = "wait" /\ Due
  /\ timer' = [timer EXCEPT !.pc = "top", !.next = None]
  /\ UNCHANGED <<clientVars, notified, felt, timerFrame>>

-----------------------------------------------------------------------------
SetCallback ==
  /\ ~callback /\ callback' = TRUE
  /\ UNCHANGED <<now, reports, driverVars, events, clientVars, open, output, timer, notified,
                 felt, plan, early, missed>>

\* close_device(): the device leaves devices_ and the timer is notified.
CloseDevice ==
  /\ open /\ open' = FALSE /\ notified' = TRUE /\ events' = <<>>
  /\ output.pc # "locked"
  /\ UNCHANGED <<now, reports, driverVars, clientVars, callback, output, timer, felt, plan, early, missed>>

Tick ==
  /\ now < MaxTime /\ now' = now + 1
  /\ plan' = [b \in Blocks |-> IF plan[b] = NoPlan \/ device.pause # None THEN plan[b]
                               ELSE [plan[b] EXCEPT !.run = @ + 1]]
  /\ UNCHANGED <<reports, driverVars, events, clientVars, callback, open, output, timer, notified,
                 felt, early, missed>>

Next ==
  \/ \E type \in {"valid", "invalid"} : CreateEffect(type)
  \/ \E b \in Blocks : FreeEffect(b)
  \/ \E b \in Blocks, loops \in Loops, o \in {"start", "solo", "stop"} : Operate(b, o, loops)
  \/ \E command \in Controls : Control(command)
  \/ PassOn
  \/ TakeEvent \/ HandleReport \/ NotifyTimer \/ CallBack
  \/ ReadGeneration \/ ReadClock \/ Advance \/ TimerCallsBack \/ WakeUp
  \/ SetCallback \/ CloseDevice \/ Tick

Spec == Init /\ [][Next]_vars

(* A later state, from which a run can start so that its reports go into    *)
(* playing: the host has created and described one effect, which the client *)
(* knows, the callback is set, and the timer sleeps.                        *)
Prepared ==
  /\ now = 0 /\ allocated = {1} /\ load = [block |-> 1, status |-> "success"]
  /\ state = Powered /\ events = <<>>
  /\ \E d \in Durations, s \in Delays :
       effects = [b \in Blocks |-> IF b # 1 THEN NoEffect ELSE [NoEffect EXCEPT
                    !.force = 1, !.duration = d, !.infinite = d = Infinite, !.delay = s]]
  /\ device = [gain |-> 1, enabled |-> TRUE, pause |-> None, last |-> 0]
  /\ callback = TRUE /\ open = TRUE /\ output = Idle
  /\ timer = [pc |-> "wait", strength |-> None, now |-> 0, next |-> None]
  /\ notified = FALSE /\ felt = 0 /\ plan = [b \in Blocks |-> NoPlan]
  /\ early = FALSE /\ missed = FALSE /\ reports = 0

-----------------------------------------------------------------------------
\* Both threads have done all there is to do at this time.
Quiet == open /\ callback /\ output = Idle /\ events = <<>> /\ timer.pc = "wait" /\ ~Due

Audible == {b \in Blocks : Playing(plan[b]) /\ effects[b].force = 1}

\* Whenever the threads are quiet the application feels what plays now: no start,
\* end or change of an effect is missed while the timer sleeps, computes how long
\* to sleep or uses an old time, however pauses shift it.
FeltIsCurrent ==
  Quiet /\ ~early =>
    felt = IF device.enabled /\ device.pause = None /\ device.gain = 1
             THEN Cardinality(Audible) ELSE 0

\* What the host reads from the driver of pauses and actuators is what the client
\* acts on, once it has heard all reports; and a block that the driver may hand
\* out again no longer plays.
StatesAgree ==
  Quiet /\ ~missed =>
    /\ state.paused = (device.pause # None) /\ state.enabled = device.enabled
    /\ \A b \in Blocks \ allocated : ~effects[b].running

\* Effects are felt as the host plays them, and both sides agree on their state.
EffectsAgree == FeltIsCurrent /\ StatesAgree
=============================================================================
