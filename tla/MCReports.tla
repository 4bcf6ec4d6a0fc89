------------------------------ MODULE MCReports ------------------------------
(***************************************************************************)
(* Reports between a client and a host, for TLC: the codec on every wire,  *)
(* or the force feedback of the Generic Controller on Windows, which is    *)
(* the one stream of reports whose meaning depends on time.                *)
(***************************************************************************)
EXTENDS GamepadAdapter

AllWires ==
  DOMAIN Profile \cup
  {"xbox_360_macos", "xbox_one_linux", "xbox_series_linux", "xbox_one_macos",
   "xbox_series_macos", "xbox_one_gip", "xbox_series_gip"}

SomeSticks == {<<0, 0>>, <<-2, 1>>, <<5, NaN>>}
SomePulls == {0, 1, 3}
SomeVectors == {<<1, -2, 0>>, <<NaN, 0, 2>>}
SomeBatteries ==
  {[state |-> "discharging", percentage |-> 0], [state |-> "charging", percentage |-> 100],
   [state |-> "full", percentage |-> 250], [state |-> "temperature_error", percentage |-> 50]}
SomeContacts ==
  {[id |-> 130, active |-> TRUE, x |-> 1, y |-> 2], [id |-> 1, active |-> TRUE, x |-> 3, y |-> -1],
   [id |-> 2, active |-> TRUE, x |-> NaN, y |-> 1]}

(* Three directions at once, and everything at once. *)
SomeStates ==
  {[Neutral EXCEPT !.buttons = {"up", "left", "right"}],
   [buttons |-> Buttons \ {"down"}, lx |-> -2, ly |-> 1, rx |-> 2, ry |-> -2, lt |-> 2, rt |-> 1,
    acceleration |-> <<-1, 2, 1>>, gyroscope |-> <<2, 1, -1>>,
    battery |-> [state |-> "charging", percentage |-> 40],
    touch |-> <<[id |-> 2, active |-> TRUE, x |-> 2, y |-> 0],
                [id |-> 3, active |-> TRUE, x |-> 0, y |-> 1]>>]}

Asked(at) == [size |-> 64, at |-> at, intact |-> TRUE]
SomeRequests ==
  {Asked((0 :> 128) @@ (1 :> c)) : c \in 1..5} \cup
  {Asked((0 :> 1) @@ (10 :> c)) : c \in {2, 3, 8, 48, 64, 72}} \cup
  {Asked((0 :> 1) @@ (10 :> 16) @@ Word(11, a) @@ (15 :> n)) :
     a \in {ImuCalibrationAt - 8, ImuCalibrationAt, StickCalibrationAt - 9, StickCalibrationAt,
            StickCalibrationAt + 9, 32784},
     n \in {0, 1, 9, 18, 24, 64}}

-----------------------------------------------------------------------------
CONSTANTS NumBlocks, Durations, Delays, Loops, MaxTime, MaxEvents, MaxReports

VARIABLES
  stream,  \* "codec" or "pid"
  now, allocated, load, state, events, effects, device, callback, deviceOpen, output, timer,
  notified, felt, plan, early, missed, reports

Pid == INSTANCE WindowsPid WITH open <- deviceOpen

ASSUME StreamAssumption == Pid!PidAssumption

pidVars == <<now, allocated, load, state, events, effects, device, callback, deviceOpen, output,
             timer, notified, felt, plan, early, missed, reports>>

SomeDurations == {1, 65535}
SomeLoops == {2}

ReportsInit ==
  \/ stream = "codec" /\ Init /\ Pid!Init
  \/ stream = "pid" /\ Init /\ (Pid!Init \/ Pid!Prepared)

ReportsNext ==
  /\ UNCHANGED stream
  /\ \/ stream = "codec" /\ Next /\ UNCHANGED pidVars
     \/ stream = "pid" /\ Pid!Next /\ UNCHANGED vars

ReportsSpec == ReportsInit /\ [][ReportsNext]_<<stream, vars, pidVars>>

\* The variables of both have their types.
TypesOK == TypeOK /\ Pid!TypeOK

\* Effects are felt as the host plays them, and both sides agree on their state.
EffectsAgree == Pid!EffectsAgree
=============================================================================
