----------------------------- MODULE MCBrokers ------------------------------
(* The brokers for TLC: that of Windows, which is WindowsBroker, extended  *)
(* here, or the licence manager of the one of macOS.                       *)
EXTENDS MCWindowsBroker

CONSTANTS Sessions, MacosKeys, MacosYearly, MacosDevices, MaxEvents

VARIABLES
  system,
  licence, age, macosOutage, macosOnline, evaluation, licensed, retained, operation,
  validator, sessions, file, gamepads, events, owed, unsaved, undeleted, unguarded

Macos == INSTANCE MacosLicense WITH
  Keys <- MacosKeys, Yearly <- MacosYearly, MaxDevices <- MacosDevices,
  outage <- macosOutage, online <- macosOnline, window <- evaluation, op <- operation,
  saved <- file, devices <- gamepads

ASSUME BrokersAssumption == Macos!LicenseAssumption

macosVars == <<licence, age, macosOutage, macosOnline, evaluation, licensed, retained,
               operation, validator, sessions, file, gamepads, events, owed, unsaved,
               undeleted, unguarded>>
brokersVars == <<system, macosVars, vars>>

BrokersInit ==
  /\ Init /\ Macos!Init
  /\ system \in {"windows", "macos"}
  /\ system = "windows" => file = Macos!NoLicence /\ evaluation = "never"
  /\ system = "macos" => window = "none"

BrokersNext ==
  /\ UNCHANGED system
  /\ \/ system = "windows" /\ Next /\ UNCHANGED macosVars
     \/ system = "macos" /\ Macos!Next /\ UNCHANGED vars

BrokersSpec == BrokersInit /\ [][BrokersNext]_brokersVars

\* Neither asks for a step of a broker that was not started and has no client.
BrokersFairSpec == BrokersSpec /\ Fairness /\ Macos!Fairness

\* The variables of the brokers have their types.
TypesOK == TypeOK /\ Macos!TypeOK

\* active_licensed_devices_, by which a gamepad is refused in an outage, is the number
\* of gamepads there are by a licence: none is missed or counted twice when clients,
\* polls and the end of the broker interleave.
CountTrue == licensed = Cardinality({s \in Sessions : Macos!ByLicence(s) /\ Macos!Serving(s)})

\* On macOS the licence file is the licence, no gamepad goes uncounted by Polar, and the
\* broker's own count of them is true.
LicenceKept == Macos!FileIsMemory /\ Macos!UsagePending /\ CountTrue

\* While Polar is unavailable no two gamepads of macOS are made (macos-gamepad.md:43-44).
OneGamepadOffline == Macos!OneOffline

\* On macOS gamepads go when their licence does, and all but one in a long outage.
GamepadsGo == Macos!GamepadsGo
=============================================================================
