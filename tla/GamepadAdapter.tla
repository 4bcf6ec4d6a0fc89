--------------------------- MODULE GamepadAdapter ---------------------------
(***************************************************************************)
(* GamepadStateAdapter (src/src/core/gamepad_adapter.cpp) above the report *)
(* codec: a client changes one part of a controller's state at a time, and *)
(* every change is packed and handed to a backend that may refuse it.      *)
(*                                                                         *)
(* The other end of the wire is the host. Its side is external and is what *)
(* the code is measured against: it reads the report through the           *)
(* descriptor the device declared, or, where the descriptor says no more   *)
(* than "vendor", through the layout the driver of that controller knows;  *)
(* it sends orders in the formats its drivers use, and requests of its     *)
(* handshake.                                                              *)
(***************************************************************************)
EXTENDS ReportCodec

CONSTANTS Wires,       \* the profiles, and for Xbox the transports, in use
          MaxLoad,     \* bound: parts of the state away from neutral at once
          Sticks, Pulls, Vectors, Batteries, Contacts,  \* values clients set
          States,      \* whole states clients set
          Requests     \* what hosts ask of a Switch Pro controller

VARIABLES
  wire,       \* the controller in use and how it is connected
  open,       \* gamepad_ is open
  state_,     \* GamepadStateAdapter::state_
  accepted,   \* the last state a call returned success for
  received,   \* the last report the host got
  wished,     \* the orders of the host, as it means them
  told,       \* the orders of the host, as the client's callback heard them
  answer      \* the last request of the host and what it was answered

vars == <<wire, open, state_, accepted, received, wished, told, answer>>

-----------------------------------------------------------------------------
(* What each wire carries. *)

NameOf ==
  [w \in Wires |->
     CASE w \in {"xbox_360", "xbox_360_macos"} -> "xbox_360"
       [] w \in {"xbox_one", "xbox_one_linux", "xbox_one_macos", "xbox_one_gip"} -> "xbox_one"
       [] w \in {"xbox_series", "xbox_series_linux", "xbox_series_macos", "xbox_series_gip"} ->
            "xbox_series"
       [] OTHER -> w]
ProfileOf(w) == Profile[NameOf[w]]
Series(w) == NameOf[w] = "xbox_series"

OverLinuxBluetooth == {"xbox_one_linux", "xbox_series_linux"}
OverMacosBluetooth == {"xbox_one_macos", "xbox_series_macos"}
OverGip == {"xbox_one_gip", "xbox_series_gip"}
OverMacos == OverMacosBluetooth \cup OverGip \cup {"xbox_360_macos"}

Transported(w, n, packed) ==
  CASE w \in OverLinuxBluetooth -> make_xbox_bluetooth_input_report(n, packed, Series(w))
    [] w \in OverMacosBluetooth -> xbox_bluetooth_transport_input_report(n, packed, Series(w))
    [] w \in OverGip -> xbox_gip_transport_input_report(n, packed, Series(w))
    [] w = "xbox_360_macos" -> xbox_transport_input_report(n, packed)
    [] OTHER -> packed
InputReport(w, s) == Transported(w, normalize_state(s), pack_input_report(ProfileOf(w), s))

OutputReports(w, report) ==
  IF w \in OverMacos THEN xbox_transport_output_reports(ProfileOf(w), report)
  ELSE parse_output_reports(ProfileOf(w), report)

-----------------------------------------------------------------------------
(* The host reads a report: fields of a descriptor, or the layout a driver  *)
(* knows. Layouts are written as fields, so one reader serves all.          *)

PlayStationTouch == Each(<<"touch1", "touch2">>, 32)
Motion(names) == Each(names, 16)
GyroFirst == Motion(<<"gx", "gy", "gz", "ax", "ay", "az">>)

(* hid-playstation's struct dualshock4_input_report_common, and the first   *)
(* of its touch reports; struct dualsense_input_report.                     *)
DualShock4Layout ==
  PlayStationPrefix \o Pad(6) \o Each(<<"lt", "rt">>, 8) \o Pad(8 * 3) \o GyroFirst \o
  Pad(8 * 5) \o Field("charge", 4, 0) \o Field("power", 4, 0) \o Pad(8 * 4) \o PlayStationTouch
DualSenseLayout ==
  Each(<<"lx", "ly", "rx", "ry", "lt", "rt">>, 8) \o Pad(8) \o Field("hat", 4, 0) \o
  Each(PlayStationButtons \o <<"misc1">>, 1) \o Pad(13 + 8 * 4) \o GyroFirst \o Pad(8 * 5) \o
  PlayStationTouch \o Pad(8 * 12) \o Field("charge", 4, 0) \o Field("power", 4, 0)

(* hid-nintendo's struct joycon_input_report.                               *)
SwitchLayout ==
  Pad(8 + 4) \o Field("power", 1, 0) \o Field("charge", 3, 0) \o
  Each(<<"y", "x", "b", "a", "none", "none", "rb", "r2">>, 1) \o
  Each(<<"back", "start", "rs", "ls", "guide", "misc1", "none", "none">>, 1) \o
  Each(<<"down", "up", "right", "left", "none", "none", "lb", "l2">>, 1) \o
  Each(<<"lx", "ly", "rx", "ry">>, 12) \o Pad(8) \o
  Motion(<<"ax", "ay", "az", "gx", "gy", "gz">>)

(* The GIP packet xpad and GameController know.                             *)
GipLayout ==
  Pad(8 * 3) \o Each(<<"none", "none", "start", "back", "a", "b", "x", "y", "up", "down", "left",
                       "right", "lb", "rb", "ls", "rs">>, 1) \o
  Field("lt", 10, 0) \o Pad(6) \o Field("rt", 10, 0) \o Pad(6) \o
  Each(<<"lx", "ly", "rx", "ry">>, 16) \o Field("misc1", 1, 0) \o Pad(7 + 8 * 5) \o
  Field("guide", 1, 0)

Layout ==
  [w \in Wires |->
     CASE w = "generic" -> StandardGamepadFields
       [] w = "xbox_360" -> GamepadFields
       [] w = "xbox_360_macos" -> MacosXbox360Fields
       [] w \in {"xbox_one", "xbox_series"} -> XboxGipFields(Series(w))
       [] w \in OverLinuxBluetooth -> XboxBluetoothFields \o XboxBluetoothButtons(GappedButtons)
       [] w \in OverMacosBluetooth -> XboxBluetoothFields \o XboxBluetoothButtons(CompactButtons)
       [] w \in OverGip -> GipLayout
       [] w = "dualshock4_usb" -> DualShock4Layout
       [] w = "dualshock4" -> Vendor(2) \o DualShock4Layout
       [] w = "dualsense_usb" -> DualSenseLayout
       [] w = "dualsense" -> Vendor(1) \o DualSenseLayout
       [] OTHER -> SwitchLayout]

(* The descriptor the device declared, as bytes of an input report.          *)
DeclaredFields ==
  [w \in Wires |->
     CASE w = "dualshock4_usb" -> DualShock4UsbFields
       [] w = "dualshock4" -> DualShock4BluetoothFields
       [] w = "dualsense_usb" -> DualSenseUsbFields
       [] w = "dualsense" -> DualSenseBluetoothFields
       [] OTHER -> Layout[w]]
DeclaredSize ==
  [w \in Wires |->
     CASE w = "switch_pro" -> SwitchProReports.inputs[48] + 1
       [] w \in OverGip -> MacosGipReports.inputs[32] + 1
       [] w \in OverMacosBluetooth -> XboxTransport(ProfileOf(w)).input
       [] w \in {"xbox_one", "xbox_series"} -> FieldBits(DeclaredFields[w]) \div 8
       [] OTHER -> FieldBits(DeclaredFields[w]) \div 8 + 1]

(* Where each control of a wire lies: bit, width and logical minimum.        *)
Places ==
  [w \in Wires |->
     LET fields == Layout[w]
         numbered == w \notin {"xbox_one", "xbox_series"}
         named == {i \in DOMAIN fields : fields[i].of \notin {"none", "vendor"}}
     IN [c \in {fields[i].of : i \in named} |->
           LET i == CHOOSE k \in named : fields[k].of = c
           IN [fields[i] EXCEPT !.of = FieldBits(SubSeq(fields, 1, i - 1)) +
                                       (IF numbered THEN 8 ELSE 0)]]]

Value(report, place) ==
  LET b == place.of \div 8
      word == Byte(report, b) + 256 * Byte(report, b + 1) + 65536 * Byte(report, b + 2)
  IN (word \div (2 ^ (place.of % 8))) % (2 ^ place.bits)

Signed(v) == IF v >= 32768 THEN v - 65536 ELSE v

(* A position between low and high, in halves from the centre; what the     *)
(* driver knows of the sign of its axes; the calibration a Switch driver    *)
(* reads out of the controller before it trusts a stick.                     *)
Halves(v, high) == Round(4 * v, high) - 2
UpIsPositive(w) == w \in OverGip \cup {"xbox_360_macos", "switch_pro"}

ReadFactory(address, n) ==
  LET request == [size |-> 64, at |-> (0 :> 1) @@ (10 :> 16) @@ Word(11, address % 65536) @@
                                       (15 :> n)]
      reply == make_switch_pro_reply(request)
  IN [i \in 0..(n - 1) |-> Byte(reply, 20 + i)]
TwelveBits(f, i, odd) ==
  IF odd THEN f[i + 1] \div 16 + 16 * f[i + 2] ELSE f[i] + 256 * (f[i + 1] % 16)
(* The left stick's nine bytes are range above, centre, range below; the     *)
(* right one's centre, range below, range above.                             *)
SwitchHalves(axis, v) ==
  LET f == ReadFactory(StickCalibrationAt, 18)
      odd == axis \in {"ly", "ry"}
      left == axis \in {"lx", "ly"}
      centre == TwelveBits(f, IF left THEN 3 ELSE 9, odd)
      above == TwelveBits(f, IF left THEN 0 ELSE 15, odd)
      below == TwelveBits(f, IF left THEN 6 ELSE 12, odd)
  IN Between(Round(2 * (v - centre), IF v > centre THEN above ELSE below), -2, 2)
SwitchHalvesOf == [axis \in Axes |-> [v \in 0..4095 |-> SwitchHalves(axis, v)]]

StickRead(w, report, axis, place) ==
  LET v == Value(report, place)
      upwards == CASE w = "switch_pro" -> SwitchHalvesOf[axis][v]
                   [] w \in OverGip -> Halves(Signed(v) + 32768, 65535)
                   [] OTHER -> Halves(v, 2 ^ place.bits - 1)
  IN IF axis \in {"ly", "ry"} /\ ~ UpIsPositive(w) THEN -upwards ELSE upwards

TriggerRead(report, place) == Round(2 * Value(report, place), 2 ^ place.bits - 1)

ButtonsRead(report, places) ==
  LET hat == Value(report, places["hat"]) - places["hat"].low + 1
      ones == {c \in DOMAIN places \cap (Buttons \cup {"l2", "r2"}) : Value(report, places[c]) = 1}
  IN ones \cup (IF "hat" \in DOMAIN places /\ hat \in DOMAIN Hats THEN Hats[hat] ELSE {})

ContactRead(report, place, height) ==
  LET at == place.of \div 8
      x == Byte(report, at + 1) + 256 * (Byte(report, at + 2) % 16)
      y == Byte(report, at + 2) \div 16 + 16 * Byte(report, at + 3)
  IN IF Byte(report, at) >= 128 THEN NoValue
     ELSE [id |-> Byte(report, at), x |-> Round(2 * x, 1919), y |-> Round(2 * y, height)]

(* Rotation and acceleration per unit, from the calibration the PlayStation  *)
(* drivers read, and from hid-nintendo's resolutions.                        *)
PlayStationScale(first) ==
  IF first = "gx"
  THEN Round(100 * 2 * playstation_calibration.rotation,
             2 * playstation_calibration.speed)
  ELSE playstation_calibration.gravity
VectorRead(w, report, places, names) ==
  LET v == [i \in 1..3 |-> Signed(Value(report, places[names[i]]))]
      portable == IF w = "switch_pro" THEN <<-v[2], v[3], -v[1]>> ELSE v
      unit == IF w # "switch_pro" THEN PlayStationScale(names[1])
              ELSE IF names[1] = "gx" THEN 142470 ELSE 4096
  IN [i \in 1..3 |-> Round(portable[i] * (IF unit = 142470 THEN 100 ELSE 1), unit)]

BatteryRead(w, report, places) ==
  LET charge == Value(report, places["charge"])
      power == Value(report, places["power"])
  IN CASE w \in {"xbox_one", "xbox_series"} -> Value(report, places["battery"])
       [] NameOf[w] \in {"dualshock4", "dualshock4_usb"} ->
            (CASE power = 0 -> <<"discharging", charge>>
               [] charge <= 10 -> <<"charging", charge>>
               [] charge = 11 -> <<"full", 10>>
               [] OTHER -> <<"error", 0>>)
       [] NameOf[w] \in {"dualsense", "dualsense_usb"} ->
            (CASE power = 0 -> <<"discharging", charge>>
               [] power = 1 -> <<"charging", charge>>
               [] power = 2 -> <<"full", 10>>
               [] OTHER -> <<"error", 0>>)
       [] OTHER -> <<IF power = 1 THEN "charging" ELSE "discharging", charge>>

(* Everything one report tells.                                              *)
Read(w, report, places) ==
  LET height == IF NameOf[w] \in {"dualshock4", "dualshock4_usb"} THEN 941 ELSE 1079
  IN [size |-> report.size, buttons |-> ButtonsRead(report, places),
      sticks |-> [a \in Axes |-> StickRead(w, report, a, places[a])],
      triggers |-> [t \in Triggers \cap DOMAIN places |-> TriggerRead(report, places[t])],
      touch |-> [t \in {"touch1", "touch2"} \cap DOMAIN places |->
                   ContactRead(report, places[t], height)],
      motion |-> IF "gx" \notin DOMAIN places THEN NoValue
                 ELSE <<VectorRead(w, report, places, <<"gx", "gy", "gz">>),
                        VectorRead(w, report, places, <<"ax", "ay", "az">>)>>,
      battery |-> IF {"battery", "charge"} \cap DOMAIN places = {} THEN NoValue
                  ELSE BatteryRead(w, report, places)]

-----------------------------------------------------------------------------
(* What the host ought to read, said of the state alone.                     *)

OnHat == {"generic", "switch_pro", "xbox_360_macos"} \cup OverGip

ButtonsMeant(w, s, places) ==
  LET shown == s.buttons \cap Supported(ProfileOf(w))
  IN (IF w \in OnHat THEN shown ELSE (shown \ Dpad) \cup Pointed(shown)) \cup
     (IF "l2" \in DOMAIN places THEN Down(s) \cap {"l2", "r2"} ELSE {})

BatteryMeant(w, battery) ==
  LET percentage == IF battery = NoValue THEN 100 ELSE battery.percentage
      charging == battery # NoValue /\ battery.state = "charging"
      state == Battery([battery |-> battery]).state
  IN CASE w = "switch_pro" ->
            <<IF charging THEN "charging" ELSE "discharging", Round(percentage, 25)>>
       [] w \in {"xbox_one", "xbox_series"} -> Round(percentage * 255, 100)
       [] state = "full" -> <<"full", 10>>
       [] state \in {"charging", "discharging"} -> <<state, Round(percentage, 10)>>
       [] OTHER -> <<"error", 0>>

(* The status of a DualShock 4 has no way to say "error": what the host      *)
(* makes of one is not compared.                                             *)
BatteryCompared(w, s) ==
  ~ /\ w \in {"dualshock4", "dualshock4_usb"}
    /\ s.battery # NoValue
    /\ s.battery.state \in BatteryErrors

(* A coordinate or a rate that is not a number is read as zero.              *)
Number(v) == IF v = NaN THEN 0 ELSE v
Numbers(v) == [i \in 1..3 |-> Number(v[i])]

Meant(w, state, places) ==
  LET s == normalize_state(state)
  IN [size |-> DeclaredSize[w], buttons |-> ButtonsMeant(w, s, places),
      sticks |-> [a \in Axes |-> CASE a = "lx" -> s.lx [] a = "ly" -> s.ly
                                   [] a = "rx" -> s.rx [] OTHER -> s.ry],
      triggers |-> [t \in Triggers \cap DOMAIN places |-> IF t = "lt" THEN s.lt ELSE s.rt],
      touch |-> [t \in {"touch1", "touch2"} \cap DOMAIN places |->
                   LET c == s.touch[IF t = "touch1" THEN 1 ELSE 2]
                   IN IF ~ c.active THEN NoValue
                      ELSE [id |-> c.id % 128, x |-> Number(c.x), y |-> Number(c.y)]],
      motion |-> IF "gx" \notin DOMAIN places THEN NoValue
                 ELSE <<Numbers(Vector(s.gyroscope, Still)),
                        Numbers(Vector(s.acceleration, IF ProfileOf(w).kind = "dualsense" THEN Still ELSE Earth))>>,
      battery |-> IF {"battery", "charge"} \cap DOMAIN places = {} THEN NoValue
                  ELSE BatteryMeant(w, s.battery)]

-----------------------------------------------------------------------------
(* The orders of a host, in the formats its drivers use.                     *)

NoOrders == [rumble |-> <<0, 0>>, triggers |-> <<0, 0>>, light |-> <<0, 0, 0>>,
             leds |-> {}, resistance |-> <<0, 0>>]

Order(kind, value) == [kind |-> kind, value |-> value]
Damaged(report) == [report EXCEPT !.intact = FALSE]
HostReport(size, at) == [size |-> size, at |-> at, intact |-> TRUE]

(* hid-playstation and SDL; SDL sets another second byte over Bluetooth.     *)
DualShock4Report(w, payload) ==
  IF w = "dualshock4" THEN HostReport(DualShock4BluetoothOutputs[17] + 1, (0 :> 17) @@ (1 :> 192) @@ Shifted(payload, 3))
  ELSE HostReport(DualShock4UsbOutputs[5] + 1, (0 :> 5) @@ Shifted(payload, 1))
DualSenseReports(w, payload) ==
  IF w = "dualsense"
  THEN LET size == DualSenseBluetoothOutputs[49] + 1
       IN {HostReport(size, (0 :> 49) @@ (1 :> 32) @@ (2 :> 16) @@ Shifted(payload, 3)),
           HostReport(size, (0 :> 49) @@ (1 :> 2) @@ Shifted(payload, 2))}
  ELSE {HostReport(DualSenseUsbOutputs[2] + 1, (0 :> 2) @@ Shifted(payload, 1))}

PlayStationReports(w, order) ==
  LET v == order.value
      dualsense == ProfileOf(w).kind = "dualsense"
      payload ==
        CASE order.kind = "rumble" /\ ~ dualsense ->
               {(0 :> 1) @@ Bytes(3, <<v[2] \div 257, v[1] \div 257>>)}
          [] order.kind = "rumble" ->
               {f @@ Bytes(2, <<v[2] \div 257, v[1] \div 257>>) :
                  f \in {0 :> 3, (0 :> 2) @@ (38 :> 4)}}
          [] order.kind = "light" /\ ~ dualsense -> {(0 :> 2) @@ Bytes(5, v)}
          [] order.kind = "light" -> {(1 :> 4) @@ Bytes(44, v)}
          [] OTHER -> {(0 :> 12) @@ (10 :> v[2]) @@ (21 :> v[1])}
  IN IF dualsense THEN UNION {DualSenseReports(w, f) : f \in payload}
     ELSE {DualShock4Report(w, f) : f \in payload}

(* hid-nintendo: the band of an actuator runs from 0 to 100.                  *)
SwitchFrame(at, low, high) ==
  Bytes(at, <<0, 2 * high, 128 * (low % 2), 64 + low \div 2>>)
SwitchReports(order) ==
  LET v == order.value
      band(i) == IF v[i] = 0 THEN 0 ELSE 100
      quiet == SwitchFrame(2, 0, 0) @@ SwitchFrame(6, 0, 0)
      subcommand(n, arguments) ==
        HostReport(SwitchProReports.outputs[1] + 1, (0 :> 1) @@ (10 :> n) @@ Bytes(11, arguments) @@ quiet)
      frame(l, r) ==
        HostReport(SwitchProReports.outputs[16] + 1,
                   (0 :> 16) @@ SwitchFrame(2, l[1], l[2]) @@ SwitchFrame(6, r[1], r[2]))
  IN CASE order.kind = "rumble" -> {frame(<<band(1), band(2)>>, <<band(1), band(2)>>),
                                    frame(<<band(1), 0>>, <<0, band(2)>>)}
       [] order.kind = "leds" -> {subcommand(48, <<SumSet({2 ^ (i - 1) : i \in v})>>)}
       [] OTHER -> {subcommand(56, <<1, (v[1] \div 17) * 16, 0, 0>>)}

(* Physical Interface Device rumble, with and without the report number       *)
(* Windows puts before unnumbered reports; a GIP rumble packet on macOS.      *)
PidReports(w, order) ==
  LET v == order.value
      percent(x) == x \div 655
      rumble == order.kind = "rumble"
      payload == <<IF rumble THEN 3 ELSE 12, IF rumble THEN 0 ELSE percent(v[1]),
                   IF rumble THEN 0 ELSE percent(v[2]), IF rumble THEN percent(v[1]) ELSE 0,
                   IF rumble THEN percent(v[2]) ELSE 0, 255, 0, 0>>
  IN CASE w = "generic" -> {HostReport(GenericGamepad.output, Bytes(0, <<1>> \o payload))}
       [] w \in {"xbox_one", "xbox_series"} ->
            {HostReport(8, Bytes(0, payload)), HostReport(9, Bytes(1, payload))}
       [] w \in OverGip -> {HostReport(MacosGipReports.outputs[9] + 1, Bytes(0, <<9, 0, 1, 9, 0>> \o payload))}
       [] OTHER -> {HostReport(XboxBluetoothRumble[3] + 1, Bytes(0, <<3>> \o payload))}

HostReports(w, order) ==
  CASE ProfileOf(w).kind \in {"dualshock4", "dualsense"} -> PlayStationReports(w, order)
    [] w = "switch_pro" -> SwitchReports(order)
    [] ProfileOf(w).kind = "xbox_360" ->
         {HostReport(5, (0 :> 1) @@ Words(1, order.value))}
    [] OTHER -> PidReports(w, order)

Rumbles == {Order("rumble", <<0, 0>>), Order("rumble", <<65535, 0>>), Order("rumble", <<0, 65535>>)}
Lights == {Order("light", <<0, 0, 0>>), Order("light", <<255, 255, 255>>)}
Orders(w) ==
  Rumbles \cup
  (CASE ProfileOf(w).kind = "dualshock4" -> Lights \cup {Order("light", <<1, 2, 3>>)}
     [] ProfileOf(w).kind = "dualsense" ->
          Lights \cup {Order("light", <<1, 2, 3>>), Order("resistance", <<1, 2>>)}
     [] w = "switch_pro" -> Lights \cup {Order("leds", {1, 3})}
     [] ProfileOf(w).kind = "xbox_360" -> {Order("rumble", <<256, 65280>>)}
     [] w = "generic" -> {}
     [] OTHER -> {Order("triggers", <<65535, 0>>), Order("triggers", <<0, 65535>>)})

(* A Physical Interface Device report says all of rumble at once.            *)
Wish(w, orders, order) ==
  CASE order.kind = "rumble" /\ ProfileOf(w).kind \in {"generic", "xbox_one", "xbox_series"} ->
         [orders EXCEPT !.rumble = order.value, !.triggers = <<0, 0>>]
    [] order.kind = "rumble" -> [orders EXCEPT !.rumble = order.value]
    [] order.kind = "triggers" -> [orders EXCEPT !.rumble = <<0, 0>>, !.triggers = order.value]
    [] order.kind = "light" ->
         [orders EXCEPT !.light = order.value, !.rumble = IF w = "switch_pro" THEN <<0, 0>> ELSE @]
    [] order.kind = "leds" ->
         [orders EXCEPT !.leds = order.value, !.rumble = <<0, 0>>]
    [] OTHER -> [orders EXCEPT !.resistance = order.value]

(* A client's callback keeps the last of each kind it was told.              *)
Heard(orders, output) ==
  CASE output.kind = "rumble" -> [orders EXCEPT !.rumble = <<output.low, output.high>>]
    [] output.kind = "trigger_rumble" ->
         [orders EXCEPT !.triggers = <<output.left, output.right>>]
    [] output.kind = "rgb_led" -> [orders EXCEPT !.light = output.rgb]
    [] output.kind = "player_leds" -> [orders EXCEPT !.leds = output.on]
    [] output.kind = "adaptive_triggers" ->
         [orders EXCEPT !.resistance = <<output.left[1], output.right[1]>>]
    [] OTHER -> orders

-----------------------------------------------------------------------------
(* The client. *)

NoContact == [id |-> 0, active |-> FALSE, x |-> 0, y |-> 0]
Neutral ==
  [buttons |-> {}, lx |-> 0, ly |-> 0, rx |-> 0, ry |-> 0, lt |-> 0, rt |-> 0,
   acceleration |-> NoVector, gyroscope |-> NoVector, battery |-> NoValue,
   touch |-> <<NoContact, NoContact>>]

Load(s) ==
  Cardinality(s.buttons) +
  Cardinality({c \in {"lx", "rx", "lt", "rt", "acceleration", "gyroscope", "battery"} :
                 s[c] # Neutral[c]}) +
  Cardinality({i \in 1..2 : s.touch[i] # NoContact})

(* submit(): the whole state goes to the backend, and stays when it fails.    *)
submit(s) ==
  /\ state_' = s
  /\ \/ /\ open
        /\ accepted' = s
        /\ received' = InputReport(wire, s)
     \/ /\ state_ = accepted
        /\ UNCHANGED <<accepted, received>>
  /\ UNCHANGED <<wire, open, wished, told, answer>>

Set(s) == s # state_ /\ Load(s) <= MaxLoad /\ submit(s)
Can(capability) == capability \in ProfileOf(wire).can

(* create(): the neutral state is submitted at once.                          *)
create(w) ==
  /\ wire = "none"
  /\ wire' = w
  /\ open' = TRUE
  /\ received' = InputReport(w, Neutral)
  /\ UNCHANGED <<state_, accepted, wished, told, answer>>

set_state == \E s \in States : s # state_ /\ submit(s)
set_button ==
  \E b \in Buttons :
     /\ b \in Supported(ProfileOf(wire))
     /\ \E down \in {state_.buttons \cup {b}, state_.buttons \ {b}} :
          Set([state_ EXCEPT !.buttons = down])
set_left_stick == \E p \in Sticks : Set([state_ EXCEPT !.lx = p[1], !.ly = p[2]])
set_right_stick == \E p \in Sticks : Set([state_ EXCEPT !.rx = p[1], !.ry = p[2]])
set_left_trigger == \E v \in Pulls : Set([state_ EXCEPT !.lt = v])
set_right_trigger == \E v \in Pulls : Set([state_ EXCEPT !.rt = v])
set_acceleration ==
  Can("motion") /\ \E v \in Vectors \cup {NoVector} : Set([state_ EXCEPT !.acceleration = v])
set_gyroscope ==
  Can("motion") /\ \E v \in Vectors \cup {NoVector} : Set([state_ EXCEPT !.gyroscope = v])
set_motion ==
  Can("motion") /\ \E v, g \in Vectors : Set([state_ EXCEPT !.acceleration = v, !.gyroscope = g])
clear_motion ==
  Can("motion") /\ Set([state_ EXCEPT !.acceleration = NoVector, !.gyroscope = NoVector])
set_battery == Can("battery") /\ \E b \in Batteries : Set([state_ EXCEPT !.battery = b])
clear_battery == Can("battery") /\ Set([state_ EXCEPT !.battery = NoValue])
set_touchpad_contact ==
  Can("touchpad") /\ \E i \in 1..2, c \in Contacts : Set([state_ EXCEPT !.touch[i] = c])
clear_touchpad_contact ==
  Can("touchpad") /\ \E i \in 1..2 : Set([state_ EXCEPT !.touch[i] = NoContact])

close ==
  /\ open
  /\ open' = FALSE
  /\ UNCHANGED <<wire, state_, accepted, received, wished, told, answer>>

-----------------------------------------------------------------------------
(* The host. Its orders and requests touch nothing of the input, nor does    *)
(* one touch the other: a bound lets each in only where the rest is at rest.  *)

Quiet == open /\ state_ = Neutral /\ accepted = Neutral
NothingHeard == wished = NoOrders /\ told = NoOrders /\ answer = <<>>

dispatch_output ==
  /\ Quiet /\ answer = <<>>
  /\ \E order \in Orders(wire) : \E report \in HostReports(wire, order) :
       \E damaged \in {FALSE} \cup {wire \in {"dualshock4", "dualsense"}} :
          LET sent == IF damaged THEN Damaged(report) ELSE report
          IN /\ told' = FoldLeft(Heard, told, OutputReports(wire, sent))
             /\ wished' = IF damaged THEN wished ELSE Wish(wire, wished, order)
  /\ UNCHANGED <<wire, open, state_, accepted, received, answer>>

handshake ==
  /\ Quiet /\ NothingHeard
  /\ \/ /\ wire = "switch_pro"
        /\ \E r \in Requests : answer' = <<r, make_switch_pro_reply(r)>>
     \/ /\ ProfileOf(wire).kind \in {"dualshock4", "dualsense"}
        /\ \E n \in 0..255 : answer' = <<n, make_playstation_feature_report(ProfileOf(wire), n)>>
  /\ UNCHANGED <<wire, open, state_, accepted, received, wished, told>>

Init ==
  /\ wire = "none"
  /\ open = FALSE
  /\ state_ = Neutral /\ accepted = Neutral
  /\ received = NoValue
  /\ wished = NoOrders /\ told = NoOrders
  /\ answer = <<>>

ClientNext ==
  \/ set_state \/ set_button \/ set_left_stick \/ set_right_stick
  \/ set_left_trigger \/ set_right_trigger
  \/ set_acceleration \/ set_gyroscope \/ set_motion \/ clear_motion
  \/ set_battery \/ clear_battery
  \/ set_touchpad_contact \/ clear_touchpad_contact \/ close

Next ==
  \/ \E w \in Wires : create(w)
  \/ wire # "none" /\ NothingHeard /\ ClientNext
  \/ wire # "none" /\ (dispatch_output \/ handshake)

Spec == Init /\ [][Next]_vars

-----------------------------------------------------------------------------
(* Properties *)

(* The variables have their types.                                            *)
TypeOK ==
  /\ wire \in Wires \cup {"none"}
  /\ open \in BOOLEAN
  /\ {state_.buttons, accepted.buttons} \subseteq SUBSET Buttons
  /\ DOMAIN state_.touch = 1..2 /\ DOMAIN accepted.touch = 1..2
  /\ DOMAIN told = DOMAIN NoOrders /\ DOMAIN wished = DOMAIN NoOrders

(* What the host reads is what the client last had accepted: every control   *)
(* the profile has, in range and the right way up, whatever out-of-range or   *)
(* contradictory values the client set, on every descriptor and transport     *)
(* (pack_input_report() against the descriptors of profiles.cpp).             *)
Shows(w, read, meant, state) ==
  /\ read.buttons \cap (Supported(ProfileOf(w)) \cup {"l2", "r2"}) = meant.buttons
  /\ \A part \in {"size", "sticks", "triggers", "touch", "motion"} : read[part] = meant[part]
  /\ BatteryCompared(w, state) => read.battery = meant.battery
ShowsAt(places) ==
  Shows(wire, Read(wire, received, places), Meant(wire, accepted, places), accepted)
HostSeesAccepted == wire # "none" => ShowsAt(Places[wire])

(* The client knows the orders of the host as the host means them, whichever *)
(* of its formats the host used, and a damaged report changes nothing         *)
(* (parse_output_reports()).                                                  *)
OrdersFollowed == told = wished

(* What a driver asks of a controller before it trusts it is answered in     *)
(* full: a reply echoes its request, memory read in pieces is the memory,     *)
(* a feature report is exactly as long as the descriptor says, and the        *)
(* checksum of a pairing report overwrites no byte of the address.            *)
Memory(a) ==
  CASE a \in ImuCalibrationAt .. (ImuCalibrationAt + 23) ->
         factory_imu_calibration[a - ImuCalibrationAt + 1]
    [] a \in StickCalibrationAt .. (StickCalibrationAt + 17) ->
         factory_stick_calibration[a - StickCalibrationAt + 1]
    [] OTHER -> 0

SwitchAnswered(request, reply) ==
  LET first == Byte(request, 0)
      read == Byte(request, 10) = 16
      address == ReadWord(request, 11)
  IN /\ reply # NoValue => Byte(reply, 0) \in DOMAIN SwitchProReports.inputs
     /\ reply # NoValue => DOMAIN reply.at \subseteq 0..SwitchProReports.inputs[Byte(reply, 0)]
     /\ first = 128 => (reply = NoValue <=> Byte(request, 1) = 4)
     /\ first = 128 /\ reply # NoValue => Byte(reply, 1) = Byte(request, 1)
     /\ first = 1 => /\ Byte(reply, 13) >= 128
                     /\ Byte(reply, 14) = Byte(request, 10)
     /\ first = 1 /\ read =>
          \A i \in 0..(Byte(request, 15) - 1) :
             20 + i < 64 => Byte(reply, 20 + i) = Memory(address + i)

Features(w) ==
  CASE w = "dualshock4_usb" -> DualShock4UsbFeatures
    [] w = "dualshock4" -> DualShock4BluetoothFeatures
    [] w = "dualsense_usb" -> DualSenseUsbFeatures
    [] OTHER -> DualSenseBluetoothFeatures
DriverNeeds(w) ==
  CASE w = "dualshock4_usb" -> {2, 18, 163}
    [] w = "dualshock4" -> {5, 18, 163}
    [] OTHER -> {5, 9, 32}

PlayStationAnswered(w, number, reply) ==
  /\ number \in DriverNeeds(w) => reply # NoValue
  /\ reply # NoValue /\ number \in DOMAIN Features(w) => reply.size = Features(w)[number] + 1
  /\ reply # NoValue /\ IsPairing(ProfileOf(w).kind, number) => reply.mac = 1..6

AnswersFit ==
  answer # <<>> =>
    IF wire = "switch_pro" THEN SwitchAnswered(answer[1], answer[2])
    ELSE PlayStationAnswered(wire, answer[1], answer[2])
=============================================================================
