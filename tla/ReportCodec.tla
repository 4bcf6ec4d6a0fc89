---------------------------- MODULE ReportCodec ----------------------------
(***************************************************************************)
(* The report codec: src/src/core/report.cpp, the Xbox transports of Linux *)
(* and macOS, and the replies to the requests a host makes of a Switch Pro *)
(* controller and of the PlayStation pads.                                 *)
(*                                                                         *)
(* A report is its size and the bytes that are not zero, by offset. A      *)
(* report of the host also says whether its checksum is the one of its     *)
(* bytes: the CRC itself is abstracted to that.  Sticks and triggers are   *)
(* counted in halves of their range, and NaN is a value of its own;        *)
(* acceleration is counted in g and rotation in hundreds of degrees per    *)
(* second. Sequence numbers and timestamps are left out.                   *)
(***************************************************************************)
EXTENDS HidProfiles, TLC

CONSTANT NaN

NoValue == [none |-> TRUE]

-----------------------------------------------------------------------------
(* Numbers. *)

(* std::lround(n / d): halves away from zero. *)
Round(n, d) == IF n >= 0 THEN (2 * n + d) \div (2 * d) ELSE -((d - 2 * n) \div (2 * d))

Between(v, low, high) == IF v < low THEN low ELSE IF v > high THEN high ELSE v
(* Touch contacts and motion may still be NaN when they are rounded. What    *)
(* std::lround() gives then is LONG_MIN or 0, of which the code keeps the    *)
(* low bits: 0.                                                              *)
clamp_unit(v) == IF v = NaN THEN NaN ELSE Between(v, 0, 2)
Negated(v) == IF v = NaN THEN NaN ELSE -v
Scale(v, n, d) == IF v = NaN THEN 0 ELSE Round(v * n, d)

clamp_axis(v) == IF v = NaN THEN 0 ELSE Between(v, -2, 2)
clamp_trigger(v) == IF v = NaN THEN 0 ELSE Between(v, 0, 2)

normalize_u8_axis(v) == Round((v + 2) * 255, 4)
normalize_unsigned_axis(v) == Round((v + 2) * 65535, 4)
normalize_switch_stick_axis(v) == Round((v + 2) * 4095, 4)
normalize_trigger(v) == Round(v * 255, 2)
normalize_u10_trigger(v) == Round(v * 1023, 2)
scale_i16(v, n, d) == Between(Scale(v, n, d), -32768, 32767)
scale_output_byte(v) == 257 * v
scale_pid_rumble_magnitude(v) == (v * 65535 + 50) \div 100

-----------------------------------------------------------------------------
(* Reports. *)

Byte(report, i) == IF i \in DOMAIN report.at THEN report.at[i] ELSE 0
Word(at, v) == (at :> v % 256) @@ (at + 1 :> (v \div 256) % 256)
Words(at, values) ==
  FoldSeq(LAMBDA f, g : f @@ g, <<>>,
          [i \in DOMAIN values |-> Word(at + 2 * (i - 1), values[i])])
Bytes(at, values) == [i \in at .. (at + Len(values) - 1) |-> values[i - at + 1]]
ReadWord(report, i) == Byte(report, i) + 256 * Byte(report, i + 1)
Shifted(f, by) == [i \in {o + by : o \in DOMAIN f} |-> f[i - by]]

(* button_bits(), and every byte the code fills with add_flag(): bit i is   *)
(* set when the i-th of the named controls is down.                         *)
Flags(down, names) ==
  SumSet({2 ^ (i - 1) : i \in {j \in DOMAIN names : names[j] \in down}})

normalize_state(s) ==
  [s EXCEPT !.lx = clamp_axis(@), !.ly = clamp_axis(@), !.rx = clamp_axis(@),
            !.ry = clamp_axis(@), !.lt = clamp_trigger(@), !.rt = clamp_trigger(@),
            !.touch = [c \in DOMAIN @ |->
                         [@[c] EXCEPT !.x = clamp_unit(@), !.y = clamp_unit(@)]],
            !.battery = IF @ = NoValue THEN @
                        ELSE [@ EXCEPT !.percentage = Between(@, 0, 100)]]

(* The buttons, and the digital triggers the PlayStation and the Switch     *)
(* report beside the buttons.                                               *)
Down(s) ==
  s.buttons \cup (IF s.lt > 0 THEN {"l2"} ELSE {}) \cup (IF s.rt > 0 THEN {"r2"} ELSE {})

(* Opposite directions cancel each other. *)
Pointed(buttons) ==
  {d \in buttons \cap Dpad :
     \A pair \in {{"up", "down"}, {"left", "right"}} : d \in pair => ~ pair \subseteq buttons}

Hats == <<{"up"}, {"up", "right"}, {"right"}, {"down", "right"}, {"down"},
          {"down", "left"}, {"left"}, {"up", "left"}>>
NeutralHat == 8
hat_from_buttons(buttons) ==
  IF Pointed(buttons) = {} THEN NeutralHat
  ELSE (CHOOSE i \in DOMAIN Hats : Hats[i] = Pointed(buttons)) - 1
(* Mutant: the directions are not shifted past the neutral value 0.          *)
xbox_gip_hat_unshifted(buttons) == hat_from_buttons(buttons)
xbox_gip_hat_from_buttons(buttons) ==
  IF Pointed(buttons) = {} THEN 0 ELSE hat_from_buttons(buttons) + 1

-----------------------------------------------------------------------------
(* Input reports. *)

CommonBits ==
  <<"a", "b", "x", "y", "lb", "rb", "back", "start", "ls", "rs", "guide", "misc1">>
StandardBits == CommonBits \o <<"up", "down", "left", "right">>
XboxGipBits == [CommonBits EXCEPT ![11] = "none"]

U8Sticks(s, at) ==
  Bytes(at, <<normalize_u8_axis(s.lx), normalize_u8_axis(-s.ly),
              normalize_u8_axis(s.rx), normalize_u8_axis(-s.ry)>>)

pack_common_input_report(profile, s) ==
  [size |-> profile.input, at |->
     (0 :> profile.report_id) @@
     Word(1, Flags(s.buttons, CommonBits) + 4096 * hat_from_buttons(s.buttons)) @@
     Bytes(3, <<normalize_u8_axis(s.lx), normalize_u8_axis(-s.ly), normalize_trigger(s.lt),
                normalize_u8_axis(s.rx), normalize_u8_axis(-s.ry), normalize_trigger(s.rt)>>)]

pack_standard_gamepad_input_report(profile, s) ==
  [size |-> profile.input, at |->
     (0 :> profile.report_id) @@ Word(1, Flags(s.buttons, StandardBits)) @@
     U8Sticks(s, 3) @@ Bytes(7, <<normalize_trigger(s.lt), normalize_trigger(s.rt)>>)]

battery_strength(battery) ==
  IF battery = NoValue THEN 255 ELSE Round(battery.percentage * 255, 100)

pack_xbox_gip_input_report(profile, s) ==
  [size |-> profile.input, at |->
     Words(0, <<normalize_unsigned_axis(s.lx), normalize_unsigned_axis(-s.ly),
                normalize_unsigned_axis(s.rx), normalize_unsigned_axis(-s.ry),
                normalize_u10_trigger(s.lt), normalize_u10_trigger(s.rt),
                Flags(s.buttons, XboxGipBits)>>) @@
     Bytes(14, <<xbox_gip_hat_from_buttons(s.buttons), Flags(s.buttons, <<"guide">>),
                 battery_strength(s.battery)>>)]

FaceFlags == <<"none", "none", "none", "none", "x", "a", "b", "y">>
ShoulderFlags == <<"lb", "rb", "l2", "r2", "back", "start", "ls", "rs">>

Contact(at, contact, height) ==
  LET x == Scale(contact.x, 1919, 2)
      y == Scale(contact.y, height, 2)
  IN Bytes(at, <<(contact.id % 128) + (IF contact.active THEN 0 ELSE 128), x % 256,
                 x \div 256 + 16 * (y % 16), y \div 16>>)

Battery(s) == IF s.battery = NoValue THEN [state |-> "full", percentage |-> 100] ELSE s.battery
BatteryErrors == {"voltage_or_temperature_error", "temperature_error", "charging_error"}

dualshock4_battery_status(battery) ==
  LET charge == Round(battery.percentage, 10)
  IN CASE battery.state = "full" -> 27
       [] battery.state \in BatteryErrors -> 15
       [] battery.state = "discharging" -> charge
       [] OTHER -> 16 + charge

NoVector == <<>>
Vector(v, default) == IF v = NoVector THEN default ELSE v
Earth == <<0, 1, 0>>
Still == <<0, 0, 0>>
Scaled(v, n, d) == [i \in 1..3 |-> scale_i16(v[i], n, d)]

pack_dualshock4_input_report(profile, s) ==
  LET base == IF profile.bus = "bluetooth" THEN 3 ELSE 1
      down == Down(s)
      payload ==
        U8Sticks(s, 0) @@
        Bytes(4, <<hat_from_buttons(s.buttons) + Flags(down, FaceFlags),
                   Flags(down, ShoulderFlags), Flags(down, <<"guide", "touchpad">>),
                   normalize_trigger(s.lt), normalize_trigger(s.rt)>>) @@
        Words(12, Scaled(Vector(s.gyroscope, Still), 2000, 1) \o
                  Scaled(Vector(s.acceleration, Earth), 10000, 1)) @@
        Bytes(29, <<dualshock4_battery_status(Battery(s))>>) @@ Bytes(32, <<1>>) @@
        Contact(34, s.touch[1], 941) @@ Contact(38, s.touch[2], 941)
  IN [size |-> profile.input, at |->
        (0 :> profile.report_id) @@ Shifted(payload, base) @@
        (IF profile.bus = "bluetooth" THEN 1 :> 128 ELSE <<>>)]

dualsense_battery_state(state) ==
  CASE state = "discharging" -> 0
    [] state = "charging" -> 1
    [] state = "voltage_or_temperature_error" -> 10
    [] state = "temperature_error" -> 11
    [] state = "charging_error" -> 15
    [] OTHER -> 2

pack_dualsense_input_report(profile, s) ==
  LET base == IF profile.bus = "bluetooth" THEN 2 ELSE 1
      down == Down(s)
      payload ==
        U8Sticks(s, 0) @@
        Bytes(4, <<normalize_trigger(s.lt), normalize_trigger(s.rt)>>) @@
        Bytes(7, <<hat_from_buttons(s.buttons) + Flags(down, FaceFlags),
                   Flags(down, ShoulderFlags),
                   Flags(down, <<"guide", "touchpad", "misc1">>)>>) @@
        Words(15, Scaled(Vector(s.gyroscope, Still), 199840, 100) \o
                  Scaled(Vector(s.acceleration, Still), 961703, 100)) @@
        Contact(32, s.touch[1], 1079) @@ Contact(36, s.touch[2], 1079) @@
        Bytes(52, <<Round(Battery(s).percentage, 10) +
                    16 * dualsense_battery_state(Battery(s).state), 12>>)
  IN [size |-> profile.input, at |-> (0 :> profile.report_id) @@ Shifted(payload, base)]

switch_battery_and_connection(battery) ==
  IF battery = NoValue THEN 129
  ELSE 32 * Round(battery.percentage * 4, 100) +
       (IF battery.state = "charging" THEN 16 ELSE 0) + 1

write_switch_stick(at, x, y) ==
  Bytes(at, <<x % 256, x \div 256 + 16 * (y % 16), y \div 16>>)

(* Nintendo's axes are not the portable ones. *)
write_switch_imu_sample(at, acceleration, gyroscope) ==
  LET turned(v) == <<Negated(v[3]), Negated(v[1]), v[2]>>
  IN Words(at, Scaled(turned(acceleration), 4096, 1) \o
               Scaled(turned(gyroscope), 142842, 100))

SwitchButtonFlags(down) ==
  <<Flags(down, <<"y", "x", "b", "a", "none", "none", "rb", "r2">>),
    Flags(down, <<"back", "start", "rs", "ls", "guide", "misc1">>),
    Flags(down, <<"down", "up", "right", "left", "none", "none", "lb", "l2">>)>>

pack_switch_pro_input_report(profile, s) ==
  LET stick(at, x, y) == write_switch_stick(at, normalize_switch_stick_axis(x),
                                            normalize_switch_stick_axis(y))
      sample(at) == write_switch_imu_sample(at, Vector(s.acceleration, Earth),
                                            Vector(s.gyroscope, Still))
  IN [size |-> profile.input, at |->
        (0 :> profile.report_id) @@
        Bytes(2, <<switch_battery_and_connection(s.battery)>> \o SwitchButtonFlags(Down(s))) @@
        stick(6, s.lx, s.ly) @@ stick(9, s.rx, s.ry) @@ sample(13) @@ sample(25) @@ sample(37)]

pack_input_report(profile, state) ==
  LET s == normalize_state(state)
  IN CASE profile.kind \in {"xbox_one", "xbox_series"} -> pack_xbox_gip_input_report(profile, s)
       [] profile.kind = "dualshock4" -> pack_dualshock4_input_report(profile, s)
       [] profile.kind = "dualsense" -> pack_dualsense_input_report(profile, s)
       [] profile.kind = "switch_pro" -> pack_switch_pro_input_report(profile, s)
       [] profile.kind = "generic" -> pack_standard_gamepad_input_report(profile, s)
       [] OTHER -> pack_common_input_report(profile, s)

-----------------------------------------------------------------------------
(* Input reports of the transports, made from the state and the packed one. *)

make_xbox_bluetooth_input_report(s, packed, include_share_button) ==
  [size |-> 17, at |->
     (0 :> 1) @@ [i \in 1..12 |-> Byte(packed, i - 1)] @@
     Bytes(13, <<Byte(packed, 14),
                 Flags(s.buttons, <<"a", "b", "none", "x", "y", "none", "lb", "rb">>),
                 Flags(s.buttons, <<"none", "none", "back", "start", "guide", "ls", "rs">>),
                 IF include_share_button THEN Flags(s.buttons, <<"misc1">>) ELSE 0>>)]

(* The report is padded to the one size the broker takes of the device. *)
xbox_bluetooth_transport_input_report(s, packed, series) ==
  [size |-> 25, at |->
     (0 :> 1) @@ [i \in 1..12 |-> Byte(packed, i - 1)] @@
     Bytes(13, <<Byte(packed, 14),
                 Flags(s.buttons, <<"a", "b", "x", "y", "lb", "rb", "back", "start">>),
                 Flags(s.buttons, <<"ls", "rs", "guide">>),
                 IF series THEN Flags(s.buttons, <<"misc1">>) ELSE 0>>)]

(* GIP's sticks are signed and its upward direction positive: the bytes of  *)
(* the vertical ones are complemented, and the top bit of all is flipped.    *)
xbox_gip_transport_input_report(s, packed, series) ==
  LET stick(i) ==
        LET b == Byte(packed, i - 10)
            c == IF i \in {12, 13, 16, 17} THEN 255 - b ELSE b
        IN IF i \in {11, 13, 15, 17} THEN (c + 128) % 256 ELSE c
  IN [size |-> 25, at |->
        (0 :> 32) @@
        Bytes(3, <<16, Flags(s.buttons, <<"none", "none", "start", "back", "a", "b", "x", "y">>),
                   Flags(s.buttons, <<"up", "down", "left", "right", "lb", "rb", "ls", "rs">>)>>) @@
        [i \in 6..9 |-> Byte(packed, i + 2)] @@ [i \in 10..17 |-> stick(i)] @@
        (18 :> IF series THEN Flags(s.buttons, <<"misc1">>) ELSE 0) @@
        Bytes(20, <<7, 32, 0, 1, Flags(s.buttons, <<"guide">>)>>)]

xbox_transport_input_report(s, report) ==
  LET numbered == <<"a", "b", "x", "y", "lb", "rb", "ls", "rs", "start", "back", "guide",
                    "up", "down", "left", "right", "misc1">>
  IN [report EXCEPT !.at = Word(1, Flags(s.buttons, numbered)) @@
                           (4 :> 255 - Byte(report, 4)) @@ (7 :> 255 - Byte(report, 7)) @@ @]

-----------------------------------------------------------------------------
(* Output reports. Each parser gives the outputs the client is told of, in   *)
(* order; a report none of them understands is passed on raw.                *)

Has(value, flag) == (value \div flag) % 2 = 1

Rumble(low, high) == [kind |-> "rumble", low |-> low, high |-> high]
TriggerRumble(left, right) == [kind |-> "trigger_rumble", left |-> left, right |-> right]
Led(red, green, blue) == [kind |-> "rgb_led", rgb |-> <<red, green, blue>>]
Raw == [kind |-> "raw_report"]
If(condition, output) == IF condition THEN <<output>> ELSE <<>>

NoOffset == -1

pid_rumble_payload_offset(profile, report) ==
  LET first == Byte(report, 0)
  IN CASE profile.kind = "generic" ->
            IF report.size >= 9 /\ first = profile.report_id THEN 1 ELSE NoOffset
       [] profile.kind \in {"xbox_one", "xbox_series"} ->
            IF report.size >= 9 /\ first \in {0, 3} THEN 1
            ELSE IF report.size >= 8 THEN 0 ELSE NoOffset
       [] OTHER -> NoOffset

(* The magnitudes are those of the left and the right trigger and of the    *)
(* low and the high frequency motor, enabled by bits 3, 2, 1 and 0.          *)
decode_pid_rumble_report(profile, report) ==
  LET at == pid_rumble_payload_offset(profile, report)
      magnitude(i) == Byte(report, at + i)
      strength(i) ==
        IF Byte(report, at + 5) = 0 \/ ~ Has(Byte(report, at), 2 ^ (4 - i)) THEN 0
        ELSE scale_pid_rumble_magnitude(magnitude(i))
  IN IF at = NoOffset \/ \E i \in 1..4 : magnitude(i) > 100 THEN <<>>
     ELSE <<Rumble(strength(3), strength(4)), TriggerRumble(strength(1), strength(2))>>

switch_rumble_amplitudes ==
  <<0, 514, 775, 921, 1096, 1303, 1550, 1843, 2192, 2606, 3100, 3686, 4383, 5213, 6199, 7372,
    7698, 8039, 8395, 8767, 9155, 9560, 9984, 10426, 10887, 11369, 11873, 12398, 12947, 13520,
    14119, 14744, 15067, 15397, 15734, 16079, 16431, 16790, 17158, 17534, 17918, 18310, 18711,
    19121, 19540, 19967, 20405, 20851, 21308, 21775, 22251, 22739, 23236, 23745, 24265, 24797,
    25340, 25894, 26462, 27041, 27633, 28238, 28856, 29488, 30134, 30794, 31468, 32157, 32861,
    33581, 34316, 35068, 35836, 36620, 37422, 38242, 39079, 39935, 40809, 41703, 42616, 43549,
    44503, 45477, 46473, 47491, 48531, 49593, 50679, 51789, 52923, 54082, 55266, 56476, 57713,
    58977, 60268, 61588, 62936, 64315, 65535>>

(* One actuator's frame: the amplitudes of its high and its low band.        *)
HighIndex(report, at) == Byte(report, at + 1) \div 2
LowIndex(report, at) == 2 * (Byte(report, at + 3) - 64) + Byte(report, at + 2) \div 128
decodes_switch_rumble_frame(report, at) ==
  HighIndex(report, at) \in 0..100 /\ Byte(report, at + 3) \in 64..114 /\
  LowIndex(report, at) \in 0..100

decode_switch_rumble_report(report) ==
  LET strongest(Index(_, _)) ==
        Max({switch_rumble_amplitudes[Index(report, at) + 1] : at \in {2, 6}})
  IN If(/\ report.size >= 10
        /\ Byte(report, 0) \in {1, 16}
        /\ \A at \in {2, 6} : decodes_switch_rumble_frame(report, at),
        Rumble(strongest(LowIndex), strongest(HighIndex)))

decode_switch_home_light_intensity(i) ==
  <<0, 26, 51, 77, 102, 128, 153, 172, 184, 196, 206, 216, 226, 235, 243, 255>>[i + 1]

append_switch_pro_outputs(report) ==
  LET subcommand(n, size) ==
        report.size >= size /\ Byte(report, 0) = 1 /\ Byte(report, 10) = n
      light == decode_switch_home_light_intensity(Byte(report, 12) \div 16)
      lit(low) == {i \in 1..4 : Has(Byte(report, 11), 2 ^ (i - 1 + low))}
  IN decode_switch_rumble_report(report) \o
     If(subcommand(48, 12), [kind |-> "player_leds", on |-> lit(0), flashing |-> lit(4)]) \o
     If(subcommand(56, 15), Led(light, light, light))

dualshock4_common_output_offset(report) ==
  CASE report.size >= 32 /\ Byte(report, 0) = 5 -> 1
    [] report.size >= 78 /\ Byte(report, 0) = 17 ->
         IF Has(Byte(report, 1), 64) /\ ~ report.intact THEN NoOffset ELSE 3
    [] OTHER -> NoOffset

append_dualshock4_outputs(report, at) ==
  LET flag0 == Byte(report, at)
      b(i) == Byte(report, at + i)
  IN If(Has(flag0, 1), Rumble(scale_output_byte(b(4)), scale_output_byte(b(3)))) \o
     If(flag0 = 0 /\ b(1) = 0, Rumble(0, 0)) \o
     If(Has(flag0, 2), Led(b(5), b(6), b(7)))

(* Mutant: the framing of the kernel's reports is taken for SDL's.           *)
dualsense_common_output_offset_fixed(report) ==
  CASE report.size >= 48 /\ Byte(report, 0) = 2 -> 1
    [] report.size >= 78 /\ Byte(report, 0) = 49 /\ report.intact -> 2
    [] OTHER -> NoOffset
dualsense_common_output_offset(report) ==
  LET enable_hid == Has(Byte(report, 1), 2)
  IN CASE report.size >= 48 /\ Byte(report, 0) = 2 -> 1
       [] report.size >= 49 /\ Byte(report, 0) = 49 ->
            IF (report.size >= 78 /\ ~ report.intact) \/ (~ enable_hid /\ report.size < 50)
            THEN NoOffset ELSE IF enable_hid THEN 2 ELSE 3
       [] OTHER -> NoOffset

append_dualsense_outputs(report, at) ==
  LET flag0 == Byte(report, at)
      b(i) == Byte(report, at + i)
      vibrates == Has(flag0, 1) \/ Has(b(38), 4)
      effect(from) == [i \in from .. (from + 10) |-> b(i)]
  IN If(vibrates, Rumble(scale_output_byte(b(3)), scale_output_byte(b(2)))) \o
     If(~ vibrates /\ flag0 = 0 /\ b(1) = 0 /\ b(38) = 0, Rumble(0, 0)) \o
     If(Has(b(1), 4), Led(b(44), b(45), b(46))) \o
     If(Has(flag0, 4) \/ Has(flag0, 8),
        [kind |-> "adaptive_triggers",
         left |-> IF Has(flag0, 8) THEN <<b(21), effect(22)>> ELSE NoValue,
         right |-> IF Has(flag0, 4) THEN <<b(10), effect(11)>> ELSE NoValue])

OwnOutputs(profile, report) ==
  CASE profile.kind = "dualshock4" ->
         LET at == dualshock4_common_output_offset(report)
         IN IF at = NoOffset THEN <<>> ELSE append_dualshock4_outputs(report, at)
    [] profile.kind = "dualsense" ->
         LET at == dualsense_common_output_offset(report)
         IN IF at = NoOffset THEN <<>> ELSE append_dualsense_outputs(report, at)
    [] profile.kind = "switch_pro" -> append_switch_pro_outputs(report)
    [] OTHER -> <<>>

parse_output_reports(profile, report) ==
  LET understood ==
        OwnOutputs(profile, report) \o decode_pid_rumble_report(profile, report) \o
        If(/\ profile.kind = "xbox_360"
           /\ report.size >= profile.output
           /\ Byte(report, 0) = profile.report_id,
           Rumble(ReadWord(report, 1), ReadWord(report, 3)))
  IN IF understood = <<>> THEN <<Raw>> ELSE understood

(* A wired GIP rumble packet is the payload of report 3 after a header.      *)
xbox_transport_output_reports(profile, report) ==
  IF /\ profile.kind \in {"xbox_one", "xbox_series"}
     /\ report.size >= 13
     /\ Byte(report, 0) = 9 /\ Byte(report, 3) = 9
  THEN parse_output_reports(profile,
         [report EXCEPT !.size = 9,
                        !.at = (0 :> 3) @@ [i \in 1..8 |-> Byte(report, i + 4)]])
  ELSE parse_output_reports(profile, report)

-----------------------------------------------------------------------------
(* make_switch_pro_reply(): the answer to a request of the host, or none. *)

factory_stick_calibration ==
  <<255, 247, 127, 0, 8, 128, 255, 247, 127, 0, 8, 128, 255, 247, 127, 255, 247, 127>>
factory_imu_calibration ==
  <<0, 0, 0, 0, 0, 0, 0, 64, 0, 64, 0, 64, 0, 0, 0, 0, 0, 0, 59, 52, 59, 52, 59, 52>>
StickCalibrationAt == 24637
ImuCalibrationAt == 24608

(* copy_spi_data(): the part of data, kept at address from, that lies within *)
(* the read of size bytes at address, as far as the 64 bytes of a reply go.  *)
(* Mutant: the data always starts at the start of the reply.                 *)
copy_spi_data_unaligned(address, size, from, data) ==
  LET begin == IF address > from THEN address ELSE from
      n == Min({address + size, from + Len(data)}) - begin
  IN [i \in 20 .. (19 + Min({n, 44})) |-> data[begin - from + 1 + (i - 20)]]
copy_spi_data(address, size, from, data) ==
  LET begin == IF address > from THEN address ELSE from
      end == Min({address + size, from + Len(data)})
      to == 20 + (begin - address)
      n == Min({end - begin, 64 - to})
  IN [i \in to .. (to + n - 1) |-> data[begin - from + 1 + (i - to)]]

set_spi_reply(report) ==
  LET address == ReadWord(report, 11) + 65536 * ReadWord(report, 13)
      size == Byte(report, 15)
  IN [i \in 15..19 |-> Byte(report, i - 4)] @@
     copy_spi_data(address, size, ImuCalibrationAt, factory_imu_calibration) @@
     copy_spi_data(address, size, StickCalibrationAt, factory_stick_calibration)

controller_mac == <<2, 0, 0, 0, 0, 1>>
NeutralControllerState == Bytes(2, <<129, 0, 0, 0, 0, 8, 128, 0, 8, 128>>)
DeviceInfo == Bytes(15, <<4, 51, 3, 2>> \o controller_mac \o <<1, 1>>)

UsbCommandReply(command) ==
  Bytes(0, <<129, command>> \o
           (IF command = 1 THEN <<0, 3>> \o Reverse(controller_mac) ELSE <<>>))

SubcommandReply(report) ==
  LET subcommand == Byte(report, 10)
      acknowledgement == CASE subcommand = 16 -> 144 [] subcommand = 2 -> 130 [] OTHER -> 128
  IN (0 :> 33) @@ NeutralControllerState @@ Bytes(13, <<acknowledgement, subcommand>>) @@
     (CASE subcommand = 16 -> set_spi_reply(report)
        [] subcommand = 2 -> DeviceInfo
        [] OTHER -> <<>>)

make_switch_pro_reply(report) ==
  CASE report.size >= 2 /\ Byte(report, 0) = 128 /\ Byte(report, 1) # 4 ->
         [size |-> 64, at |-> UsbCommandReply(Byte(report, 1))]
    [] report.size >= 11 /\ Byte(report, 0) = 1 /\ (Byte(report, 10) = 16 => report.size >= 16) ->
         [size |-> 64, at |-> SubcommandReply(report)]
    [] OTHER -> NoValue

-----------------------------------------------------------------------------
(* make_playstation_feature_report(). The payloads are constant but for the  *)
(* address of the controller and, over Bluetooth, the checksum written over  *)
(* the last four bytes.                                                      *)

DualShock4Payloads == (2 :> 37) @@ (5 :> 41) @@ (163 :> 49) @@ (18 :> 16)
DualSensePayloads == (5 :> 41) @@ (32 :> 64) @@ (9 :> 20)

(* The calibration all of them carry: the biases are zero, and the ranges    *)
(* the same in both directions and on every axis.                            *)
playstation_calibration == [rotation |-> 10000, speed |-> 500, gravity |-> 10000]

PlayStationPayloadSize(kind, bus, number) ==
  LET payloads == CASE kind = "dualshock4" -> DualShock4Payloads
                    [] kind = "dualsense" -> DualSensePayloads
                    [] OTHER -> <<>>
  IN IF number \notin DOMAIN payloads \/ (kind = "dualshock4" /\ number = 5 /\ bus # "bluetooth")
     THEN 0 ELSE payloads[number]

IsPairing(kind, number) ==
  <<kind, number>> \in {<<"dualshock4", 18>>, <<"dualsense", 9>>}

make_playstation_feature_report(profile, number) ==
  LET size == PlayStationPayloadSize(profile.kind, profile.bus, number)
      mac == IF IsPairing(profile.kind, number) THEN 1..6 ELSE {}
      crc == IF profile.bus = "bluetooth" THEN (size - 4)..(size - 1) ELSE {}
  IN IF size = 0 THEN NoValue
     ELSE [size |-> size, number |-> number, mac |-> mac \ crc, crc |-> crc]
=============================================================================
