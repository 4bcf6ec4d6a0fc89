---------------------------- MODULE HidProfiles ----------------------------
(***************************************************************************)
(* The gamepad profiles of src/src/core/profiles.cpp and the transports    *)
(* that replace them on Linux and macOS: what a report descriptor says of  *)
(* the fields of the input report, of the size of every output and feature *)
(* report, and what gamepad_profile_support() derives from a profile.      *)
(*                                                                         *)
(* A descriptor is kept as the sequence of its input fields, each with the *)
(* control its usage stands for, its width in bits and its logical         *)
(* minimum, and as functions from report numbers to bytes after the        *)
(* number. Usages are named after the control the code's comments and the  *)
(* drivers of the host give them.                                          *)
(***************************************************************************)
EXTENDS Integers, Sequences, FiniteSets, SequencesExt, FiniteSetsExt, Functions

-----------------------------------------------------------------------------
(* GamepadButton, and the controls that are not buttons. *)

Dpad == {"up", "down", "left", "right"}
FaceButtons == {"a", "b", "x", "y"}
CommonButtons ==
  FaceButtons \cup Dpad \cup
  {"back", "start", "guide", "ls", "rs", "lb", "rb"}
Buttons == CommonButtons \cup {"misc1", "touchpad"}
Axes == {"lx", "ly", "rx", "ry"}
Triggers == {"lt", "rt"}

-----------------------------------------------------------------------------
(* Items of a descriptor. *)

Field(name, n, low) == <<[of |-> name, bits |-> n, low |-> low]>>
Pad(n) == Field("none", n, 0)
Vendor(n) == Field("vendor", 8 * n, 0)
Each(names, n) == FlattenSeq([i \in DOMAIN names |-> Field(names[i], n, 0)])

FieldBits(fields) == FoldSeq(LAMBDA f, n : f.bits + n, 0, fields)

-----------------------------------------------------------------------------
(* The descriptors of profiles.cpp. *)

CommonButtonFields(include_misc_button) ==
  Each(<<"a", "b", "x", "y", "lb", "rb", "back", "start", "ls", "rs", "guide">>, 1) \o
  (IF include_misc_button THEN Field("misc1", 1, 0) ELSE Pad(1))

PidRumbleOutput == (4 + 4 + 4 * 8 + 8 + 8 + 8) \div 8

XboxGipFields(include_share_button) ==
  Each(<<"lx", "ly", "rx", "ry">>, 16) \o
  Field("lt", 10, 0) \o Pad(6) \o Field("rt", 10, 0) \o Pad(6) \o
  Each(<<"a", "b", "x", "y", "lb", "rb", "back", "start", "ls", "rs">>, 1) \o
  (IF include_share_button THEN Each(<<"none", "misc1">>, 1) \o Pad(4) ELSE Pad(6)) \o
  Field("hat", 4, 1) \o Pad(4) \o
  Field("guide", 1, 0) \o Pad(7) \o Field("battery", 8, 0)

(* The declared fields of report 0x30 are not the ones the protocol of the  *)
(* controller puts there: the host's driver knows the real ones.            *)
SwitchProReports ==
  [inputs |-> (48 :> 63) @@ (33 :> 63) @@ (129 :> 63),
   outputs |-> [n \in {1, 16, 128, 130} |-> 63]]

GamepadFields ==
  CommonButtonFields(FALSE) \o Field("hat", 4, 0) \o
  Each(<<"lx", "ly", "lt", "rx", "ry", "rt">>, 8)

StandardGamepadFields ==
  Each(<<"a", "b", "x", "y", "lb", "rb", "back", "start", "ls", "rs", "guide",
         "misc1", "up", "down", "left", "right">>, 1) \o
  Each(<<"lx", "ly", "rx", "ry", "lt", "rt">>, 8)

PlayStationButtons ==
  <<"x", "a", "b", "y", "lb", "rb", "l2", "r2", "back", "start", "ls", "rs", "guide",
    "touchpad">>

PlayStationPrefix ==
  Each(<<"lx", "ly", "rx", "ry">>, 8) \o Field("hat", 4, 0) \o Each(PlayStationButtons, 1)

DualShock4UsbFields ==
  PlayStationPrefix \o Pad(6) \o Each(<<"lt", "rt">>, 8) \o Vendor(54)

DualShock4UsbOutputs == 5 :> 31

DualShock4UsbDeviceFeatures ==
  (4 :> 36) @@ (2 :> 36) @@ (8 :> 3) @@ (16 :> 4) @@ (17 :> 2) @@ (18 :> 15) @@ (19 :> 22)

DualShock4UsbAudioFeatures ==
  (20 :> 16) @@ (21 :> 44) @@ (128 :> 6) @@ (129 :> 6) @@ (130 :> 5) @@ (131 :> 1) @@
  (132 :> 4) @@ (133 :> 6) @@ (134 :> 6) @@ (135 :> 35) @@ (136 :> 34) @@ (137 :> 2)

DualShock4UsbTestFeatures ==
  (144 :> 5) @@ (145 :> 3) @@ (146 :> 3) @@ (147 :> 12) @@ (160 :> 6) @@ (161 :> 1) @@
  (162 :> 1) @@ (163 :> 48) @@ (164 :> 13) @@ (165 :> 21) @@ (166 :> 21) @@ (240 :> 63)

DualShock4UsbLastFeatures ==
  (241 :> 63) @@ (242 :> 15) @@ (167 :> 1) @@ (168 :> 1) @@ (169 :> 8) @@ (170 :> 1) @@
  (171 :> 57) @@ (172 :> 57) @@ (173 :> 11) @@ (174 :> 1) @@ (175 :> 2) @@ (176 :> 63)

DualShock4UsbFeatures ==
  DualShock4UsbDeviceFeatures @@ DualShock4UsbAudioFeatures @@
  DualShock4UsbTestFeatures @@ DualShock4UsbLastFeatures

DualShock4BluetoothFields ==
  Vendor(2) \o PlayStationPrefix \o Pad(6) \o Each(<<"lt", "rt">>, 8) \o Vendor(66)

DualShock4BluetoothOutputs == 17 :> 77
DualShock4BluetoothFeatures == (5 :> 40) @@ (18 :> 15) @@ (163 :> 48)

DualSenseUsbFields ==
  Each(<<"lx", "ly", "rx", "ry", "lt", "rt">>, 8) \o Vendor(1) \o Field("hat", 4, 0) \o
  Each(PlayStationButtons \o <<"misc1">>, 1) \o Pad(13) \o Vendor(52)

DualSenseUsbOutputs == 2 :> 47

DualSenseUsbDeviceFeatures ==
  (5 :> 40) @@ (8 :> 47) @@ (9 :> 19) @@ (10 :> 26) @@ (32 :> 63) @@ (33 :> 4) @@ (34 :> 63)

DualSenseUsbTestFeatures ==
  (128 :> 63) @@ (129 :> 63) @@ (130 :> 9) @@ (131 :> 63) @@ (132 :> 63) @@
  (133 :> 2) @@ (160 :> 1) @@ (224 :> 63) @@ (240 :> 63) @@ (241 :> 63) @@ (242 :> 15) @@
  (244 :> 63) @@ (245 :> 3)

DualSenseUsbFeatures == DualSenseUsbDeviceFeatures @@ DualSenseUsbTestFeatures

DualSenseBluetoothFields == Vendor(77)

DualSenseBluetoothOutputs ==
  (49 :> 77) @@ (50 :> 141) @@ (51 :> 205) @@ (52 :> 269) @@ (53 :> 333) @@
  (54 :> 397) @@ (55 :> 461) @@ (56 :> 525) @@ (57 :> 546)

DualSenseBluetoothFeatures ==
  (5 :> 40) @@ (8 :> 47) @@ (9 :> 19) @@ (32 :> 63) @@ (34 :> 63) @@ (128 :> 63) @@
  (129 :> 63) @@ (130 :> 9) @@ (131 :> 63) @@ (241 :> 63) @@ (242 :> 15) @@ (240 :> 63)

-----------------------------------------------------------------------------
(* The descriptors of the transports. *)

XboxBluetoothFields ==
  Each(<<"lx", "ly", "rx", "ry">>, 16) \o
  Field("lt", 10, 0) \o Pad(6) \o Field("rt", 10, 0) \o Pad(6) \o
  Field("hat", 4, 1) \o Pad(4)

(* Fifteen numbered buttons, which the host's drivers read in two ways: the *)
(* numbers of Linux leave gaps, GameController's do not.                     *)
GappedButtons ==
  <<"a", "b", "none", "x", "y", "none", "lb", "rb", "none", "none", "back", "start",
    "guide", "ls", "rs">>
CompactButtons ==
  <<"a", "b", "x", "y", "lb", "rb", "back", "start", "ls", "rs", "guide", "none", "none",
    "none", "none">>
XboxBluetoothButtons(numbered) ==
  Each(numbered, 1) \o Pad(1) \o Field("misc1", 1, 0) \o Pad(7)

XboxBluetoothRumble == 3 :> PidRumbleOutput

(* The vendor collection of macOS carries GIP packets of 24 bytes, which    *)
(* only the host's GIP decoder understands.                                 *)
MacosGipReports == [inputs |-> 32 :> 24, outputs |-> 9 :> 12]

MacosXbox360Fields ==
  Each(<<"a", "b", "x", "y", "lb", "rb", "ls", "rs", "start", "back", "guide",
         "up", "down", "left", "right", "misc1">>, 1) \o
  Each(<<"lx", "ly", "lt", "rx", "ry", "rt">>, 8)

-----------------------------------------------------------------------------
(* The profiles, by the name of the function that makes each of them. *)

BaseProfile(kind, capabilities) ==
  [kind |-> kind, bus |-> "usb", report_id |-> 1, input |-> 9,
   output |-> IF "rumble" \in capabilities THEN 5 ELSE 0, can |-> capabilities]

GenericGamepad ==
  [BaseProfile("generic", {"rumble"}) EXCEPT !.output = PidRumbleOutput + 1]

Xbox360 == BaseProfile("xbox_360", {"rumble"})

XboxGip(kind) ==
  [kind |-> kind, bus |-> "usb", report_id |-> 0, input |-> 17, output |-> PidRumbleOutput,
   can |-> {"rumble", "trigger_rumble", "battery"}]

DualShock4(bus) ==
  [kind |-> "dualshock4", bus |-> bus,
   report_id |-> IF bus = "bluetooth" THEN 17 ELSE 1,
   input |-> IF bus = "bluetooth" THEN 78 ELSE 64,
   output |-> IF bus = "bluetooth" THEN 78 ELSE 32,
   can |-> {"rumble", "motion", "touchpad", "rgb_led", "battery"}]

DualSense(bus) ==
  [kind |-> "dualsense", bus |-> bus,
   report_id |-> IF bus = "bluetooth" THEN 49 ELSE 1,
   input |-> IF bus = "bluetooth" THEN 78 ELSE 64,
   output |-> IF bus = "bluetooth" THEN 78 ELSE 48,
   can |-> {"rumble", "motion", "touchpad", "rgb_led", "battery", "adaptive_triggers"}]

SwitchPro ==
  [kind |-> "switch_pro", bus |-> "usb", report_id |-> 48, input |-> 64, output |-> 64,
   can |-> {"rumble", "motion", "rgb_led", "battery", "player_leds"}]

(* xbox_transport_profile(): what the macOS backend creates instead. *)
XboxTransport(profile) ==
  IF profile.kind = "xbox_360" THEN profile
  ELSE [profile EXCEPT !.bus = "bluetooth", !.report_id = 32, !.input = 25, !.output = 9]

Profile ==
  "generic" :> GenericGamepad @@
  "xbox_360" :> Xbox360 @@
  "xbox_one" :> XboxGip("xbox_one") @@
  "xbox_series" :> XboxGip("xbox_series") @@
  "dualshock4_usb" :> DualShock4("usb") @@
  "dualshock4" :> DualShock4("bluetooth") @@
  "dualsense_usb" :> DualSense("usb") @@
  "dualsense" :> DualSense("bluetooth") @@
  "switch_pro" :> SwitchPro

-----------------------------------------------------------------------------
(* gamepad_profile_support() and supports_gamepad_button(). *)

SupportsMisc1(profile) ==
  profile.kind \in {"generic", "xbox_series", "dualsense", "switch_pro"}

Supported(profile) ==
  CommonButtons \cup
  (IF SupportsMisc1(profile) THEN {"misc1"} ELSE {}) \cup
  (IF "touchpad" \in profile.can THEN {"touchpad"} ELSE {})
=============================================================================
