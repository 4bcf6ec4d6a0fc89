----------------------------- MODULE WindowsKeys -----------------------------
(***************************************************************************)
(* How the Windows backend names a key: a virtual key of the client        *)
(* becomes a scan code of the US layout (keylayout.hpp), a bit of the HID  *)
(* keyboard's modifiers or a usage of its page (windows_backend.cpp).      *)
(* A table is a set of runs: a first code and what it and the codes after  *)
(* it stand for.                                                           *)
(***************************************************************************)
EXTENDS Integers, Sequences

NoCode == 0

Counted(first, count) == [i \in 1..count |-> first + i - 1]

Find(table, code) ==
  LET has(run) == code \in run[1]..(run[1] + Len(run[2]) - 1)
  IN IF \E run \in table : has(run)
       THEN LET run == CHOOSE run \in table : has(run) IN run[2][code - run[1] + 1]
       ELSE NoCode

\* windows_us_english_virtual_key_to_scan_code
ScanCodes ==
  {<<3, <<70>>>>, <<8, <<14, 15>>>>, <<12, <<76, 28>>>>, <<16, <<42, 29, 56>>>>, <<20, <<58>>>>,
   <<27, <<1>>>>, <<32, <<57, 73, 81, 79, 71, 75, 72, 77, 80>>>>,
   <<44, <<84, 82, 83, 99, 11>> \o Counted(2, 9)>>,
   <<65, <<30, 48, 46, 32, 18, 33, 34, 35, 23, 36, 37, 38, 50, 49, 24, 25, 16, 19, 31, 20, 22,
           47, 17, 45, 21, 44, 91, 92, 93>>>>,
   <<95, <<95, 82, 79, 80, 81, 75, 76, 77, 71, 72, 73, 55, 78>>>>,
   <<109, <<74, 83, 53>> \o Counted(59, 10) \o <<87, 88>> \o Counted(100, 11) \o <<118>>>>,
   <<144, <<69, 70>>>>,
   <<160, <<42, 54, 29, 29, 56, 56, 106, 105, 103, 104, 101, 102, 50, 32, 46, 48, 25, 16, 36, 34,
            108, 109, 107, 33>>>>,
   <<186, <<39, 13, 51, 12, 52, 53, 41, 115, 126>>>>, <<219, <<26, 43, 27, 40>>>>,
   <<226, <<86>>>>, <<233, <<113, 92, 123>>>>, <<237, <<111, 90>>>>, <<241, <<91>>>>,
   <<243, <<95>>>>, <<245, <<94>>>>, <<249, <<93>>>>, <<251, <<98>>>>}

windows_us_english_scan_code(key) == Find(ScanCodes, key)

-----------------------------------------------------------------------------
Pause == 19
NumLock == 144

\* extended_key(): the navigation keys, the right modifiers and the like, and
\* the keys that the host's layout gives the prefix E0, which are the media keys.
extended_key(key) ==
  key \in 33..40 \cup {45, 46, 91, 92, 93, 111, 163, 165} \cup {95} \cup 166..183

\* The host has the US layout too.
MapVirtualKey(key) == windows_us_english_scan_code(key)

can_map_virtual_key_to_scan_code(key) == key \notin {91, 92, Pause}

\* The event of a key in one of the forms of KeyboardEvent; a scan code comes without
\* its prefix, which is `extended`.
Forms == {"plain", "normalized", "native", "scanned"}
KeyEvent(key, form) ==
  [key |-> key, normalized |-> form = "normalized", native |-> form = "native",
   scan |-> IF form = "scanned" THEN MapVirtualKey(key) ELSE NoCode,
   extended |-> form = "scanned" /\ extended_key(key)]

Extended(e) == e.extended \/ extended_key(e.key)

\* hid_keyboard_scan_code()
hid_keyboard_scan_code(e) ==
  CASE e.scan # NoCode -> e.scan
    [] e.scan = NoCode /\ e.normalized -> windows_us_english_scan_code(e.key)
    [] e.scan = NoCode /\ ~e.normalized /\ (e.native \/ e.extended)
         /\ can_map_virtual_key_to_scan_code(e.key) -> MapVirtualKey(e.key)
    [] OTHER -> NoCode

-----------------------------------------------------------------------------
(* Modifiers are the numbers of their bits, or none.                       *)

Modifiers == 0..7
NoModifier == 8

hid_modifier_bit_from_scan_code(scan, extended) ==
  CASE scan = 29 -> IF extended THEN 4 ELSE 0
    [] scan = 42 -> 1
    [] scan = 54 -> 5
    [] scan = 56 -> IF extended THEN 6 ELSE 2
    [] scan = 91 -> 3
    [] scan = 92 -> 7
    [] OTHER -> NoModifier

hid_modifier_bit_from_virtual_key(key) ==
  CASE key \in {17, 162} -> 0
    [] key \in {16, 160} -> 1
    [] key \in {18, 164} -> 2
    [] key = 91 -> 3
    [] key = 163 -> 4
    [] key = 161 -> 5
    [] key = 165 -> 6
    [] key = 92 -> 7
    [] OTHER -> NoModifier

hid_keyboard_modifier_bit(e) ==
  LET scan == hid_keyboard_scan_code(e)
  IN IF scan # NoCode THEN hid_modifier_bit_from_scan_code(scan, Extended(e))
                      ELSE hid_modifier_bit_from_virtual_key(e.key)

-----------------------------------------------------------------------------
(* Usages of the HID keyboard page.                                        *)

ExtendedUsages ==
  {<<28, <<88>>>>, <<32, <<127>>>>, <<46, <<129>>>>, <<48, <<128>>>>, <<53, <<84>>>>,
   <<55, <<70>>>>, <<69, <<72, 72, 74, 82, 75>>>>, <<75, <<80>>>>, <<77, <<79>>>>,
   <<79, <<77, 81, 78, 73, 76>>>>, <<93, <<101, 102>>>>}

\* standard_usages and the function keys.
StandardUsages ==
  {<<1, <<41>> \o Counted(30, 10) \o <<45, 46, 42, 43, 20, 26, 8, 21, 23, 28, 24, 12, 18, 19, 47, 48, 40>>>>,
   <<30, <<4, 22, 7, 9, 10, 11, 13, 14, 15, 51, 52, 53>>>>,
   <<43, <<49, 29, 27, 6, 25, 5, 17, 16, 54, 55, 56>>>>, <<55, <<85>>>>,
   <<57, <<44, 57>> \o Counted(58, 10)>>,
   <<70, <<71, 95, 96, 97, 86, 92, 93, 94, 87, 89, 90, 91, 98, 99>>>>, <<86, <<100, 68, 69>>>>,
   <<100, Counted(104, 12)>>}

hid_usage_from_scan_code(scan, key, extended) ==
  CASE extended -> Find(ExtendedUsages, scan)
    [] ~extended /\ scan = 69 -> IF key = Pause THEN 72 ELSE 83
    [] OTHER -> Find(StandardUsages, scan)

VirtualKeyUsages ==
  {<<8, <<42, 43>>>>, <<13, <<40>>>>, <<19, <<72, 57>>>>, <<27, <<41>>>>,
   <<32, <<44, 75, 78, 77, 74, 80, 82, 79, 81, 119>>>>,
   <<43, <<116, 70, 73, 76, 117, 39>> \o Counted(30, 9)>>, <<65, Counted(4, 26)>>,
   <<93, <<101>>>>, <<96, <<98>> \o Counted(89, 9) \o <<85, 87>>>>,
   <<109, <<86, 99, 84>> \o Counted(58, 12) \o Counted(104, 12)>>, <<144, <<83, 71>>>>,
   <<173, <<127, 129, 128>>>>, <<186, <<51, 46, 54, 45, 55, 56, 53>>>>,
   <<219, <<47, 49, 48, 52>>>>, <<226, <<100>>>>}

hid_usage_from_virtual_key(key) == Find(VirtualKeyUsages, key)

hid_keyboard_usage(e) ==
  LET scan == hid_keyboard_scan_code(e)
  IN IF scan # NoCode THEN hid_usage_from_scan_code(scan, e.key, Extended(e))
                      ELSE hid_usage_from_virtual_key(e.key)

-----------------------------------------------------------------------------
\* What WindowsKeyboard::submit() sends: a scan code with or without the prefix,
\* or the virtual key.
SentInput(e) ==
  LET scan ==
        CASE e.scan # NoCode -> e.scan
          [] e.scan = NoCode /\ e.normalized -> windows_us_english_scan_code(e.key)
          [] e.scan = NoCode /\ ~e.normalized /\ e.native
               /\ can_map_virtual_key_to_scan_code(e.key) -> MapVirtualKey(e.key)
          [] OTHER -> NoCode
  IN [scan |-> scan, prefixed |-> Extended(e), key |-> IF scan = NoCode THEN e.key ELSE NoCode]

\* Windows: the keys, of those looked for, that an input, a modifier or a usage is.
KeyOfInput(input, keys) ==
  IF input.scan = NoCode THEN {input.key}
  ELSE {k \in keys : MapVirtualKey(k) = input.scan /\ extended_key(k) = input.prefixed}
KeyOfModifier(bit, keys) == {k \in keys : hid_modifier_bit_from_virtual_key(k) = bit}
KeyOfUsage(usage, keys) == {k \in keys : hid_usage_from_virtual_key(k) = usage}

-----------------------------------------------------------------------------
\* Each of the keys is itself for Windows and none of the others, in whichever form it is
\* named and by whichever way it is sent.
KeysApart(keys) ==
  \A key \in keys, form \in Forms :
    LET event == KeyEvent(key, form)
        bit == hid_keyboard_modifier_bit(event)
        usage == hid_keyboard_usage(event)
    IN /\ bit # NoModifier => KeyOfModifier(bit, keys) = {key}
       /\ bit = NoModifier /\ usage # NoCode => KeyOfUsage(usage, keys) = {key}
       /\ KeyOfInput(SentInput(event), keys) = {key}
=============================================================================
